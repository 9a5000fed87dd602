------------------------------- MODULE Canvas -------------------------------
(***************************************************************************)
(* The graph pane in use: the layout the user makes of a spec              *)
(* (stores/layout.ts), the drags of GraphView.tsx and the density, and     *)
(* what is drawn of them.                                                  *)
(*                                                                         *)
(* A scene is a derived graph with what the registry and the spec say of   *)
(* its nodes.  Its transforms, boxes and arrows are worked out again in    *)
(* every state, as the memos do; the state holds the layout alone, and     *)
(* during a drag what was captured when the pointer went down.  A drag     *)
(* listens to the window, so nothing that is done meanwhile, by the        *)
(* keyboard say, ends it; there is one pointer.                            *)
(***************************************************************************)
EXTENDS CanvasGeometry, Bench

CONSTANTS
    CanvasScenes,    \* name -> [graph, defaults, apart, labels, curated, thresholds, alike]
    PointerMoves,    \* the pointer's way from where it went down, in pixels
    MaxEntries,      \* bound: entries of a layout that is edited
    PinnedAt         \* positions, in pixels, of the jobs that only change the density

EmptyLayout ==
    [positions |-> <<>>, collapsed |-> {}, expanded |-> {}, modes |-> <<>>,
     offsets |-> <<>>, strokes |-> <<>>, labels |-> {}]

Entries(l) ==
    Cardinality(DOMAIN l.positions) + Cardinality(l.collapsed) + Cardinality(l.expanded)
    + Cardinality(DOMAIN l.modes) + Cardinality(DOMAIN l.offsets) + Cardinality(DOMAIN l.strokes)
    + Cardinality(l.labels)

HasUserLayout(l) ==
    \/ DOMAIN l.positions # {} \/ l.collapsed # {} \/ DOMAIN l.modes # {}
    \/ DOMAIN l.offsets # {} \/ l.expanded # {} \/ DOMAIN l.strokes # {} \/ l.labels # {}

\* Written back; a layout with nothing in it is deleted, and reads as the empty one.
Written(l) == IF HasUserLayout(l) THEN l ELSE EmptyLayout

CanvasJob(s, t) ==
    [kind |-> "canvas", scene |-> s, layout |-> EmptyLayout, suppressed |-> FALSE,
     density |-> 4, threshold |-> t, drag |-> <<>>]

-----------------------------------------------------------------------------
(* What is drawn                                                           *)

SceneOf(j) == CanvasScenes[j.scene]

\* Math.round of a length at another density; half a pixel goes up.
Rescaled(n, old, new) == Px((2 * n * new + Px(old)) \div (2 * Px(old)))
RescaledPoints(points, old, new) ==
    [id \in DOMAIN points |->
        [x |-> Rescaled(points[id].x, old, new), y |-> Rescaled(points[id].y, old, new)]]

\* effectiveLayout: the curated layout at the density, under the user's.
Pins(j) ==
    j.layout.positions @@ (IF j.suppressed THEN <<>>
                           ELSE RescaledPoints(SceneOf(j).curated, 4, j.density))

\* getEffectiveCollapsedSet
CollapsedIn(j) == (SceneOf(j).defaults \cup j.layout.collapsed) \ j.layout.expanded

PaneWith(j, C) ==
    Graph!Replicate(Graph!ExpandChips(Graph!Collapse(SceneOf(j).graph, C), C), j.threshold, j.layout.modes)
PaneOf(j) == PaneWith(j, CollapsedIn(j))

\* The pins of nodes that are not drawn wait; pinnedMap.
ViewOf(j, g, offsets, shifts) ==
    [c |-> LayoutConstantsFor(j.density), apart |-> SceneOf(j).apart, offsets |-> offsets, shifts |-> shifts,
     pins |-> Restrict(Pins(j), DOMAIN Pins(j) \cap Graph!Visible(g))]

\* The memos baseLayout, portAssignment and layout: the dragged nodes are left out of
\* the first, from which the slots of the arrows are taken.
PictureWith(j, g, R, c, base, ports) ==
    [g |-> g, R |-> R, c |-> c, base |-> base, ports |-> ports,
     boxes |-> DrawnBoxes(g, R, ViewOf(j, g, j.layout.offsets, ReplicaShifts(g, R, c, ports)))]

PictureFrom(j, g, R, base) ==
    PictureWith(j, g, R, LayoutConstantsFor(j.density), base, ConsumerPorts(g, base))
PictureOf(j, g, R) == PictureFrom(j, g, R, DrawnBoxes(g, R, ViewOf(j, g, <<>>, <<>>)))
PanePicture(j, g) == PictureOf(j, g, ReplicaPlacement(g))
Picture(j) == PanePicture(j, PaneOf(j))

ArrowsOf(p) == Arrows(p.g, p.R, p.c, p.ports, ProducerPorts(p.g, p.base), p.boxes)

ScopeOf(g, x) == IF g.path[x] = <<>> THEN Graph!Root ELSE Last(g.path[x])

-----------------------------------------------------------------------------
(* stores/layout.ts                                                        *)

OnPane == job.kind = "canvas"

\* The drag that is under way, if there is one, is no longer all that happens.
Disturbed(drag) == IF drag = <<>> THEN drag ELSE <<[drag[1] EXCEPT !.alone = FALSE]>>
Rewritten(l) == job' = [job EXCEPT !.layout = Written(l), !.drag = Disturbed(@)]
ContainersIn(j) == Graph!Containers(SceneOf(j).graph)

\* A container that starts collapsed is noted when it is expanded, any other when it
\* is collapsed.
Toggled(l, id, inDefaults) ==
    IF inDefaults THEN [l EXCEPT !.expanded = SymDiff(@, {id}), !.collapsed = @ \ {id}]
    ELSE [l EXCEPT !.collapsed = SymDiff(@, {id}), !.expanded = @ \ {id}]

ToggleCollapse(id) ==
    /\ OnPane
    /\ Rewritten(Toggled(job.layout, id, id \in SceneOf(job).defaults))
    /\ id \in Graph!Visible(PaneOf(job))

CollapseAllContainers ==
    /\ OnPane /\ ContainersIn(job) \ CollapsedIn(job) # {}
    /\ Rewritten([job.layout EXCEPT !.collapsed = @ \cup (ContainersIn(job) \ SceneOf(job).defaults),
                                    !.expanded = @ \ ContainersIn(job)])

ExpandAllContainers ==
    /\ OnPane /\ ContainersIn(job) \cap CollapsedIn(job) # {}
    /\ Rewritten([job.layout EXCEPT !.expanded = @ \cup (ContainersIn(job) \cap SceneOf(job).defaults),
                                    !.collapsed = @ \ ContainersIn(job)])

Without(f, x) == Restrict(f, DOMAIN f \ {x})

SetReplicationMode(id, m) ==
    /\ OnPane
    /\ Rewritten([job.layout EXCEPT !.modes = IF m = "auto" THEN Without(@, id) ELSE (id :> m) @@ @])

SetSourceStroke(id, style) ==
    /\ OnPane
    /\ Rewritten([job.layout EXCEPT !.strokes = IF style = "" THEN Without(@, id) ELSE (id :> style) @@ @])

ClearNodePosition(id) ==
    /\ OnPane /\ id \in DOMAIN job.layout.positions
    /\ Rewritten([job.layout EXCEPT !.positions = Without(@, id)])

ClearRelativePosition(id) ==
    /\ OnPane /\ id \in DOMAIN job.layout.offsets
    /\ Rewritten([job.layout EXCEPT !.offsets = Without(@, id)])

\* The two resets of a spec with a curated layout; without one they are the same.
ResetLayout(automatic) ==
    /\ OnPane /\ (HasUserLayout(job.layout) \/ job.suppressed # automatic)
    /\ SceneOf(job).curated = <<>> => ~automatic
    /\ job' = [job EXCEPT !.layout = EmptyLayout, !.suppressed = automatic, !.drag = Disturbed(@)]

\* setViewDensity: what the user placed is rescaled first (rescaleAllPositions).
SetViewDensity(new) ==
    /\ OnPane /\ new # job.density
    /\ job' = [job EXCEPT !.density = new, !.drag = Disturbed(@),
                          !.layout.positions = RescaledPoints(@, job.density, new),
                          !.layout.offsets = RescaledPoints(@, job.density, new)]

SetReplicationThreshold(t) ==
    /\ OnPane /\ t # job.threshold
    /\ job' = [job EXCEPT !.threshold = t, !.drag = Disturbed(@)]

-----------------------------------------------------------------------------
(* startNodeDrag                                                           *)

\* A leaf at the top and a container take a position, everything else an offset.
DragMode(j, g, id) ==
    IF id \in Graph!Containers(g) \/ (id \in DOMAIN SceneOf(j).graph.path /\ g.path[id] = <<>>)
    THEN "absolute" ELSE "relative"

\* The interior of the parent, as it was when the pointer went down.
Interior(p, id) ==
    LET own == p.boxes[id]
        b == p.boxes[ScopeOf(p.g, id)]
    IN [left |-> b.x + p.c.pad, right |-> RightOf(b) - p.c.pad - own.w,
        top |-> b.y + HeaderHeight + p.c.pad, bottom |-> BottomOf(b) - p.c.pad - own.h]

\* labelTextLength: a label is cut that does not fit beside the chevron and the badge.
LabelIsCut(j, g, id, b) ==
    LET badge == IF g.kind[id] = "iterate" /\ g.span[id] > 1 THEN Px(28) ELSE 0
        room == b.w - LayoutConstantsFor(j.density).pad - Px(20) - badge
    IN room > 0 /\ Px(7 * SceneOf(j).labels[id]) > room

\* clicks: what to do with a press that does not move is settled when it goes down.
DragFrom(j, p, id, mode) ==
    [id |-> id, mode |-> mode, moved |-> FALSE, by |-> <<0, 0>>, alone |-> TRUE,
     clicks |-> id \in Graph!Containers(p.g) /\ LabelIsCut(j, p.g, id, p.boxes[id]),
     from |-> [x |-> p.boxes[id].x, y |-> p.boxes[id].y],
     offset |-> IF id \in DOMAIN j.layout.offsets THEN j.layout.offsets[id] ELSE [x |-> 0, y |-> 0],
     inside |-> IF mode = "absolute" /\ p.g.path[id] # <<>> THEN <<Interior(p, id)>> ELSE <<>>]

Grabbed(j, p, id) == [j EXCEPT !.drag = <<DragFrom(j, p, id, DragMode(j, p.g, id))>>]
\* On a box of the picture p.
PointerDown(p, id) == OnPane /\ job.drag = <<>> /\ job' = Grabbed(job, p, id)

Abs(n) == Max({n, -n})
FarEnough(by) == Abs(by[1]) + Abs(by[2]) > 4    \* DRAG_THRESHOLD_PX

\* Where an absolute drag puts the node: on the canvas, and inside its parent.
Held(d, by) ==
    LET x == Max({0, d.from.x + Px(by[1])})
        y == Max({0, d.from.y + Px(by[2])})
    IN IF d.inside = <<>> THEN [x |-> x, y |-> y]
       ELSE [x |-> Max({d.inside[1].left, Min({d.inside[1].right, x})}),
             y |-> Max({d.inside[1].top, Min({d.inside[1].bottom, y})})]

\* Mutant of OffsetAtStart: the way is added to the offset the drag has by now.
OffsetNow(d, layout) ==
    IF d.id \in DOMAIN layout.offsets THEN layout.offsets[d.id] ELSE [x |-> 0, y |-> 0]
OffsetAtStart(d, layout) == d.offset

PointerMove(by) ==
    LET d == job.drag[1]
        placed == IF d.mode = "relative"
                  THEN LET o == OffsetAtStart(d, job.layout)
                       IN [job.layout EXCEPT !.offsets =
                             (d.id :> [x |-> o.x + Px(by[1]), y |-> o.y + Px(by[2])]) @@ @]
                  ELSE [job.layout EXCEPT !.positions = (d.id :> Held(d, by)) @@ @]
    IN /\ OnPane /\ job.drag # <<>> /\ d.by # by
       /\ job' = IF d.moved \/ FarEnough(by)
                 THEN [job EXCEPT !.layout = placed, !.drag[1].moved = TRUE, !.drag[1].by = by]
                 ELSE [job EXCEPT !.drag[1].by = by]

\* A press that did not move is a click: on a container whose label is cut it shows
\* the whole label, or cuts it again.
ClicksLabel(d) == d.clicks /\ ~d.moved

PointerUp ==
    /\ OnPane /\ job.drag # <<>>
    /\ job' = [job EXCEPT !.drag = <<>>,
                 !.layout = IF ClicksLabel(job.drag[1])
                            THEN Written([@ EXCEPT !.labels = SymDiff(@, {job.drag[1].id})]) ELSE @]

-----------------------------------------------------------------------------
(* A pin while only the density changes                                    *)

PinJob(x, q) == [kind |-> "pin", home |-> Px(x), placed |-> q, at |-> Px(x), density |-> q]
FlipDensity(new) ==
    /\ job.kind = "pin" /\ new # job.density
    /\ job' = [job EXCEPT !.at = Rescaled(@, job.density, new), !.density = new]

-----------------------------------------------------------------------------
ReplicationSources(j) ==
    {e.from : e \in {f \in ToSet(SceneOf(j).graph.edges) : Graph!Carries(f)}} \ Graph!Endpoints

PressSome(p, ids) == \E id \in ids \cap DOMAIN p.boxes : PointerDown(p, id)

\* Bounds: an edit or a drag begins below MaxEntries; a drag may add the last entry, and
\* one more thing may happen while it lasts, at the normal density, but not in a drag
\* of a node that is like another.
MayHappen == IF job.drag = <<>> THEN Entries(job.layout) <= MaxEntries
           ELSE job.drag[1].alone /\ job.density = 4 /\ job.drag[1].id \notin SceneOf(job).alike
CanvasEdit ==
    /\ OnPane /\ MayHappen /\ (job.drag = <<>> => Entries(job.layout) < MaxEntries)
    /\ \/ \E id \in ContainersIn(job) : ToggleCollapse(id)
       \/ \E id \in ReplicationSources(job), m \in {"always", "never"} : SetReplicationMode(id, m)
       \/ /\ job.drag = <<>>
          /\ \/ CollapseAllContainers \/ ExpandAllContainers
             \/ \E id \in ReplicationSources(job) : SetSourceStroke(id, "dashed")
             \/ PressSome(Picture(job), Graph!Visible(PaneOf(job)))

\* A node is dragged again from where one drag has put it.
CanvasRedrag ==
    /\ OnPane /\ MayHappen
    /\ PressSome(Picture(job), {id \in DOMAIN job.layout.offsets : \E by \in PointerMoves :
                                   job.layout.offsets[id] = [x |-> Px(by[1]), y |-> Px(by[2])]})

CanvasUndo ==
    /\ OnPane /\ (job.drag # <<>> => MayHappen)
    /\ \/ \E id \in DOMAIN job.layout.modes : SetReplicationMode(id, "auto")
       \/ \E id \in DOMAIN job.layout.strokes : SetSourceStroke(id, "")
       \/ \E id \in DOMAIN job.layout.positions : ClearNodePosition(id)
       \/ \E id \in DOMAIN job.layout.offsets : ClearRelativePosition(id)
       \/ \E id \in job.layout.collapsed \cup job.layout.expanded : ToggleCollapse(id)
       \/ \E automatic \in BOOLEAN : ResetLayout(automatic)

CanvasLook ==
    /\ OnPane /\ MayHappen
    /\ \/ \E q \in 3..5 : SetViewDensity(q)
       \/ \E t \in SceneOf(job).thresholds : SetReplicationThreshold(t)

CanvasNext ==
    \/ CanvasEdit \/ CanvasRedrag \/ CanvasUndo \/ CanvasLook
    \/ \E by \in PointerMoves : PointerMove(by)
    \/ PointerUp
    \/ \E q \in 3..5 : FlipDensity(q)

CanvasInit ==
    \/ \E s \in DOMAIN CanvasScenes : \E t \in CanvasScenes[s].thresholds : job = CanvasJob(s, t)
    \/ \E x \in PinnedAt, q \in 3..5 : job = PinJob(x, q)

CanvasSpec == CanvasInit /\ [][CanvasNext]_job

-----------------------------------------------------------------------------
(* Properties                                                              *)

Apart(a, b) == RightOf(a) <= b.x \/ RightOf(b) <= a.x \/ BottomOf(a) <= b.y \/ BottomOf(b) <= a.y
Within(a, b) == a.x >= b.x /\ RightOf(a) <= RightOf(b) /\ a.y >= b.y /\ BottomOf(a) <= BottomOf(b)
Untouched(j) == Pins(j) = <<>> /\ j.layout.offsets = <<>>

AtHome(p) == {x \in Graph!Visible(p.g) : x \in Lifted(p.g) => p.g.path[p.R.consumer[x]] = p.g.path[x]}
BoxesInside(p, atHome) ==
    /\ atHome \subseteq DOMAIN p.boxes /\ DOMAIN p.boxes \subseteq Graph!Visible(p.g)
    /\ \A x \in atHome : IF p.g.path[x] = <<>> THEN p.boxes[x].y >= CanvasMargin
                         ELSE Within(p.boxes[x], p.boxes[ScopeOf(p.g, x)])
    /\ \A x, y \in atHome : x # y /\ p.g.path[x] = p.g.path[y] => Apart(p.boxes[x], p.boxes[y])

\* As long as nothing is pinned or dragged, every node, chip and replica of the pane is
\* drawn, inside its container, below the margin, and on none of its siblings.  Left out
\* are replicas that feed a replica in another scope, which may be missing or covered.
BoxesNest(p) == Untouched(job) => BoxesInside(p, AtHome(p))

\* A node is where the pointer has taken it.  One that takes a position stops at the
\* canvas's and its parent's edge; one that takes an offset is measured from where it
\* was when the pointer went down, as long as nothing but the drag has happened since.
UnderPointer(d, b) ==
    /\ d.mode = "absolute" => [x |-> b.x, y |-> b.y] = Held(d, d.by)
    /\ d.mode = "relative" /\ d.alone
         => b.x = d.from.x + Px(d.by[1]) /\ b.y = d.from.y + Px(d.by[2])

\* Dragging by an offset reflows nothing: in its scope only the replicas that feed the
\* node go with it.
StaysBut(old, new, id) ==
    \A x \in DOMAIN old.boxes :
        x # id /\ old.g.path[x] = old.g.path[id] /\ ~(x \in Lifted(old.g) /\ old.R.consumer[x] = id)
        => old.boxes[x] = new.boxes[x]

\* With every move the node is under the pointer and its siblings are left alone,
\* though the density, the replication or the layout changed while it was held; one
\* that was collapsed away meanwhile moves nothing.
MoveFollows(old, new, before, d) ==
    IF d.id \in DOMAIN new.boxes
    THEN /\ d.moved => UnderPointer(d, new.boxes[d.id])
         /\ before.mode = "relative" => StaysBut(old, new, d.id)
    ELSE new.boxes = old.boxes

\* A drag that outlives edits: what was edited during it is kept by the moves that
\* follow, but for the place of the node itself.
OthersKept(old, new, id) ==
    [new EXCEPT !.positions = Without(@, id), !.offsets = Without(@, id)]
      = [old EXCEPT !.positions = Without(@, id), !.offsets = Without(@, id)]

DragsHold ==
    [][\A by \in PointerMoves : PointerMove(by) =>
         /\ MoveFollows(Picture(job), Picture(job'), job.drag[1], job'.drag[1])
         /\ OthersKept(job.layout, job'.layout, job.drag[1].id)]_job

\* As long as nothing is dragged: no two arrows meet a node at one point, and no two
\* that carry aux keys leave it at one.
ArrowsSpread(p, arrows) ==
    job.layout.offsets = <<>> => \A a, b \in {q \in DOMAIN arrows : ~q.feedback} :
        a # b =>
          /\ VisualTarget(p.g, a.edge) # VisualTarget(p.g, b.edge) \/ arrows[a].meets # arrows[b].meets
          /\ \/ a.edge.from # b.edge.from \/ {a.edge.kind, b.edge.kind} # {"aux"}
             \/ arrows[a].start # arrows[b].start

\* The dot of a port sits where its arrow meets the node, dragged or not, and an arrow
\* into a collapsed container has one.
DotsSitOnArrowheads(p, arrows) ==
    \A dot \in PortDots(p.g, p.c, p.ports, p.boxes)
              \cup ContainerDots(p.g, p.c, p.ports, p.boxes, CollapsedIn(job)) :
        dot.bundle.feedback \/ dot.at = arrows[dot.bundle].meets

OpenSlots(p, kids, box, here) ==
    /\ {<<u.kind, u.id>> : u \in here} = {<<"before", k>> : k \in ToSet(kids)} \cup {<<"after", Last(kids)>>}
    /\ \A u \in here : Within(u.box, box) /\ \A k \in ToSet(kids) : Apart(u.box, p.boxes[k])
SlotsIn(p, gutters, collapsed) ==
    \A x \in {y \in Graph!Containers(p.g) : p.g.kids[y] # <<>>} \ collapsed :
        OpenSlots(p, p.g.kids[x], p.boxes[x],
                  {u \in gutters : u.id \in ToSet(p.g.kids[x]) /\ u.kind # "into-start"})

\* As long as nothing is pinned, dragged or replicated, something can be dropped before
\* every child of an open container and after the last, on a strip that covers none.
GuttersOpenEverySlot(p, collapsed) ==
    Untouched(job) /\ DOMAIN p.g.source = {}
      => SlotsIn(p, DropGutters(p.g, p.c, p.boxes, collapsed), collapsed)

\* What the pane shows, whatever has been collapsed, replicated, pinned and dragged.
PaneHolds(p) ==
    LET arrows == ArrowsOf(p)
    IN /\ BoxesNest(p) /\ GuttersOpenEverySlot(p, CollapsedIn(job))
       /\ ArrowsSpread(p, arrows) /\ DotsSitOnArrowheads(p, arrows)

\* An edit does what it says and nothing else gets lost with it: a toggle flips one
\* container, a label, a mode or a stroke that was set stays set.
EditsStick ==
    [][OnPane /\ job'.layout # job.layout =>
         /\ \A id \in ContainersIn(job) : ToggleCollapse(id) => CollapsedIn(job') = SymDiff(CollapsedIn(job), {id})
         /\ CollapseAllContainers => CollapsedIn(job') = ContainersIn(job)
         /\ ExpandAllContainers => CollapsedIn(job') = {}
         /\ PointerUp /\ ClicksLabel(job.drag[1])
              => job'.layout.labels = SymDiff(job.layout.labels, {job.drag[1].id})]_job

\* Rounded at every change of the density, a pin is never more than three pixels from
\* where it was set, however often and by whatever way the density returns.
PinsDoNotDrift ==
    job.kind = "pin" /\ job.density = job.placed => Abs(job.at - job.home) <= Px(3)

\* The canvas holds together under drags, collapses and rescales, in whatever order and
\* while a node is held: boxes nest, arrows end on their ports, edits stick, the node is
\* under the pointer, and a pin stays about where it was set.
CanvasHolds ==
    [](OnPane => PaneHolds(Picture(job))) /\ EditsStick /\ DragsHold /\ []PinsDoNotDrift

\* What the comment of rescaleAllPositions says of many changes: a pin that comes back
\* to the density it was set at is within a pixel of where it was.
PinsStayWithinAPixel ==
    job.kind = "pin" /\ job.density = job.placed => Abs(job.at - job.home) <= Px(1)

=============================================================================
