---------------------------- MODULE CanvasGeometry ----------------------------
(***************************************************************************)
(* GraphView.tsx: where the graph pane draws its boxes, the arrows between *)
(* them, the dots on the ports they arrive at, and the gaps a palette      *)
(* entry is dropped into.                                                  *)
(*                                                                         *)
(* A group stacks its children, every other container lines them up, and   *)
(* the replicas of a source stand above or beside the node they feed. A    *)
(* node may be pinned, which moves what comes after it, or dragged by an   *)
(* offset, which should not. Rounds that have a picture of their own are   *)
(* RoundLayouts' business. Lengths are in twelfths of a pixel, in which    *)
(* halves, thirds and quarters are whole.                                  *)
(*                                                                         *)
(* Edges that run together are bundled. Arrows that meet one side of a box *)
(* are spread along it, by slots worked out on the base layout, which      *)
(* knows no dragged node; what is drawn is drawn on the dragged one. The   *)
(* way of an arrow and the place of its dot are computed apart.            *)
(***************************************************************************)
EXTENDS Integers, FiniteSets, SequencesExt, Functions, FiniteSetsExt

CONSTANTS
    ChipCap    \* BLOCK_CHIP_CAP, of the graph's transforms

-----------------------------------------------------------------------------
(***************************************************************************)
(* Boxes (layoutRoot).                                                     *)
(***************************************************************************)

Graph == INSTANCE GraphTransforms

Px(n) == 12 * n
HeaderHeight == Px(22)
CanvasMargin == Px(60)
ArrowInset == Px(6)
HeadroomChildren == 8     \* ITERATE_HEADROOM_MIN_CHILDREN

\* Math.round of n pixels at the density's scale, in quarters; BASE_LEAF_W and so on.
AtScale(n, quarters) == Px((2 * n * quarters + 4) \div 8)
LayoutConstantsFor(quarters) ==
    [leafW |-> AtScale(132, quarters), leafH |-> AtScale(28, quarters),
     stack |-> AtScale(60, quarters), flow |-> AtScale(72, quarters), pad |-> AtScale(10, quarters),
     sourceStep |-> AtScale(32, quarters), lift |-> AtScale(36, quarters),
     replicaStack |-> AtScale(48, quarters)]

Box(x, y, w, h) == [x |-> x, y |-> y, w |-> w, h |-> h]
RightOf(b) == b.x + b.w
BottomOf(b) == b.y + b.h

-----------------------------------------------------------------------------
(* buildReplicaPlacement                                                   *)

Lifted(g) == DOMAIN g.source \ g.spine    \* the spine replica stands in the row like a node

\* Replicas of one consumer are stacked in the order their sources first appear.
ReplicaPlacement(g) ==
    LET lifted == Lifted(g)
        edgesOf(S) == {i \in DOMAIN g.edges : g.edges[i].from \in S}
        consumer == Graph!Tabled([r \in lifted |-> g.edges[Max(edgesOf({r}))].to])
        order(x) == Min(edgesOf({r \in lifted : g.source[r] = x}))
        mates(r) == {q \in lifted : consumer[q] = consumer[r]}
    IN [consumer |-> consumer,
        row |-> Graph!Tabled([r \in lifted |->
                    Cardinality({q \in mates(r) : order(g.source[q]) < order(g.source[r])})]),
        total |-> [r \in lifted |-> Cardinality(mates(r))]]

\* replicaSlotPosition, replicaLiftHeight: the rows above a consumer.
SlotPosition(c, x, y, row) ==
    Box(x, y - c.leafH - c.lift - row * (c.leafH + c.replicaStack), c.leafW, c.leafH)

LiftHeight(c, rows) ==
    IF rows = {} THEN 0 ELSE c.leafH + c.lift + Max(rows) * (c.leafH + c.replicaStack)

-----------------------------------------------------------------------------
(* layoutNode.  A view v has the constants c, the pins, the offsets of     *)
(* dragged nodes, the roots that stand apart, and the shifts of lone       *)
(* replicas; out is what has been drawn so far.                            *)

Dragged(v, id, b) ==
    IF id \in DOMAIN v.offsets THEN [b EXCEPT !.x = @ + v.offsets[id].x, !.y = @ + v.offsets[id].y] ELSE b

RowsOf(R, reps) == {R.row[r] : r \in ToSet(reps)}

\* Replicas, each where its consumer's box puts it; without one it is not drawn.
Attach(v, R, out, reps, At(_, _)) ==
    FoldLeft(LAMBDA o, r : IF R.consumer[r] \in DOMAIN o
                           THEN (r :> Dragged(v, r, At(o[R.consumer[r]], r))) @@ o ELSE o,
             out, reps)
Above(v, R, b, r) == SlotPosition(v.c, b.x, b.y, R.row[r])
RightEnd(out, reps) == Max({0} \cup {RightOf(out[r]) : r \in ToSet(reps) \cap DOMAIN out})

\* A leaf, a collapsed container or a chip: the layout goes on from its undragged box.
LayLeaf(v, out, id, x, y) ==
    LET b == Box(x, y, v.c.leafW, v.c.leafH)
    IN [own |-> b, out |-> (id :> Dragged(v, id, b)) @@ out]

RECURSIVE LayNode(_, _, _, _, _, _, _)

\* The children of a container that take a place of their own, and the others.
NodesIn(g, id) == SelectSeq(g.kids[id], LAMBDA k : k \notin Lifted(g))
ReplicasIn(g, id) == SelectSeq(g.kids[id], LAMBDA k : k \in Lifted(g))
WithBox(id, own, out) == [own |-> own, out |-> (id :> own) @@ out]

\* A group: a column; the replicas of its first child above it, the others beside it.
Stacked(c, a, one) ==
    [y |-> a.y + one.own.h + c.stack, out |-> one.out, wide |-> Max({a.wide, one.own.w}),
     bottom |-> Max({a.bottom, BottomOf(one.own), a.y + one.own.h})]

KidsDown(g, R, v, out, kids, left, top) ==
    FoldLeft(LAMBDA a, k : Stacked(v.c, a, LayNode(g, R, v, a.out, k, left, a.y)),
             [y |-> top, bottom |-> top, wide |-> v.c.leafW, out |-> out], kids)

GutterWidth(c, beside) == IF beside = <<>> THEN 0 ELSE c.leafW + c.flow
AttachBeside(v, R, x, out, beside) ==
    Attach(v, R, out, beside, LAMBDA b, r :
           Box(x + v.c.pad, b.y + (b.h - v.c.leafH) \div 2, v.c.leafW, v.c.leafH))
AttachAbove(v, R, out, above) == Attach(v, R, out, above, LAMBDA b, r : Above(v, R, b, r))

GroupBox(c, id, x, y, gutter, column, above, out) ==
    LET wide == Max({column.wide, RightEnd(out, above) - (x + c.pad + gutter)})
    IN WithBox(id, Box(x, y, gutter + wide + 2 * c.pad, column.bottom - y + c.pad), out)

AroundColumn(v, R, id, x, y, above, beside, column) ==
    GroupBox(v.c, id, x, y, GutterWidth(v.c, beside), column, above,
             AttachAbove(v, R, AttachBeside(v, R, x, column.out, beside), above))

GroupOf(g, R, v, out, id, x, y, kids, above, beside) ==
    AroundColumn(v, R, id, x, y, above, beside,
        KidsDown(g, R, v, out, kids, x + v.c.pad + GutterWidth(v.c, beside),
               y + HeaderHeight + v.c.pad + LiftHeight(v.c, RowsOf(R, above))))

FeedsFirst(R, kids, r) == kids # <<>> /\ R.consumer[r] = kids[1]
LayGroup(g, R, v, out, id, x, y) ==
    GroupOf(g, R, v, out, id, x, y, NodesIn(g, id),
            SelectSeq(ReplicasIn(g, id), LAMBDA r : FeedsFirst(R, NodesIn(g, id), r)),
            SelectSeq(ReplicasIn(g, id), LAMBDA r : ~FeedsFirst(R, NodesIn(g, id), r)))

\* Every other container: a line from left to right, replicas above, and room for
\* the arcs of feedback edges under a long one.
Lined(c, a, one) ==
    [x |-> RightOf(one.own) + c.flow, right |-> RightOf(one.own), out |-> one.out,
     bottom |-> Max({a.bottom, BottomOf(one.own)})]

KidsAcross(g, R, v, out, kids, left, top) ==
    FoldLeft(LAMBDA a, k : Lined(v.c, a, LayNode(g, R, v, a.out, k, a.x, top)),
             [x |-> left, right |-> left, bottom |-> top, out |-> out], kids)

LineBox(c, id, x, y, long, line, above, out) ==
    LET bottom == Max({line.bottom} \cup {BottomOf(out[r]) : r \in ToSet(above) \cap DOMAIN out})
        headroom == IF long THEN Max({0, bottom - (y + HeaderHeight + c.pad)}) ELSE 0
    IN WithBox(id, Box(x, y, Max({line.right, RightEnd(out, above)}) - x + c.pad,
                       bottom - y + c.pad + headroom), out)

AroundLine(v, R, id, x, y, long, above, line) ==
    LineBox(v.c, id, x, y, long, line, above, AttachAbove(v, R, line.out, above))

LineOf(g, R, v, out, id, x, y, above) ==
    AroundLine(v, R, id, x, y, Len(g.kids[id]) >= HeadroomChildren, above,
        KidsAcross(g, R, v, out, NodesIn(g, id), x + v.c.pad,
             y + HeaderHeight + v.c.pad + LiftHeight(v.c, RowsOf(R, above))))

LayLine(g, R, v, out, id, x, y) == LineOf(g, R, v, out, id, x, y, ReplicasIn(g, id))

LayNode(g, R, v, out, id, cursorX, cursorY) ==
    LET x == IF id \in DOMAIN v.pins THEN v.pins[id].x ELSE cursorX
        y == IF id \in DOMAIN v.pins THEN v.pins[id].y ELSE cursorY
    IN IF id \notin Graph!Containers(g) \/ g.kids[id] = <<>> THEN LayLeaf(v, out, id, x, y)
       ELSE IF g.kind[id] = "group" THEN LayGroup(g, R, v, out, id, x, y)
       ELSE LayLine(g, R, v, out, id, x, y)

-----------------------------------------------------------------------------
(* layoutRoot                                                              *)

IsChip(id) == id # <<>> /\ Last(id)[1] = "@block"
FirstBodyNode(g, id) ==       \* the first child that is no replica of the row above
    IF NodesIn(g, id) = <<>> THEN Graph!Root ELSE NodesIn(g, id)[1]
IsLoop(g, id) == id \in Graph!Containers(g) /\ g.kind[id] = "iterate"

\* A replica before a loop points at the loop's first child; a row of chips it faces
\* as a whole.
RootAnchor(g, c, out, id) ==
    LET first == IF IsLoop(g, id) THEN FirstBodyNode(g, id) ELSE Graph!Root
    IN IF IsChip(first) THEN out[id].x + (out[id].w - c.leafW) \div 2
       ELSE IF first \in DOMAIN out THEN out[first].x ELSE out[id].x

\* The roots that only publish aux keys stand in a row of their own at the margin.
RootLift(g, R, v) ==
    Max({LiftHeight(v.c, RowsOf(R, ReplicasIn(g, Graph!Root))),
         IF ToSet(NodesIn(g, Graph!Root)) \cap v.apart = {} THEN 0 ELSE v.c.leafH + v.c.lift})

NextRoot(c, one, x) == [x |-> x + one.own.w + c.flow, out |-> one.out]
RootRow(g, R, v, lift) ==
    FoldLeft(LAMBDA a, k : NextRoot(v.c, LayNode(g, R, v, a.out, k, a.x,
                                                 CanvasMargin + (IF k \in v.apart THEN 0 ELSE lift)), a.x),
             [x |-> CanvasMargin, out |-> <<>>], NodesIn(g, Graph!Root))

LayRoots(g, R, v) == RootRow(g, R, v, RootLift(g, R, v)).out

ShiftOf(v, r) == IF r \in DOMAIN v.shifts THEN v.shifts[r] ELSE 0
WithRootReplicas(g, R, v, out) ==
    Attach(v, R, out, ReplicasIn(g, Graph!Root), LAMBDA b, r :
           SlotPosition(v.c, RootAnchor(g, v.c, out, R.consumer[r]) + ShiftOf(v, r), b.y, R.row[r]))

DrawnBoxes(g, R, v) == WithRootReplicas(g, R, v, LayRoots(g, R, v))

-----------------------------------------------------------------------------
(***************************************************************************)
(* Arrows, dots and gaps.                                                  *)
(***************************************************************************)

-----------------------------------------------------------------------------
(* bundleEdges, of core/graph.ts                                           *)

\* Each edge with whether it runs back, and its place.
BundleOf(g, back, i) == [edge |-> g.edges[i], feedback |-> g.edges[i] \in back, at |-> i]
EdgeKeys(g, back) == Graph!Tabled([i \in DOMAIN g.edges |-> Graph!BundleKey(g.edges[i], g.edges[i] \in back)])

\* The first edge of each key stands for the bundle.
FirstPlaces(keys) == {i \in DOMAIN keys : \A j \in 1..(i - 1) : keys[j] # keys[i]}
BundlesBy(g, back) == {BundleOf(g, back, i) : i \in FirstPlaces(EdgeKeys(g, back))}
BundleEdges(g) == BundlesBy(g, Graph!Feedback(g))

\* An arrow from a replica to a loop points at the loop's first child, unless that is
\* a chip.
VisualTarget(g, e) ==
    LET first == IF e.from \in DOMAIN g.source /\ IsLoop(g, e.to)
                 THEN SelectSeq(g.kids[e.to], LAMBDA k : k \notin DOMAIN g.source) ELSE <<>>
    IN IF first = <<>> \/ IsChip(first[1]) THEN e.to ELSE first[1]

-----------------------------------------------------------------------------
(* Sides and slots                                                         *)

Overlap(a, b, c, d) == Min({b, d}) > Max({a, c})
\* One box over the other: the arrow leaves and arrives at the top and the bottom.
Vertical(f, t) ==
    /\ Overlap(f.x, RightOf(f), t.x, RightOf(t))
    /\ ~Overlap(f.y, BottomOf(f), t.y, BottomOf(t))
Downward(f, t) == 2 * t.y + t.h >= 2 * f.y + f.h
Rightward(f, t) == 2 * t.x + t.w >= 2 * f.x + f.w

ArrivalSide(f, t) ==
    IF Vertical(f, t) THEN (IF Downward(f, t) THEN "top" ELSE "bottom")
    ELSE IF Rightward(f, t) THEN "left" ELSE "right"
DepartureSide(f, t) ==
    IF Vertical(f, t) THEN (IF Downward(f, t) THEN "bottom" ELSE "top")
    ELSE IF Rightward(f, t) THEN "right" ELSE "left"

\* The rank of each bundle among those of its bucket.
SideSlots(bucket, Before(_, _)) ==
    Graph!Tabled([b \in DOMAIN bucket |->
        LET mates == {q \in DOMAIN bucket : bucket[q] = bucket[b]}
        IN [slot |-> Cardinality({q \in mates : Before(q, b)}), count |-> Cardinality(mates)]])

EndsIn(g, base, b) == {b.edge.from, VisualTarget(g, b.edge)} \subseteq DOMAIN base
Buckets(g, Node(_), Side(_)) == Graph!Tabled([b \in BundleEdges(g) |-> <<Node(b), Side(b)>>])

ConsumerSide(g, base, b) ==
    IF b.feedback THEN "top"
    ELSE IF EndsIn(g, base, b) THEN ArrivalSide(base[b.edge.from], base[VisualTarget(g, b.edge)]) ELSE ""
ProducerSide(g, base, b) ==
    IF b.feedback THEN "top"
    ELSE IF EndsIn(g, base, b) THEN DepartureSide(base[b.edge.from], base[VisualTarget(g, b.edge)]) ELSE ""

\* The source an arrow comes from, and its row: where the first edge of a replica of
\* it stands.
Canonical(g, b) == IF b.edge.from \in Lifted(g) THEN g.source[b.edge.from] ELSE b.edge.from
SourceRow(g, x) ==
    LET first == {i \in DOMAIN g.edges : g.edges[i].from \in Lifted(g) /\ g.source[g.edges[i].from] = x}
    IN IF first = {} THEN Len(g.edges) + 1 ELSE Min(first)

\* Arrows in the order of their sources from left to right, else of the rows of
\* replicas; ties by names, here by the edges' order.
ArrivesBefore(base, p, q, x, y, row, other) ==
    IF {x, y} \subseteq DOMAIN base /\ base[x].x # base[y].x THEN base[x].x < base[y].x
    ELSE row < other \/ (row = other /\ p.at < q.at)

\* buildConsumerPortAssignment
ConsumerPorts(g, base) ==
    SideSlots(Buckets(g, LAMBDA b : VisualTarget(g, b.edge), LAMBDA b : ConsumerSide(g, base, b)),
              LAMBDA p, q : ArrivesBefore(base, p, q, Canonical(g, p), Canonical(g, q),
                                          SourceRow(g, Canonical(g, p)), SourceRow(g, Canonical(g, q))))

\* Arrows in the order of their targets along the side; all of a bucket have one.
MiddleOn(side, box) == IF side \in {"top", "bottom"} THEN 2 * box.x + box.w ELSE 2 * box.y + box.h
DepartsBefore(base, p, q, x, y, side) ==
    IF {x, y} \subseteq DOMAIN base /\ MiddleOn(side, base[x]) # MiddleOn(side, base[y])
    THEN MiddleOn(side, base[x]) < MiddleOn(side, base[y]) ELSE p.at < q.at

\* buildProducerPortAssignment
ProducerPorts(g, base) ==
    SideSlots(Buckets(g, LAMBDA b : b.edge.from, LAMBDA b : ProducerSide(g, base, b)),
              LAMBDA p, q : DepartsBefore(base, p, q, VisualTarget(g, p.edge), VisualTarget(g, q.edge),
                                          ProducerSide(g, base, p)))

\* slotCenteredOffset: slots a gap apart about the centre, closer when they would
\* leave the side.
SpreadBy(s, gap) == ((2 * s.slot - (s.count - 1)) * gap) \div 2
CenteredOffset(s, gap, cap) ==
    SpreadBy(s, IF (s.count - 1) * gap > 2 * cap THEN (2 * cap) \div (s.count - 1) ELSE gap)

GapAcross(c) == Max({Px(6), Px((c.leafW + Px(5)) \div Px(10))})
GapDown(c) == Max({Px(4), Px((c.leafH + Px(2)) \div Px(4))})

\* A lone replica before its consumer stands over the slot of its arrow.
FirstArrow(arrows) == CHOOSE b \in arrows : \A o \in arrows : b.at <= o.at
ReplicaShifts(g, R, c, ports) ==
    LET roots == ToSet(ReplicasIn(g, Graph!Root))
        lone == {r \in roots : \A q \in roots \ {r} : R.consumer[q] # R.consumer[r]}
        arrows(r) == {b \in DOMAIN ports : b.edge.from = r /\ b.edge.to = R.consumer[r]}
    IN [r \in {q \in lone : arrows(q) # {}} |-> SpreadBy(ports[FirstArrow(arrows(r))], GapAcross(c))]

-----------------------------------------------------------------------------
(* The arrows                                                              *)

Clamped(n, cap) == Max({-cap, Min({cap, n})})
MidX(b) == b.x + b.w \div 2
MidY(b) == b.y + b.h \div 2
RimAcross(b) == b.w \div 2 - Px(4)
RimDown(b) == b.h \div 2 - Px(4)

\* The offsets of renderBundle: of the head, from the slots of its consumer, ...
HeadOffsets(c, s) ==
    [x |-> CenteredOffset(s, GapAcross(c), c.leafW \div 2 - Px(4)),
     y |-> CenteredOffset(s, GapDown(c), c.leafH \div 2 - Px(4))]

\* ... and of the tail: from the slots of its producer, and along the row for the
\* replicas of one consumer; a wire that has no spread of its own copies its head.
TailOffsets(g, R, c, b, from, head, s) ==
    LET spreadDown == CenteredOffset(s, GapDown(c), RimDown(from))
        r == b.edge.from
        stagger == IF r \in Lifted(g) /\ R.total[r] > 1
                   THEN ((2 * R.row[r] - (R.total[r] - 1)) * c.sourceStep) \div 2 ELSE 0
        wire == b.edge.kind = "state" /\ b.edge.key = Graph!PortFlow
    IN [x |-> stagger + CenteredOffset(s, GapAcross(c), RimAcross(from)),
        y |-> IF spreadDown # 0 \/ ~wire THEN spreadDown ELSE head.y]

\* EdgePath: where an arrow leaves, where it meets its target, and the tip short of it.
EdgePath(f, t, feedback, head, tail) ==
    LET down == Downward(f, t)
        right == Rightward(f, t)
        gapDown == IF down THEN t.y - BottomOf(f) ELSE f.y - BottomOf(t)
        gapRight == IF right THEN t.x - RightOf(f) ELSE f.x - RightOf(t)
        insetDown == Max({0, Min({ArrowInset, gapDown \div 2})})
        insetRight == IF gapRight > 0 THEN Min({ArrowInset, gapRight \div 2}) ELSE ArrowInset
        tx == MidX(t) + Clamped(head.x, RimAcross(t))
        ty == MidY(t) + Clamped(head.y, RimDown(t))
    IN IF Vertical(f, t)
       THEN LET meet == IF down THEN t.y ELSE BottomOf(t)
            IN [start |-> <<MidX(f) + Clamped(tail.x, RimAcross(f)), IF down THEN BottomOf(f) ELSE f.y>>,
                meets |-> <<tx, meet>>,
                tip |-> <<tx, IF down THEN meet - insetDown ELSE meet + insetDown>>]
       ELSE IF feedback
       THEN [start |-> <<MidX(f), f.y>>, meets |-> <<MidX(t), t.y>>, tip |-> <<MidX(t), t.y - ArrowInset>>]
       ELSE LET meet == IF right THEN t.x ELSE RightOf(t)
            IN [start |-> <<IF right THEN RightOf(f) ELSE f.x, MidY(f) + Clamped(tail.y, RimDown(f))>>,
                meets |-> <<meet, ty>>,
                tip |-> <<IF right THEN meet - insetRight ELSE meet + insetRight, ty>>]

\* portArrivalPoint: where the dot of an arrow is drawn.
PortArrival(f, t, feedback, head) ==
    IF feedback THEN <<MidX(t), t.y>>
    ELSE IF Vertical(f, t)
    THEN <<MidX(t) + Clamped(head.x, RimAcross(t)), IF Downward(f, t) THEN t.y ELSE BottomOf(t)>>
    ELSE <<IF Rightward(f, t) THEN t.x ELSE t.x + t.w, MidY(t) + Clamped(head.y, RimDown(t))>>

\* The arrows of the pane, by bundle; one whose ends are not drawn is not either.
ArrowPath(g, R, c, b, f, t, head, slot) ==
    EdgePath(f, t, b.feedback, head, TailOffsets(g, R, c, b, f, head, slot))

Arrows(g, R, c, heads, tails, out) ==
    Graph!Tabled([b \in {q \in DOMAIN heads : EndsIn(g, out, q)} |->
        ArrowPath(g, R, c, b, out[b.edge.from], out[VisualTarget(g, b.edge)],
                  HeadOffsets(c, heads[b]), tails[b])])

-----------------------------------------------------------------------------
(* The dots                                                                *)

\* portArrivalPoints: one for each port of a node, on the first arrow that names it ...
NamedPort(g, e) ==
    IF e.kind = "state" THEN (IF e.key = Graph!PortFlow THEN <<e.tp, 0>> ELSE <<"", 0>>)
    ELSE IF VisualTarget(g, e) \in Graph!Containers(g) THEN <<"", 0>> ELSE e.key
DotOf(g, c, ports, out, b) ==
    PortArrival(out[b.edge.from], out[VisualTarget(g, b.edge)], b.feedback, HeadOffsets(c, ports[b]))

DotsOf(g, c, ports, out, bundles) == {[bundle |-> b, at |-> DotOf(g, c, ports, out, b)] :
                                        b \in {q \in bundles : EndsIn(g, out, q)}}
NamedPorts(g) == Graph!Tabled([i \in DOMAIN g.edges |-> <<VisualTarget(g, g.edges[i]), NamedPort(g, g.edges[i])>>])
BundlesNaming(ports, names, keys) ==
    {CHOOSE b \in DOMAIN ports : Graph!BundleKey(b.edge, b.feedback) = keys[i] :
        i \in {j \in FirstPlaces(names) : names[j][2][1] # ""}}

PortDots(g, c, ports, out) ==
    DotsOf(g, c, ports, out, BundlesNaming(ports, NamedPorts(g), EdgeKeys(g, Graph!Feedback(g))))

\* ... and containerArrivalDots, one for each arrow into a collapsed container.
ContainerDots(g, c, ports, out, collapsed) ==
    DotsOf(g, c, ports, out, {b \in DOMAIN ports : VisualTarget(g, b.edge) \in collapsed})

-----------------------------------------------------------------------------
(* dropGutters: the strips that take what is dropped between two nodes     *)

Strip(kind, id, x, y, w, h) == [kind |-> kind, id |-> id, box |-> Box(x, y, w, h)]

GroupGutters(c, box, kids, out) ==
    LET n == Len(kids)
        b(i) == out[kids[i]]
        strip(kind, i, y, h) == Strip(kind, kids[i], box.x + c.pad, y, box.w - 2 * c.pad, h)
    IN {strip("before", 1, b(1).y - c.pad, c.pad), strip("after", n, BottomOf(b(n)), c.pad)}
       \cup {strip("before", i, BottomOf(b(i - 1)), b(i).y - BottomOf(b(i - 1))) :
               i \in {j \in 2..n : b(j).y > BottomOf(b(j - 1))}}

LineGutters(c, box, kids, out) ==
    LET n == Len(kids)
        b(i) == out[kids[i]]
        top == box.y + HeaderHeight + c.pad
        strip(kind, i, x, w) == Strip(kind, kids[i], x, top, w, BottomOf(box) - c.pad - top)
        edge == Min({c.flow, c.pad})
    IN {strip("before", 1, b(1).x - edge, edge), strip("after", n, RightOf(b(n)), edge)}
       \cup {strip("before", i, RightOf(b(i - 1)), b(i).x - RightOf(b(i - 1))) :
               i \in {j \in 2..n : b(j).x > RightOf(b(j - 1))}}

DropGutters(g, c, out, collapsed) ==
    LET open == (Graph!Containers(g) \cap DOMAIN out) \ collapsed
        kids(x) == SelectSeq(g.kids[x], LAMBDA k : k \notin DOMAIN g.source /\ k \in DOMAIN out)
    IN UNION {IF g.kids[x] = <<>> THEN {[kind |-> "into-start", id |-> x, box |-> out[x]]}
              ELSE IF kids(x) = <<>> THEN {}
              ELSE IF g.kind[x] = "group" THEN GroupGutters(c, out[x], kids(x), out)
              ELSE LineGutters(c, out[x], kids(x), out) : x \in open}

=============================================================================
