---------------------------- MODULE GraphInspector ----------------------------
(***************************************************************************)
(* The graph pane: the graph of core/graph.ts, derived from a spec and the *)
(* trace of its run, the transforms that the user switches on it (collapse *)
(* a container, show its blocks as chips, replicate a source with many     *)
(* consumers), the warnings, and core/edge-value-lookup.ts, the value the  *)
(* inspector shows for an edge or a node at the block of the scrubber's    *)
(* frame.                                                                  *)
(*                                                                         *)
(* The run comes first (Runtime); the pane then follows its trace.         *)
(***************************************************************************)
EXTENDS Runtime, GraphTransforms

CONSTANTS
    MaxCollapsed,   \* bound: containers collapsed at a time
    Thresholds      \* values of the replication threshold (0: replication off)

VARIABLES
    collapsed,   \* the containers the layout has collapsed
    threshold,   \* the replication threshold of the toolbar
    modes,       \* replicationModes: sources pinned to "always" or "never"
    scrub,       \* the frame the scrubber is on
    raw          \* the memo rawGraph, derived anew with a trace

-----------------------------------------------------------------------------
(***************************************************************************)
(* core/graph.ts: the graph that GraphView derives from a spec and the     *)
(* trace of its run. The derivation never sees the run: who wrote an aux   *)
(* key last, which value was carried from one block to the next and how    *)
(* many blocks ran are worked out again from the frames.                   *)
(***************************************************************************)

HistorySeed == <<"history-seed", 0>>

Add(edges, e) == IF Contains(edges, e) THEN edges ELSE Append(edges, e)

-----------------------------------------------------------------------------
(* The tree of a spec                                                      *)

Ids(s) == DOMAIN s.node
Boxes(s) == {x \in Ids(s) : s.node[x].kind # "step"}
PathOf(s, x) == s.path[x]
Inside(s, x) == {y \in Ids(s) : Contains(s.path[y], x)}
LeafOrder(s) == SelectSeq(Preorder(s.body, Top), LAMBDA x : x \notin Boxes(s))

-----------------------------------------------------------------------------
(* Edges that the trace shows: aux keys written by one node, read by another *)

OutputAuxOf(s, X) == {x \in X : s.node[x].kind = "history" /\ s.node[x].outputAux # NoKey}
Iterates(s, X) == {x \in X : s.node[x].kind = "iterate"}
PublishedBy(s, X) ==
  [k \in {s.node[x].outputAux : x \in X} |-> CHOOSE x \in X : s.node[x].outputAux = k]

\* One frame: containers that dropped out of the path have published; then the
\* reads are linked to the last writers, then the writes are noted.
TraceFrame(s, acc, f) ==
  LET around == ToSet(f.path)
      known == PublishedBy(s, OutputAuxOf(s, acc.around \ around)) @@ acc.writer
      reads == SetToSeq(DOMAIN f.read \cap DOMAIN known)
      inLoops(keys) == {<<i, k, f.id>> : i \in Iterates(s, around), k \in keys}
  IN [around |-> around,
      writer |-> [k \in DOMAIN f.written |-> f.id] @@ known,
      edges |-> FoldLeft(LAMBDA es, k : Add(es, Edge(known[k], f.id, "aux", k)), acc.edges, reads),
      writes |-> acc.writes \cup inLoops(DOMAIN f.written),
      reads |-> acc.reads \cup inLoops(DOMAIN f.read)]

\* A key read in a loop body by a node that stands before its writer was carried
\* over from the block before.
CarriedEdges(s, acc) ==
  LET order == Preorder(s.body, Top)
      late == {<<w, r>> \in acc.writes \X acc.reads :
                 /\ w[1] = r[1] /\ w[2] = r[2] /\ w[3] # r[3]
                 /\ {w[3], r[3]} \subseteq Ids(s)
                 /\ Position(order, w[3]) > Position(order, r[3])}
  IN SetToSeq({Edge(wr[1][3], wr[2][3], "aux", wr[1][2]) : wr \in late})

DeriveEdges(s, tr) ==
  LET start == [around |-> {}, writer |-> <<>>, edges |-> <<>>, writes |-> {}, reads |-> {}]
      acc == FoldLeft(LAMBDA a, f : TraceFrame(s, a, f), start, tr)
  IN FoldLeft(Add, acc.edges, CarriedEdges(s, acc))

-----------------------------------------------------------------------------
(* Edges that the spec declares: wires, resolved through containers        *)

BindOf(s, x, f) == IF x \in Ids(s) /\ f \in DOMAIN s.node[x].binds THEN <<s.node[x].binds[f]>> ELSE <<>>
SeedOf(s, x) == IF x \in Ids(s) /\ s.node[x].kind \in {"group", "iterate"}
                THEN BindOf(s, x, "seedInput") ELSE <<>>

\* resolveSeedChain: through a container's output to the leaf that made it, through
\* a group's "in" to what seeds the group; the "in" of a loop is where it ends.
RECURSIVE ResolveSeed(_, _)
ResolveSeed(s, b) ==
  LET next == IF b.port = "out" THEN BindOf(s, b.node, "bodyOutput")
              ELSE IF b.port = "in" /\ b.node \notin Iterates(s, Ids(s)) THEN SeedOf(s, b.node)
              ELSE <<>>
  IN IF next = <<>> THEN b ELSE ResolveSeed(s, next[1])

ResolveWire(s, b) ==
  CASE b.port = "in" -> IF SeedOf(s, b.node) = <<>> THEN b ELSE ResolveSeed(s, SeedOf(s, b.node)[1])
    [] b.port = "chain" -> (BindOf(s, b.node, "chainInput") \o <<b>>)[1]
    [] b.port = "out" -> ResolveSeed(s, b)
    [] OTHER -> b

Wires(s, x) ==
  LET ports == SetToSeq(DOMAIN s.node[x].binds)
  IN [i \in DOMAIN ports |->
        LET from == ResolveWire(s, s.node[x].binds[ports[i]])
        IN [Edge(from.node, x, "state", PortFlow) EXCEPT !.fp = from.port, !.tp = ports[i]]]

\* The seed of a container none of whose leaves is shown to read it.
SeedEdges(s, wires) ==
  LET shows(x, b) == \E i \in DOMAIN wires :
        wires[i].from \in {b.node, ResolveSeed(s, b).node} /\ wires[i].to \in Inside(s, x)
      unread(x) == \A y \in Ids(s) : s.node[y].kind = "step"
                     => \A p \in DOMAIN s.node[y].binds : s.node[y].binds[p] # Port(x, "in")
      bare == {x \in Boxes(s) : SeedOf(s, x) # <<>> /\ unread(x) /\ ~shows(x, SeedOf(s, x)[1])}
  IN SetToSeq({Edge(SeedOf(s, x)[1].node, x, "state", PortFlow) : x \in bare})

InferPortEdges(s) ==
  LET leaves == LeafOrder(s)
      wires == FlattenSeq([i \in DOMAIN leaves |-> Wires(s, leaves[i])])
  IN wires \o SeedEdges(s, wires)

\* A loop with history is seeded by its wire, or by the sibling before it; the
\* seed is drawn to the leaves that fetch the prior entries.
HistoryAnchor(s, x) ==
  LET h == s.body[IF s.path[x] = <<>> THEN Top ELSE Last(s.path[x])]
      i == Position(h, x)
  IN IF BindOf(s, x, "seedInput") # <<>> THEN <<BindOf(s, x, "seedInput")[1].node>>
     ELSE IF i > 1 THEN <<h[i - 1]>> ELSE <<>>

Fetches(s, x, y) ==
  s.node[y].type = "aux-load-bytes" /\ \E k \in s.node[x].offsets : Prior(k) \in Range(s.node[y].reads)

HistorySeedEdges(s) ==
  SetToSeq({Edge(HistoryAnchor(s, xy[1])[1], xy[2], "aux", HistorySeed) :
      xy \in {xy \in Ids(s) \X Ids(s) :
                /\ s.node[xy[1]].kind = "history" /\ HistoryAnchor(s, xy[1]) # <<>>
                /\ xy[2] \in Inside(s, xy[1]) \ Boxes(s) /\ Fetches(s, xy[1], xy[2])}})

-----------------------------------------------------------------------------
(* The derived graph                                                       *)

\* annotateBlockSpans: how many blocks a loop was seen to run, at the innermost.
BlocksSeen(s, tr, x) ==
  {tr[i].block : i \in {j \in DOMAIN tr : Contains(tr[j].path, x) /\ tr[j].block # NoBlock}}
BlockSpan(s, tr, x) ==
  IF x \notin Iterates(s, Ids(s)) \/ BlocksSeen(s, tr, x) = {} THEN 0
  ELSE 1 + CHOOSE m \in BlocksSeen(s, tr, x) : \A b \in BlocksSeen(s, tr, x) : b <= m

\* GraphView's endpointAnchors: the last root that carries the state, a group by
\* its last leaf.
RECURSIVE Anchor(_, _)
Anchor(s, h) ==
  LET carries(x) == s.node[x].kind = "iterate"
                    \/ (s.node[x].kind = "step" /\ s.node[x].stateless = FALSE)
      below == SelectSeq(s.body[h], LAMBDA x : carries(x) \/ (x \in DOMAIN s.body /\ Anchor(s, x) # <<>>))
  IN IF below = <<>> THEN <<>>
     ELSE IF Last(below) \in DOMAIN s.body /\ s.node[Last(below)].kind # "iterate"
          THEN Anchor(s, Last(below)) ELSE <<Last(below)>>

\* specReferencesInputSource
ReadsInput(s) ==
  \E x \in Ids(s) : \E f \in DOMAIN s.node[x].binds :
    /\ s.node[x].binds[f].node = InputNode
    /\ s.node[x].kind = "step" \/ f \in {"seedInput", "chainInput", "chainFeedback"}

DeriveAuxGraph(s, tr) ==
  LET front == IF ReadsInput(s) THEN InputNode ELSE InputPill
      anchors == Anchor(s, Top) \o <<Last(s.body[Top])>>
      pills == <<Edge(anchors[1], OutputPill, "state", StateKey)>>
               \o (IF ReadsInput(s) THEN <<>> ELSE <<Edge(InputPill, s.body[Top][1], "state", StateKey)>>)
  IN [path |-> [x \in Ids(s) |-> s.path[x]] @@ [x \in {front, OutputPill} |-> <<>>],
      kind |-> [x \in Boxes(s) |-> s.node[x].kind],
      kids |-> [s.body EXCEPT ![Top] = <<front>> \o @ \o <<OutputPill>>],
      span |-> [x \in Boxes(s) |-> BlockSpan(s, tr, x)],
      edges |-> DeriveEdges(s, tr) \o InferPortEdges(s) \o HistorySeedEdges(s) \o pills,
      source |-> <<>>, spine |-> {}]

-----------------------------------------------------------------------------
(***************************************************************************)
(* The pane and its inspector.                                             *)
(***************************************************************************)

view == <<collapsed, threshold, modes, scrub>>

-----------------------------------------------------------------------------
(* edge-value-lookup.ts: the value at an edge or a node; <<>> is "missing" *)

First(s) == IF s = <<>> THEN <<>> ELSE <<Head(s)>>

\* findConsumerFrame: the node's frame at the scrubber's block, else its first one.
FrameOf(tr, id, b) ==
  First(SelectSeq(tr, LAMBDA f : f.id = id /\ b # NoBlock /\ f.block = b)
        \o SelectSeq(tr, LAMBDA f : f.id = id))

\* frame-state.ts: the "state" port, or the only one.
Primary(ports) ==
  IF "state" \in DOMAIN ports THEN <<ports["state"]>>
  ELSE IF Cardinality(DOMAIN ports) = 1 THEN <<ports[CHOOSE p \in DOMAIN ports : TRUE]>>
  ELSE <<>>

PortOf(ports, p) == IF p \in DOMAIN ports THEN <<ports[p]>> ELSE <<>>

\* unwrapReplicaSource; the target of an edge is looked up as it is.
Original(g, x) == IF x \in DOMAIN g.source THEN g.source[x] ELSE x

\* Mutant of InspectorTellsTheTruth: the source is looked up in the first block.
StateValueFirst(g, e, tr, b) ==
  LET producer == FrameOf(tr, Original(g, e.from), NoBlock)
  IN IF producer = <<>> THEN <<>> ELSE First(Primary(producer[1].outs) \o PortOf(producer[1].outs, e.fp))

StateValue(g, e, tr, b) ==
  LET producer == FrameOf(tr, Original(g, e.from), b)
      consumer == FrameOf(tr, e.to, b)
      of(found, Ports(_)) == IF found = <<>> THEN <<>> ELSE Ports(found[1])
  IN First(of(producer, LAMBDA f : Primary(f.outs)) \o of(consumer, LAMBDA f : Primary(f.ins))
           \o of(consumer, LAMBDA f : PortOf(f.ins, e.tp))
           \o of(producer, LAMBDA f : PortOf(f.outs, e.fp)))

AuxValue(g, e, tr, b) ==
  LET producer == FrameOf(tr, Original(g, e.from), b)
      consumer == FrameOf(tr, e.to, b)
  IN First((IF consumer = <<>> THEN <<>> ELSE PortOf(consumer[1].read, e.key))
           \o (IF producer = <<>> THEN <<>> ELSE PortOf(producer[1].written, e.key)))

EdgeValue(g, e, tr, b) ==
  CASE e.from \in Endpoints -> <<input>>
    [] e.from \notin Endpoints /\ e.to \in Endpoints -> <<result>>
    [] e.kind = "aux" /\ {e.from, e.to} \cap Endpoints = {} -> AuxValue(g, e, tr, b)
    [] e.kind = "state" /\ {e.from, e.to} \cap Endpoints = {} -> StateValue(g, e, tr, b)

\* The last frame a loop recorded for block i: what its chip shows.
BlockFrames(tr, x, i) == SelectSeq(tr, LAMBDA f : f.block = i /\ Contains(f.path, x))

ChipValue(tr, x, i) ==
  LET body == BlockFrames(tr, x, i) IN IF body = <<>> THEN <<>> ELSE Primary(Last(body).outs)

RECURSIVE TerminalLeaf(_, _)
TerminalLeaf(s, x) == IF x \in Boxes(s) THEN TerminalLeaf(s, Last(s.body[x])) ELSE x

\* A collapsed container is looked up by the last leaf in it.
NodeValue(s, x, tr, b) ==
  LET own == FrameOf(tr, x, b)
      frame == IF own = <<>> /\ x \in Boxes(s) THEN FrameOf(tr, TerminalLeaf(s, x), b) ELSE own
  IN CASE x \in {InputNode, InputPill} -> <<input>>
       [] x = OutputPill -> <<result>>
       [] x \notin Endpoints ->
            IF frame = <<>> THEN <<>> ELSE First(Primary(frame[1].outs) \o Primary(frame[1].ins))

-----------------------------------------------------------------------------
(* Arrows of the pane: core/source-colors.ts counts those of each source,  *)
(* with the arrows of its replicas, to colour it; bundleEdges draws those  *)
(* that run together as one; and the inspector knows the arrow that was    *)
(* clicked by a key                                                        *)

CanonicalSource(g, e) == Original(g, e.from)

FanoutMap(g) ==
  LET arrows == SelectSeq(g.edges, LAMBDA e : e.from \notin Endpoints)
      from(x) == SelectSeq(arrows, LAMBDA e : CanonicalSource(g, e) = x)
  IN [x \in {CanonicalSource(g, e) : e \in ToSet(arrows)} |-> Len(from(x))]

Bundles(g) ==
  LET back == Feedback(g)
      key == Tabled([i \in DOMAIN g.edges |-> BundleKey(g.edges[i], g.edges[i] \in back)])
      with(i) == SelectSeq([j \in DOMAIN g.edges |-> j], LAMBDA j : key[j] = key[i])
      first == SelectSeq([i \in DOMAIN g.edges |-> i], LAMBDA i : with(i)[1] = i)
  IN Tabled([n \in DOMAIN first |->
       [edge |-> g.edges[first[n]], feedback |-> g.edges[first[n]] \in back,
        keys |-> [m \in DOMAIN with(first[n]) |-> g.edges[with(first[n])[m]].key]]])

EncodeEdgeKey(e) == <<e.from, e.to, e.key, e.kind, e.tp>>
EncodeBundleKey(b) == <<b.edge.from, b.edge.to, b.edge.kind, b.feedback>>

\* What a click on a drawn bundle selects, and what the panel finds by it.
TargetOf(b) ==
  IF Len(b.keys) > 1 THEN <<"bundle", EncodeBundleKey(b)>> ELSE <<"edge", EncodeEdgeKey(b.edge)>>
ActiveEdge(g, key) == First(SelectSeq(g.edges, LAMBDA e : EncodeEdgeKey(e) = key))
ActiveBundle(bundles, key) == First(SelectSeq(bundles, LAMBDA b : EncodeBundleKey(b) = key))

-----------------------------------------------------------------------------
(* The pane                                                                *)

Expanded == ExpandChips(Collapse(raw, collapsed), collapsed)
Pane == Replicate(Expanded, threshold, modes)
ScrubbedBlock == IF scrub = 0 THEN NoBlock ELSE frames[scrub].block

PaneInit == Init /\ collapsed = {} /\ threshold = 0 /\ modes = <<>> /\ scrub = 0 /\ raw = <<>>

\* The loop advances on its own; the pane is used once the trace is there.
RunStep ==
  /\ Step
  /\ raw' = IF status' = "done" THEN DeriveAuxGraph(spec, frames) ELSE raw
  /\ UNCHANGED view

ToggleCollapsed(x) ==
  /\ status = "done"
  /\ collapsed' = SymDiff(collapsed, {x}) /\ Cardinality(collapsed') <= MaxCollapsed
  /\ UNCHANGED <<vars, raw, threshold, modes, scrub>>

SetThreshold(t) ==
  /\ status = "done" /\ t # threshold
  /\ threshold' = t
  /\ UNCHANGED <<vars, raw, collapsed, modes, scrub>>

\* The panel lists the sources of the graph before replication; one pin at a time.
SetMode(x, m) ==
  /\ status = "done" /\ modes = <<>>
  /\ modes' = x :> m
  /\ UNCHANGED <<vars, raw, collapsed, threshold, scrub>>

ClearMode ==
  /\ modes # <<>>
  /\ modes' = <<>>
  /\ UNCHANGED <<vars, raw, collapsed, threshold, scrub>>

\* Of the frames, those that open a block: the inspector reads no more of them.
Scrub(i) ==
  /\ status = "done" /\ i # scrub
  /\ \A j \in 1..(i - 1) : frames[j].block # frames[i].block
  /\ scrub' = i
  /\ UNCHANGED <<vars, raw, collapsed, threshold, modes>>

Sources == IF status = "done" THEN {e.from : e \in {f \in ToSet(Expanded.edges) : Carries(f)}} ELSE {}

Stopped == status # "running" /\ UNCHANGED <<vars, raw, view>>

Next ==
  \/ RunStep
  \/ \E x \in Boxes(spec) : ToggleCollapsed(x)
  \/ \E t \in Thresholds : SetThreshold(t)
  \/ \E m \in {"always", "never"} : \E x \in Sources : SetMode(x, m)
  \/ ClearMode
  \/ \E i \in DOMAIN frames : Scrub(i)
  \/ Stopped

Spec == PaneInit /\ [][Next]_<<vars, raw, view>>

-----------------------------------------------------------------------------
(* Properties                                                              *)

Done == status = "done"
IsLeaf(x) == x \in Ids(spec) \ Boxes(spec)
LoopsAround(x) == {y \in ToSet(spec.path[x]) : spec.node[y].kind # "group"}

\* Those whose writer left a frame: a loop of no rounds does not.
RecordedFlows == {w \in flows : \E i \in DOMAIN frames :
                    frames[i].id = w[1] \/ Contains(frames[i].path, w[1])}

\* deriveEdges works the aux flows out from the frames alone.  It draws each one the
\* run made, and beyond those only what one block of a loop leaves for the next.
AuxEdgesAreFlows ==
  LET drawn == {e \in ToSet(raw.edges) : e.kind = "aux" /\ e.key # HistorySeed}
  IN /\ \A w \in RecordedFlows : Edge(w[1], w[2], "aux", w[3]) \in drawn
     /\ \A e \in drawn : <<e.from, e.to, e.key>> \in flows \/ e \in Feedback(raw)

\* Whatever is collapsed, shown as chips or replicated, the pane draws every node and
\* container in one place, and no edge leads to one that is not drawn.
DrawnOnce(pane) ==
  LET order == Preorder(pane.kids, Top)
  IN /\ IsInjective(order) /\ ToSet(order) = Visible(pane)
     /\ \A e \in ToSet(pane.edges) : {e.from, e.to} \subseteq Visible(pane)
     /\ \A x \in Visible(pane) :
          Contains(pane.kids[IF pane.path[x] = <<>> THEN Top ELSE Last(pane.path[x])], x)

\* No transform loses a flow: the value a leaf reads, by a wire or through aux, is
\* drawn between what stands for its ends, unless one box hides both.
DrawsFlow(drawn, x, y) == x = y \/ <<x, y>> \in drawn
DrawsFlows(pane, flowing) ==
  LET drawn == {<<Original(pane, e.from), Original(pane, e.to)>> : e \in ToSet(pane.edges)}
  IN \A xy \in flowing : DrawsFlow(drawn, Shown(raw, collapsed, xy[1]), Shown(raw, collapsed, xy[2]))
ReadBy == {<<e.from, e.to>> : e \in ToSet(InferPortEdges(spec))} \cup {<<w[1], w[2]>> : w \in RecordedFlows}

\* Without the feedback edges the pane is acyclic, as its layered layout needs; of
\* the raw graph this says that a run that ends is never warned of a cycle.
Layered(pane) == ~HasCycle(raw) /\ ~HasCycle(pane)

\* The chip of block i shows what the collapsed loop itself shows while the scrubber
\* is in block i: the two are looked up by different rules.
ChipsAgree ==
  \A x \in Iterates(spec, collapsed) : \A i \in 0..(raw.span[x] - 1) :
    ChipValue(frames, x, i) = NodeValue(spec, x, frames, i)

\* An edge whose ends are leaves in the same loops shows, at the scrubber's block, the
\* bytes its target read from its source there, before any coercion.
Resolves(y, p, x, port) == ResolveWire(spec, spec.node[y].binds[p]) = Port(x, port)
CarriedBy(e, x, y) ==
  {p \in DOMAIN spec.node[y].binds :
     Resolves(y, p, x, e.fp) /\ e.tp \in {"", p} /\ p \notin DOMAIN spec.node[y].lens}
ShowsPorts(shown, reader, ports) == reader # <<>> => \A p \in ports : shown = <<reader[1].ins[p]>>
ShowsWhatWasRead(pane, e, x, y, b) ==
  IsLeaf(x) /\ IsLeaf(y) /\ LoopsAround(x) = LoopsAround(y)
    => ShowsPorts(EdgeValue(pane, e, frames, b), FrameOf(frames, y, b), CarriedBy(e, x, y))
EdgesShowWhatWasRead(pane) ==
  \A e \in {f \in ToSet(pane.edges) : f.key = PortFlow} :
    ShowsWhatWasRead(pane, e, Original(pane, e.from), Original(pane, e.to), ScrubbedBlock)

\* Replicas do not change which sources are coloured: every source has as many arrows
\* on the pane as before it was replicated, and no replica is a source of its own.
\* Only the input, which has no colour, counts as a source once it is replicated.
KeepsColors(counted, before) == Restrict(counted, DOMAIN counted \ Endpoints) = before

\* A click on an arrow shows that arrow: of all that are drawn, the key it leaves finds
\* the same one again, with all the flows in it.
Told(pane, bundles, b, target) ==
  IF target[1] = "edge" THEN ActiveEdge(pane, target[2]) = <<b.edge>>
  ELSE ActiveBundle(bundles, target[2]) = <<b>>
ArrowsAreTold(pane, bundles) ==
  \A n \in DOMAIN bundles : Told(pane, bundles, bundles[n], TargetOf(bundles[n]))

\* A run of a spec leaves what the spec means, with frames that can be told
\* apart, and stops exactly where the editor's analysis says it must.
RunIsMeant == TypeOK /\ ResultIsMeant /\ FrameIdsUnique /\ LookbackIsInnermost /\ ThrowsAsPredicted

\* However it is collapsed and replicated, the pane shows the spec: every node
\* once, every flow, none that is not there, and in layers.
Shows(pane) == DrawnOnce(pane) /\ DrawsFlows(pane, ReadBy) /\ Layered(pane)
PaneShowsTheSpec == Done => AuxEdgesAreFlows /\ Shows(Pane)

\* What hovers, chips, clicks and colours say of the pane is so, in whichever
\* block of the trace the scrubber is.
Tells(pane, before) ==
  EdgesShowWhatWasRead(pane) /\ KeepsColors(FanoutMap(pane), FanoutMap(before)) /\ ArrowsAreTold(pane, Bundles(pane))
InspectorTellsTheTruth == Done => ChipsAgree /\ Tells(Pane, Expanded)

=============================================================================
