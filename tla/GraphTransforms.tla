-------------------------- MODULE GraphTransforms --------------------------
(***************************************************************************)
(* The graph values of core/graph.ts and the transforms the graph pane     *)
(* puts them through: collapse a container, show its blocks as chips,      *)
(* replicate a source with many consumers; and which of their edges run    *)
(* back.                                                                   *)
(*                                                                         *)
(* A graph is a record: the path of every node and container, the kind and *)
(* the span (the blocks seen) of the containers, the children of every     *)
(* scope, the edges in order, and of the replicas the source and whether   *)
(* they stand on the spine.                                                *)
(***************************************************************************)
EXTENDS Integers, FiniteSets, SequencesExt, Functions

CONSTANT ChipCap      \* BLOCK_CHIP_CAP: the chips a collapsed loop shows

\* The same function; TLC takes its values once and not at every use.
Tabled(f) == f @@ <<>>

Root == <<>>          \* the scope of the nodes at the top

PortFlow == <<"port-flow", 0>>
StateKey == <<"state", 0>>
OutputPill == << <<"__cipher_output__", 0>> >>
InputPill == << <<"__cipher_input__", 0>> >>
InputNode == << <<"$input", 0>> >>   \* INPUT_SOURCE_NODE_ID
Endpoints == {OutputPill, InputPill, InputNode}

Edge(x, y, kind, key) == [from |-> x, to |-> y, kind |-> kind, key |-> key, fp |-> "", tp |-> ""]

RECURSIVE Preorder(_, _)
Preorder(kids, h) ==
  FlattenSeq([i \in DOMAIN kids[h] |->
    <<kids[h][i]>> \o (IF kids[h][i] \in DOMAIN kids THEN Preorder(kids, kids[h][i]) ELSE <<>>)])

Position(seq, x) == CHOOSE i \in DOMAIN seq : seq[i] = x

Visible(g) == DOMAIN g.path
Containers(g) == DOMAIN g.kind

-----------------------------------------------------------------------------
(* collapseGraph                                                           *)

\* What stands for x: its outermost collapsed ancestor, or itself.
Shown(g, C, x) ==
  IF x \notin DOMAIN g.path \/ ToSet(g.path[x]) \cap C = {} THEN x
  ELSE g.path[x][CHOOSE i \in DOMAIN g.path[x] :
                   g.path[x][i] \in C /\ \A j \in 1..(i - 1) : g.path[x][j] \notin C]

\* An end that moved to a container has lost its port.
Moved(g, C, e) ==
  [e EXCEPT !.from = Shown(g, C, @), !.to = Shown(g, C, @),
            !.fp = IF Shown(g, C, e.from) = e.from THEN @ ELSE "",
            !.tp = IF Shown(g, C, e.to) = e.to THEN @ ELSE ""]

\* Mutant of PaneShowsTheSpec: one edge is kept for each source and key.
SameSource(e, f) == e.kind = f.kind /\ e.from = f.from /\ e.key = f.key

SameButSource(e, f) == e.kind = f.kind /\ e.from = f.from /\ e.to = f.to /\ e.key = f.key /\ e.tp = f.tp
AddMoved(edges, e) ==
  IF e.from = e.to \/ \E i \in DOMAIN edges : SameButSource(edges[i], e) THEN edges
  ELSE Append(edges, e)

Collapse(g, C) ==
  LET stay == {x \in Visible(g) : Shown(g, C, x) = x}
  IN [g EXCEPT
        !.path = Restrict(@, stay),
        !.kind = Restrict(@, stay \cap DOMAIN @),
        !.kids = Tabled([h \in {Root} \cup (stay \cap Containers(g)) |-> IF h \in C THEN <<>> ELSE @[h]]),
        !.edges = FoldLeft(LAMBDA es, e : AddMoved(es, Moved(g, C, e)), <<>>, @)]

-----------------------------------------------------------------------------
(* expandCollapsedIterates                                                 *)

Chip(x, i) == x \o << <<"@block", i>> >>
MoreChip(x) == x \o << <<"@blockMore", 0>> >>
Chips(g, x) ==
  IF g.span[x] <= ChipCap THEN [i \in 1..g.span[x] |-> Chip(x, i - 1)]
  ELSE [i \in 1..(ChipCap - 1) |-> Chip(x, i - 1)] \o <<MoreChip(x)>>

ExpandChips(g, C) ==
  LET loops == {x \in Containers(g) \cap C : g.kind[x] = "iterate" /\ g.span[x] > 0}
      chips(x) == [y \in ToSet(Chips(g, x)) |-> Append(g.path[x], x)]
  IN [g EXCEPT !.kids = [x \in loops |-> Chips(g, x)] @@ @,
               !.path = FoldSet(LAMBDA x, acc : chips(x) @@ acc, @, loops)]

-----------------------------------------------------------------------------
(* replicateHighFanoutSources                                              *)

Carries(e) == e.kind = "aux" \/ e.key = PortFlow
ConsumersOf(g, x) == {e.to : e \in {f \in ToSet(g.edges) : Carries(f) /\ f.from = x}}
EmptyBoxes(g) == {x \in Containers(g) : g.kids[x] = <<>>}
GivesState(g, x) == \E e \in ToSet(g.edges) : e.kind = "state" /\ e.from = x

\* A collapsed loop that only publishes aux keys keeps its place and is referred to.
ReferenceBoxes(g) == {x \in EmptyBoxes(g) : g.kind[x] # "group" /\ ~GivesState(g, x)}
FixedBoxes(g) ==
  Containers(g) \ (ReferenceBoxes(g) \cup {x \in EmptyBoxes(g) : g.kind[x] = "group"})

Mode(m, x) == IF x \in DOMAIN m THEN m[x] ELSE "auto"
Wanted(g, t, m, x) ==
  /\ x \notin FixedBoxes(g) /\ ConsumersOf(g, x) # {} /\ Mode(m, x) # "never"
  /\ Mode(m, x) = "always" \/ (t > 0 /\ Cardinality(ConsumersOf(g, x)) > t)

Fully(g, t, m) == {x \in {e.from : e \in ToSet(g.edges)} : Wanted(g, t, m, x)} \ ReferenceBoxes(g)
Referred(g, t, m) ==
  {x \in ReferenceBoxes(g) : Wanted(g, t, m, x) /\ Cardinality(ConsumersOf(g, x)) > 1}

Replica(x, y) == x \o << <<"@->", 0>> >> \o y

\* The replica that stays in the chain: for the first state edge, else the first aux one.
Successor(g, x) ==
  LET out(kind) == SelectSeq(g.edges, LAMBDA e : e.from = x /\ e.kind = kind)
  IN Head(out("state") \o out("aux")).to

Redirected(g, full, y) == IF y \in full THEN Replica(y, Successor(g, y)) ELSE y

Rewired(g, full, all, e) ==
  LET to == Redirected(g, full, e.to)
  IN IF e.from \notin all THEN [e EXCEPT !.to = to]
     ELSE [e EXCEPT !.from = Replica(@, e.to), !.to = to, !.tp = IF to = e.to THEN @ ELSE ""]

PathIn(g, x) == IF x \in DOMAIN g.path THEN g.path[x] ELSE <<>>
OnSpine(g, full, x, y) == x \in full /\ Successor(g, x) = y /\ PathIn(g, x) = PathIn(g, y)

\* Replicas stand before their consumer, the one on the spine where the source was;
\* the sources themselves go.
Spliced(g, full, pairs, h) ==
  LET here(id) == {xy \in pairs :
                     /\ id = (IF OnSpine(g, full, xy[1], xy[2]) THEN xy[1] ELSE xy[2])
                     /\ h = (IF PathIn(g, id) = <<>> THEN Root ELSE Last(PathIn(g, id)))}
      before(id) == SetToSeq({Replica(xy[1], xy[2]) : xy \in here(id)})
  IN FlattenSeq([i \in DOMAIN g.kids[h] |->
       before(g.kids[h][i]) \o (IF g.kids[h][i] \in full THEN <<>> ELSE <<g.kids[h][i]>>)])

Replicate(g, t, m) ==
  LET full == Fully(g, t, m)
      all == full \cup Referred(g, t, m)
      pairs == {<<e.from, e.to>> : e \in {f \in ToSet(g.edges) : f.from \in all}}
      stay == Visible(g) \ full
  IN IF all = {} THEN g
     ELSE [g EXCEPT
        !.path = Restrict(@, stay) @@ [r \in {Replica(xy[1], xy[2]) : xy \in pairs} |->
                   PathIn(g, (CHOOSE xy \in pairs : Replica(xy[1], xy[2]) = r)[2])],
        !.kind = Restrict(@, DOMAIN @ \cap stay),
        !.kids = Tabled([h \in DOMAIN @ \ full |-> Spliced(g, full, pairs, h)]),
        !.edges = Tabled([i \in DOMAIN @ |-> Rewired(g, full, all, @[i])]),
        !.source = Tabled([r \in {Replica(xy[1], xy[2]) : xy \in pairs} |->
                             (CHOOSE xy \in pairs : Replica(xy[1], xy[2]) = r)[1]]),
        !.spine = {Replica(xy[1], xy[2]) : xy \in {z \in pairs : OnSpine(g, full, z[1], z[2])}}]

-----------------------------------------------------------------------------
(* Feedback and warnings                                                   *)

CommonLoop(g, x, y) ==
  \E i \in 1..Len(g.path[x]) :
    /\ i <= Len(g.path[y]) /\ SubSeq(g.path[x], 1, i) = SubSeq(g.path[y], 1, i)
    /\ g.path[x][i] \in Containers(g) /\ g.kind[g.path[x][i]] = "iterate"

\* buildIterateFeedbackPredicate: an aux edge that runs backwards inside a loop.
Feedback(g) ==
  LET order == Preorder(g.kids, Root)
  IN {e \in ToSet(g.edges) :
        /\ e.kind = "aux" /\ {e.from, e.to} \cap Endpoints = {}
        /\ {e.from, e.to} \subseteq Visible(g) /\ CommonLoop(g, e.from, e.to)
        /\ Position(order, e.from) > Position(order, e.to)}

\* validateGraph

Forward(g) == {<<e.from, e.to>> : e \in ToSet(g.edges) \ Feedback(g)}
RECURSIVE Peel(_, _)
Peel(next, X) ==
  LET entered == {xy[2] : xy \in {z \in next : z[1] \in X}} \cap X
  IN IF entered = X THEN X ELSE Peel(next, entered)
HasCycle(g) == Peel(Forward(g), {xy[1] : xy \in Forward(g)}) # {}   \* findFirstCycle

\* bundleKeyFor: a wire keeps its port, so two wires between the same nodes stay two arrows.
BundleKey(e, fb) == <<e.from, e.to, e.kind, fb, IF e.key = PortFlow THEN e.tp ELSE "">>

=============================================================================
