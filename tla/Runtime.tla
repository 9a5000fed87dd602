------------------------------ MODULE Runtime ------------------------------
(***************************************************************************)
(* core/runtime.ts: `runSpec` walks a spec and records a trace.            *)
(*                                                                         *)
(* The recursive `walk` is a stack of activations, one per scope being     *)
(* walked; the innermost is its head.  An activation holds the outputs     *)
(* recorded so far in its scope (`nodeOutputs`), which nothing outside it  *)
(* can read, the block and round numbers that suffix the ids of its        *)
(* frames, and for a loop the locals of its `for`.  The threaded `state`   *)
(* and `aux` are shared by all scopes, as in the code.                     *)
(*                                                                         *)
(* A spec is kept flat, as in SpecEditing; an executor is the constant     *)
(* Exec, from the ports a leaf reads to the ports it writes.  Bytes are    *)
(* sequences.  Two forms that no shipped spec uses are left out: the aux   *)
(* mode of iterate and the item arrays of for-each-subgraph.               *)
(***************************************************************************)
EXTENDS Integers, FiniteSets, SequencesExt, Functions

CONSTANTS
  Programs,     \* the specs: [name, body, node, path, exit, constants, inputs]
  Exec(_, _),   \* Exec(n, ins): what the executor of leaf n emits
  Meant(_, _)   \* Meant(s, m): what spec s is meant to compute from m

VARIABLES
  spec,
  input,
  stack,        \* activations, the innermost first
  state,        \* the threaded state
  aux,          \* the shared side values, by key
  frames,       \* the trace
  status,       \* "running", "done" or "threw"
  result,
  culprit,      \* where it threw: <<node, binding or check>>
  writer,       \* history variable: which node last wrote an aux key
  flows         \* history variable: <<writer, reader, key>> that took place

ghosts == <<writer, flows>>
vars == <<spec, input, stack, state, aux, frames, status, result, culprit, ghosts>>

Top == <<>>                                  \* the top scope, no node's id
Port(x, p) == [node |-> x, port |-> p]
InputSource == Port(<< <<"$input", 0>> >>, "out")

NoBlock == -1
NoKey == <<"none", 0>>
Prior(k) == <<"prior", k>>                   \* the aux keys prior-1, prior-2, ...
BlockIndexKey == <<"blockIndex", 0>>
Zero(n) == [i \in 1..n |-> 0]

Act == Head(stack)
Body == spec.body[Act.scope]
AtNode == Act.k <= Len(Body)
Here == Body[Act.k]
N == spec.node[Here]
Loop == spec.node[Act.scope]                 \* the node whose body is walked
AtExit == Act.scope # Top /\ ~AtNode
Outer == Tail(stack)

Bound(n, f) == f \in DOMAIN n.binds
Known(n, f) == n.binds[f] \in DOMAIN Act.outs
Got(n, f) == Act.outs[n.binds[f]]            \* resolveBinding, when it does not throw
Dangles(n, f) == Bound(n, f) /\ ~Known(n, f)

-----------------------------------------------------------------------------
(* Outcomes of a step                                                      *)

Throw(x, why) ==
  /\ status' = "threw" /\ culprit' = <<x, why>>
  /\ UNCHANGED <<spec, input, stack, state, aux, frames, result, ghosts>>

\* The walk of a scope goes on after node x, which publishes `bytes` on its ports.
Emit(n, bytes) == [p \in ToSet(n.outs) |-> bytes]

Record(act, x, emitted) ==
  [act EXCEPT !.k = @ + 1,
              !.outs = [q \in {Port(x, p) : p \in DOMAIN emitted} |-> emitted[q.port]] @@ @]

Continue(below, x, emitted) ==
  stack' = <<Record(Head(below), x, emitted)>> \o Tail(below)

Fresh(h, seed, block, rounds, loop) ==
  [scope |-> h, k |-> 1, outs |-> seed, block |-> block, rounds |-> rounds, loop |-> loop]
NoLoop == [i |-> 0, source |-> <<>>, got |-> <<>>, chain |-> <<>>, saved |-> <<>>]

Steady == UNCHANGED <<spec, input, status, result, culprit>>

Init ==
  /\ spec \in Programs
  /\ input \in spec.inputs
  /\ stack = <<Fresh(Top, InputSource :> input, NoBlock, <<>>, NoLoop)>>
  /\ state = input
  /\ aux = spec.constants
  /\ frames = <<>>
  /\ status = "running" /\ result = <<>> /\ culprit = <<Top, "none">>
  /\ writer = <<>> /\ flows = {}

-----------------------------------------------------------------------------
(* Leaves                                                                  *)

\* A leaf: [type, binds, needs, must, reads, writes, lens, stateIn, stateOut, outs].
\* `needs` are the ports the runtime insists on, `must` those the executor does.
\* Wires first, then the threaded state, then aux: each fills only what is open.
Wired(n) == [p \in DOMAIN n.binds |-> Got(n, p)]
WithState(n, ins) == IF n.stateIn = "none" THEN ins ELSE ins @@ (n.stateIn :> state)
OpenReads(n, ins) == DOMAIN n.reads \ DOMAIN ins
ReadPorts(n, ins) == {p \in OpenReads(n, ins) : n.reads[p] \in DOMAIN aux}
WithAux(n, ins) == ins @@ [p \in ReadPorts(n, ins) |-> aux[n.reads[p]]]

Gather(n) == WithAux(n, WithState(n, Wired(n)))

\* coerceToByteLength: pad with zeros on the right, or cut on the right.
Fit(b, len) == [i \in 1..len |-> IF i <= Len(b) THEN b[i] ELSE 0]
Misfits(n, ins) == {p \in DOMAIN n.lens \cap DOMAIN ins : Len(ins[p]) # n.lens[p]}
Coerced(n, ins) ==
  [p \in DOMAIN ins |-> IF p \in Misfits(n, ins) THEN Fit(ins[p], n.lens[p]) ELSE ins[p]]

Frame(id, ins, outs, read, missing, written) ==
  [id |-> id, block |-> Act.block, rounds |-> Act.rounds,
   path |-> IF Act.scope = Top THEN <<>> ELSE Append(spec.path[Act.scope], Act.scope),
   ins |-> ins, outs |-> outs, read |-> read, missing |-> missing, written |-> written]
CoerceFrame(x, p, before, after) ==
  Frame(x \o << <<"coerce", 0>>, <<p, 0>> >>, p :> before, p :> after, <<>>, {}, <<>>)

StepLeaf ==
  /\ AtNode /\ N.kind = "step"
  /\ \A p \in DOMAIN N.binds : Known(N, p)
  /\ LET raw == Gather(N)
         ins == Coerced(N, raw)
         outs == Exec(N, ins)
         direct == WithState(N, Wired(N))
         read == [k \in {N.reads[p] : p \in ReadPorts(N, direct)} |-> aux[k]]
         missing == {N.reads[p] : p \in OpenReads(N, direct)} \ DOMAIN aux
         published == DOMAIN N.writes \cap DOMAIN outs
         written == [k \in {N.writes[p] : p \in published} |->
                       outs[CHOOSE p \in published : N.writes[p] = k]]
         coercions == SetToSeq(Misfits(N, raw))
     IN /\ N.needs \cup N.must \subseteq DOMAIN raw
        /\ state' = IF N.stateOut = "none" THEN state ELSE outs[N.stateOut]
        /\ aux' = written @@ aux
        /\ frames' = frames
             \o [i \in DOMAIN coercions |->
                   CoerceFrame(Here, coercions[i], raw[coercions[i]], ins[coercions[i]])]
             \o <<Frame(Here, ins, outs, read, missing, written)>>
        /\ Continue(stack, Here, outs)
        /\ writer' = [k \in DOMAIN written |-> Here] @@ writer
        /\ flows' = flows \cup {<<writer[k], Here, k>> : k \in DOMAIN read \cap DOMAIN writer}
  /\ Steady

LeafThrows ==
  /\ AtNode /\ N.kind = "step"
  /\ \/ \E p \in DOMAIN N.binds : ~Known(N, p) /\ Throw(Here, p)
     \/ /\ \A p \in DOMAIN N.binds : Known(N, p)
        /\ \E p \in (N.needs \cup N.must) \ DOMAIN Gather(N) : Throw(Here, p)

-----------------------------------------------------------------------------
(* Groups                                                                  *)

Seed(n) == IF Bound(n, "seedInput") THEN Port(Here, "in") :> Got(n, "seedInput") ELSE <<>>

EnterGroup ==
  /\ AtNode /\ N.kind = "group" /\ ~Dangles(N, "seedInput")
  /\ stack' = <<Fresh(Here, Seed(N), Act.block, Act.rounds, NoLoop)>> \o stack
  /\ Steady /\ UNCHANGED <<state, aux, frames, ghosts>>

GroupValue == IF Bound(Loop, "bodyOutput") THEN Got(Loop, "bodyOutput") ELSE state

ExitGroup ==
  /\ AtExit /\ Loop.kind = "group" /\ ~Dangles(Loop, "bodyOutput")
  /\ Continue(Outer, Act.scope, Emit(Loop, GroupValue))
  /\ Steady /\ UNCHANGED <<state, aux, frames, ghosts>>

-----------------------------------------------------------------------------
(* Iterate, in port mode                                                   *)

Blocks(n, bytes) == (Len(bytes) + n.len - 1) \div n.len
Block(n, bytes, i) ==
  SubSeq(bytes, i * n.len + 1, IF (i + 1) * n.len < Len(bytes) THEN (i + 1) * n.len ELSE Len(bytes))

Chained(n) == Bound(n, "chainInput")
BadShape(n) == n.len < 1 \/ ~Bound(n, "bodyOutput")
               \/ (Chained(n) # Bound(n, "chainFeedback")) \/ (n.harvest # {} /\ ~Chained(n))
Uneven(n, bytes) == ~n.partial /\ Len(bytes) % n.len # 0

BlockSeed(x, n, loop) ==
  (Port(x, "in") :> Block(n, loop.source, loop.i))
    @@ (IF Chained(n) THEN Port(x, "chain") :> loop.chain ELSE <<>>)

\* What an iterate publishes: the blocks joined, and the last chain if harvested.
Joined(n, got, chain) ==
  Emit(n, FlattenSeq(got)) @@ [p \in n.harvest |-> chain]

EnterIterate ==
  /\ AtNode /\ N.kind = "iterate" /\ ~BadShape(N)
  /\ ~Dangles(N, "seedInput") /\ ~Dangles(N, "chainInput") /\ ~Uneven(N, Got(N, "seedInput"))
  /\ LET loop == [NoLoop EXCEPT !.source = Got(N, "seedInput"),
                                !.chain = IF Chained(N) THEN Got(N, "chainInput") ELSE <<>>]
     IN IF loop.source = <<>>
        THEN Continue(stack, Here, Joined(N, <<>>, loop.chain)) /\ UNCHANGED <<aux, ghosts>>
        ELSE /\ stack' = <<Fresh(Here, BlockSeed(Here, N, loop), 0, Act.rounds, loop)>> \o stack
             /\ aux' = (BlockIndexKey :> <<0>>) @@ aux
             /\ UNCHANGED ghosts
  /\ Steady /\ UNCHANGED <<state, frames>>

FedBack == IF Chained(Loop) THEN Got(Loop, "chainFeedback") ELSE <<>>

Collected == Append(Act.loop.got, Got(Loop, "bodyOutput"))
BodyResolves ==
  \A f \in {"bodyOutput", "chainFeedback", "stopWhen"} : ~Dangles(Loop, f)
FlagFits == Bound(Loop, "stopWhen") => Len(Got(Loop, "stopWhen")) = 1

Stops ==
  \/ Act.loop.i + 1 = Blocks(Loop, Act.loop.source)
  \/ Bound(Loop, "stopWhen") /\ Got(Loop, "stopWhen") # <<0>>

NextBlock ==
  /\ AtExit /\ Loop.kind = "iterate" /\ BodyResolves /\ FlagFits /\ ~Stops
  /\ LET loop == [Act.loop EXCEPT !.i = @ + 1, !.got = Collected, !.chain = FedBack]
     IN /\ stack' = <<Fresh(Act.scope, BlockSeed(Act.scope, Loop, loop), loop.i, Act.rounds, loop)>>
                    \o Outer
        /\ aux' = (BlockIndexKey :> <<loop.i>>) @@ aux
  /\ Steady /\ UNCHANGED <<state, frames, ghosts>>

ExitIterate ==
  /\ AtExit /\ Loop.kind = "iterate" /\ BodyResolves /\ FlagFits /\ Stops
  /\ Continue(Outer, Act.scope, Joined(Loop, Collected, FedBack))
  /\ Steady /\ UNCHANGED <<state, aux, frames, ghosts>>

-----------------------------------------------------------------------------
(* Loops that number their rounds: state-threaded, and with a history      *)

EnterForEach ==
  /\ AtNode /\ N.kind = "for-each"
  /\ IF N.count = 0
     THEN Continue(stack, Here, Emit(N, state))
     ELSE stack' = <<Fresh(Here, <<>>, Act.block, Append(Act.rounds, 0), NoLoop)>> \o stack
  /\ Steady /\ UNCHANGED <<state, aux, frames, ghosts>>

NextForEach ==
  /\ AtExit /\ Loop.kind = "for-each"
  /\ LET i == Act.loop.i + 1
     IN IF i = Loop.count
        THEN Continue(Outer, Act.scope, Emit(Loop, state))
        ELSE stack' = <<Fresh(Act.scope, <<>>, Act.block, Append(Front(Act.rounds), i),
                              [NoLoop EXCEPT !.i = i])>> \o Outer
  /\ Steady /\ UNCHANGED <<state, aux, frames, ghosts>>

SeedBytes(n) == IF Bound(n, "seedInput") THEN Got(n, "seedInput") ELSE state
Entries(n, bytes) == [i \in 1..(Len(bytes) \div n.entry) |->
                        SubSeq(bytes, (i - 1) * n.entry + 1, i * n.entry)]
FewSeeds(n) ==
  \/ Len(SeedBytes(n)) % n.entry # 0
  \/ \E k \in n.offsets : k > Len(SeedBytes(n)) \div n.entry

Lookback(n, history) ==
  [key \in {Prior(k) : k \in n.offsets} |-> history[Len(history) + 1 - key[2]]]

\* Mutant of LookbackIsInnermost: the keys of the loop are dropped at its exit, whoever set them before.
RestoredDropped(n, saved) == Restrict(aux, DOMAIN aux \ {Prior(k) : k \in n.offsets})

Restored(n, saved) == saved @@ Restrict(aux, DOMAIN aux \ {Prior(k) : k \in n.offsets})

\* The exit of a loop with history: its keys as they were, the state the whole history.
LeaveHistory(x, n, below, history, saved) ==
  LET whole == FlattenSeq(history)
  IN /\ state' = whole
     /\ aux' = (IF n.outputAux = NoKey THEN <<>> ELSE n.outputAux :> whole) @@ Restored(n, saved)
     /\ writer' = (IF n.outputAux = NoKey THEN <<>> ELSE n.outputAux :> x) @@ writer
     /\ Continue(below, x, Emit(n, whole))

EnterHistory ==
  /\ AtNode /\ N.kind = "history" /\ ~Dangles(N, "seedInput") /\ ~FewSeeds(N)
  /\ LET history == Entries(N, SeedBytes(N))
         saved == Restrict(aux, DOMAIN aux \cap {Prior(k) : k \in N.offsets})
     IN IF N.count = 0
        THEN LeaveHistory(Here, N, stack, history, saved)
        ELSE /\ stack' = <<Fresh(Here, <<>>, Act.block, Append(Act.rounds, 0),
                                 [NoLoop EXCEPT !.got = history, !.saved = saved])>> \o stack
             /\ aux' = Lookback(N, history) @@ aux
             /\ state' = Zero(N.entry)
             /\ UNCHANGED writer
  /\ Steady /\ UNCHANGED <<frames, flows>>

NewEntry == IF Bound(Loop, "bodyOutput") THEN Got(Loop, "bodyOutput") ELSE state

NextEntry ==
  /\ AtExit /\ Loop.kind = "history" /\ ~Dangles(Loop, "bodyOutput") /\ Len(NewEntry) = Loop.entry
  /\ LET i == Act.loop.i + 1
         history == Append(Act.loop.got, NewEntry)
     IN IF i = Loop.count
        THEN LeaveHistory(Act.scope, Loop, Outer, history, Act.loop.saved)
        ELSE /\ stack' = <<Fresh(Act.scope, <<>>, Act.block, Append(Front(Act.rounds), i),
                                 [Act.loop EXCEPT !.i = i, !.got = history])>> \o Outer
             /\ aux' = Lookback(Loop, history) @@ aux
             /\ state' = Zero(Loop.entry)
             /\ UNCHANGED writer
  /\ Steady /\ UNCHANGED <<frames, flows>>

-----------------------------------------------------------------------------
(* Containers that throw, and the end of the walk                          *)

EntryThrows ==
  /\ AtNode
  /\ \/ N.kind \in {"group", "iterate", "history"} /\ Dangles(N, "seedInput") /\ Throw(Here, "seedInput")
     \/ /\ N.kind = "iterate" /\ ~Dangles(N, "seedInput")
        /\ \/ BadShape(N) /\ Throw(Here, "shape")
           \/ ~BadShape(N) /\ Uneven(N, Got(N, "seedInput")) /\ Throw(Here, "length")
           \/ /\ ~BadShape(N) /\ ~Uneven(N, Got(N, "seedInput"))
              /\ Dangles(N, "chainInput") /\ Throw(Here, "chainInput")
     \/ /\ N.kind = "history" /\ ~Dangles(N, "seedInput")
        /\ FewSeeds(N) /\ Throw(Here, "length")

ExitThrows ==
  /\ AtExit
  /\ \/ \E i \in 1..3 : LET fields == <<"bodyOutput", "chainFeedback", "stopWhen">>
                        IN /\ Dangles(Loop, fields[i])
                           /\ \A j \in 1..(i - 1) : ~Dangles(Loop, fields[j])
                           /\ Throw(Act.scope, fields[i])
     \/ /\ Loop.kind = "iterate" /\ BodyResolves /\ ~FlagFits /\ Throw(Act.scope, "length")
     \/ /\ Loop.kind = "history" /\ ~Dangles(Loop, "bodyOutput")
        /\ Len(NewEntry) # Loop.entry /\ Throw(Act.scope, "length")

Finish ==
  /\ Act.scope = Top /\ ~AtNode
  /\ \/ /\ spec.exit \notin DOMAIN Act.outs
        /\ Throw(Top, "outputFrom")
     \/ /\ spec.exit \in DOMAIN Act.outs
        /\ status' = "done" /\ result' = Act.outs[spec.exit]
        /\ UNCHANGED <<spec, input, stack, state, aux, frames, culprit, ghosts>>

Step ==
  /\ status = "running"
  /\ \/ StepLeaf \/ LeafThrows
     \/ EnterGroup \/ ExitGroup
     \/ EnterIterate \/ NextBlock \/ ExitIterate
     \/ EnterForEach \/ NextForEach
     \/ EnterHistory \/ NextEntry
     \/ EntryThrows \/ ExitThrows
     \/ Finish

-----------------------------------------------------------------------------
(* Properties                                                              *)

\* A run that ends leaves the value the spec is meant to compute: the outputs of
\* the right scope, block, round and lookback reached the end.
ResultIsMeant == status = "done" => result = Meant(spec, input)

\* No two frames have one id: every walk of a body suffixes them differently, so
\* that the panes can tell the frames of a step apart.
FrameIdsUnique ==
  \A i, j \in DOMAIN frames :
    i # j => <<frames[i].id, frames[i].block, frames[i].rounds>>
               # <<frames[j].id, frames[j].block, frames[j].rounds>>

\* A lookback key names an entry of the innermost loop around the walk that declares
\* it, also after a loop inside that one has used the same key; outside it is unset.
LookbackIsInnermost ==
  \A k \in 1..3 :
    LET around == SelectSeq(stack, LAMBDA a : a.scope # Top /\ spec.node[a.scope].kind = "history"
                                              /\ k \in spec.node[a.scope].offsets)
    IN IF around = <<>> THEN Prior(k) \notin DOMAIN aux
       ELSE Prior(k) \in DOMAIN aux /\ aux[Prior(k)] = around[1].loop.got[Len(around[1].loop.got) + 1 - k]

\* What SpecEditing says of a spec without running it is what happens: a run stops at
\* one of the bindings found there, and a run that reaches every body meets none.
Static == INSTANCE SpecEditing WITH
  Shipped <- {}, Palette <- {}, Names <- {}, MaxNumber <- 0, MaxEdits <- 0, MaxSaved <- 0,
  library <- {}, armed <- <<>>, edits <- 0
Nested == [body |-> spec.body, node |-> spec.node, exit |-> spec.exit,
           inside |-> [x \in DOMAIN spec.node |-> ToSet(spec.path[x])]]
ThrowsAsPredicted ==
  /\ status = "threw" /\ culprit[2] \notin {"shape", "length"}
       => culprit \in Static!Throws(Nested) \/ culprit[2] \in spec.node[culprit[1]].must
  /\ status = "done" => Static!Throws(Nested) = {}

TypeOK ==
  /\ status \in {"running", "done", "threw"}
  /\ \A i \in DOMAIN stack :
       /\ stack[i].k \in 1..(Len(spec.body[stack[i].scope]) + 1)
       /\ DOMAIN stack[i].outs \subseteq [node : {InputSource.node} \cup DOMAIN spec.node, port : STRING]
       /\ stack[i].scope = Top <=> i = Len(stack)
       /\ i < Len(stack) => stack[i].scope = spec.body[stack[i + 1].scope][stack[i + 1].k]
  /\ \A i \in DOMAIN frames : Range(frames[i].ins) \cup Range(frames[i].outs) \subseteq Seq(Nat)
  /\ Range(aux) \subseteq Seq(Nat) /\ result \in Seq(Nat)

=============================================================================
