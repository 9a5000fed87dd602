----------------------------- MODULE RunHistory -----------------------------
(***************************************************************************)
(* The run-history store (src/ui/stores/history.ts): a ring of snapshots   *)
(* of successful runs, each with its difference from the one before it.    *)
(*                                                                         *)
(* A run has a mode, input and key bytes, the parts of its spec that       *)
(* compareSpecs visits (ids, structure, step types and parameters), and an *)
(* "unseen" part that pushSnapshot never compares: the IV, the port wiring *)
(* and the cipher constants.                                               *)
(***************************************************************************)
EXTENDS Integers, Sequences, SequencesExt

CONSTANTS
    Runs,        \* the runs: [mode, input, key, params, unseen]
    MaxHistory,  \* MAX_HISTORY: snapshots retained
    NoDelta,     \* null: the first snapshot has no delta
    MaxId        \* bound of the model: the largest id of a snapshot

Byte == 0..255

-----------------------------------------------------------------------------
(***************************************************************************)
(* computeDelta: what a snapshot says of its difference from another run.  *)
(***************************************************************************)

\* a[i] ?? 0
ByteAt(bytes, i) == IF i \in DOMAIN bytes THEN bytes[i] ELSE 0

\* diffBytes
DiffBytes(a, b) ==
    {<<i, ByteAt(a, i), ByteAt(b, i)>> :
        i \in {j \in DOMAIN a \cup DOMAIN b : ByteAt(a, j) # ByteAt(b, j)}}

\* compareSpecs
CompareSpecs(a, b) == IF a = b THEN {} ELSE {<<a, b>>}

\* computeDelta
Delta(prev, ran) ==
    [inputChanged  |-> DiffBytes(prev.input, ran.input),
     keyChanged    |-> DiffBytes(prev.key, ran.key),
     paramsChanged |-> CompareSpecs(prev.params, ran.params)]

IsEmptyDelta(delta) ==
    delta.inputChanged = {} /\ delta.keyChanged = {} /\ delta.paramsChanged = {}

\* What isIdenticalToPrev asks of two runs.
SameRun(a, b) ==
    /\ a.mode = b.mode
    /\ CompareSpecs(a.params, b.params) = {}
    /\ a.input = b.input
    /\ a.key = b.key

ASSUME RunsAssumption == \A ran \in Runs : ran.input \in Seq(Byte) /\ ran.key \in Seq(Byte)
ASSUME MaxHistoryAssumption == MaxHistory \in Nat \ {0}
ASSUME NoDeltaAssumption == \A a, b \in Runs : Delta(a, b) # NoDelta
ASSUME MaxIdAssumption == MaxId \in Nat

-----------------------------------------------------------------------------

VARIABLES
    history,  \* the snapshots, oldest first
    nextId    \* the id of the next snapshot

store == <<history, nextId>>

Deltas == {Delta(a, b) : a \in Runs, b \in Runs}
RunSnapshot ==
    [id : 1..MaxId, ran : Runs, delta : Deltas \cup {NoDelta}, hidden : BOOLEAN]

HistoryInit == history = <<>> /\ nextId = 1

\* isIdenticalToPrev
IsIdenticalToPrev(prev, ran) == SameRun(prev.ran, ran)

\* Mutant of Snapshot: numbered by its place in the buffer.
SnapshotNumberedByPlace(ran, delta) ==
    [id |-> Len(history) + 1, ran |-> ran, delta |-> delta, hidden |-> FALSE]

Snapshot(ran, delta) ==
    [id |-> nextId, ran |-> ran, delta |-> delta, hidden |-> FALSE]

Appended(snapshots, s) ==
    LET next == Append(snapshots, s)
    IN  IF Len(next) > MaxHistory THEN Tail(next) ELSE next

DeltaFromLast(ran) ==
    IF history = <<>> THEN NoDelta ELSE Delta(Last(history).ran, ran)

\* Mutant of PushSnapshot: a duplicate is compared with the oldest snapshot.
PushUnlessOldest(ran) ==
    IF history # <<>> /\ IsIdenticalToPrev(Head(history), ran)
    THEN UNCHANGED store
    ELSE /\ history' = Appended(history, Snapshot(ran, DeltaFromLast(ran)))
         /\ nextId' = nextId + 1

\* A duplicate of the latest snapshot is dropped, otherwise the delta is
\* taken against it and the oldest snapshot is evicted past the capacity.
PushSnapshot(ran) ==
    IF history # <<>> /\ IsIdenticalToPrev(Last(history), ran)
    THEN UNCHANGED store
    ELSE /\ history' = Appended(history, Snapshot(ran, DeltaFromLast(ran)))
         /\ nextId' = nextId + 1

\* A view flag; a hidden snapshot keeps its place.
ToggleSnapshotHidden(id) ==
    /\ history' = [i \in DOMAIN history |->
                     IF history[i].id = id
                     THEN [history[i] EXCEPT !.hidden = ~@] ELSE history[i]]
    /\ UNCHANGED nextId

\* Run Explorer's button, disabled on an empty history.
ClearHistory == history # <<>> /\ history' = <<>> /\ nextId' = 1

HistoryNext ==
    \/ \E ran \in Runs : nextId <= MaxId /\ PushSnapshot(ran)
    \/ \E id \in 1..MaxId : ToggleSnapshotHidden(id)
    \/ ClearHistory

HistorySpec == HistoryInit /\ [][HistoryNext]_store

-----------------------------------------------------------------------------

HistoryTypeOK ==
    /\ history \in Seq(RunSnapshot)
    /\ Len(history) <= MaxHistory
    /\ nextId \in 1..(MaxId + 1)

\* The ids in the buffer are consecutive up to the latest one, so hiding by id
\* hides one snapshot, across evictions and clears.
IdsConsecutive ==
    \A i \in DOMAIN history : history[i].id = nextId - Len(history) + i - 1

\* Every delta but the oldest retained one is relative to its neighbour in
\* the buffer, which the duplicate check tells from it.
DeltasLinkNeighbours ==
    \A i \in 2..Len(history) :
        /\ history[i].delta = Delta(history[i - 1].ran, history[i].ran)
        /\ ~IsIdenticalToPrev(history[i - 1], history[i].ran)

\* A delta may be empty all the same: it leaves out the mode, and a missing
\* byte counts as zero. Nothing else hides a difference.
EmptyDeltasHideLittle ==
    \A i \in 2..Len(history) :
        LET prev == history[i - 1].ran
            ran == history[i].ran
        IN  IsEmptyDelta(history[i].delta) =>
                \/ prev.mode # ran.mode
                \/ Len(prev.input) # Len(ran.input)
                \/ Len(prev.key) # Len(ran.key)

\* Only the very first snapshot is without a delta ("or null for the first").
OnlyFirstHasNoDelta ==
    \A i \in DOMAIN history : history[i].delta = NoDelta <=> history[i].id = 1

\* The ring is a chain: numbered without gaps, each delta relative to the
\* neighbour, without one for the very first snapshot only, and empty for a
\* mode or a length only; whatever was evicted, hidden, cleared or dropped as
\* a duplicate.
HistoryIsLinked ==
    IdsConsecutive /\ DeltasLinkNeighbours /\ EmptyDeltasHideLittle /\ OnlyFirstHasNoDelta

\* Every snapshot says what is different about it: "(no observable change)"
\* "should be impossible" (run-delta-format.ts).  The code does not keep it:
\* the input 01 made 0100 is another snapshot, with an empty delta.
DeltasShowChanges ==
    \A i \in 2..Len(history) : ~IsEmptyDelta(history[i].delta)

=============================================================================
