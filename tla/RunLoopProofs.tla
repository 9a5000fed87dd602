---------------------------- MODULE RunLoopProofs -----------------------------
(***************************************************************************)
(* Proofs about RunHistory and RunLoop, for any runs, capacity and number  *)
(* of edits. The ring of retained runs keeps its links under every         *)
(* interleaving of runs, hides and clears. Announcement rests on which way *)
(* the checkbox is clicked; manual mode does not.                          *)
(***************************************************************************)
EXTENDS RunHistory, SequenceTheorems, TLAPS, RunLoop

-----------------------------------------------------------------------------
(***************************************************************************)
(* The ring.                                                               *)
(***************************************************************************)

\* A snapshot with any id.
Retained ==
    [id : Nat, ran : Runs, delta : Deltas \cup {NoDelta}, hidden : BOOLEAN]

\* The buffer holds the latest runs, fewer than have been numbered.
RingShape ==
    /\ history \in Seq(Retained)
    /\ Len(history) <= MaxHistory
    /\ nextId \in Nat
    /\ Len(history) < nextId

RingInv ==
    /\ RingShape
    /\ IdsConsecutive
    /\ DeltasLinkNeighbours
    /\ OnlyFirstHasNoDelta
    /\ history = <<>> => nextId = 1

\* What the three properties say of a pair of sequence and next id.
Ring(h, n) ==
    /\ Len(h) \in Nat /\ Len(h) < n /\ DOMAIN h = 1..Len(h)
    /\ \A i \in 1..Len(h) :
          /\ h[i].id = n - Len(h) + i - 1
          /\ h[i].delta = NoDelta <=> h[i].id = 1
    /\ \A i \in 2..Len(h) :
          /\ h[i].delta = Delta(h[i - 1].ran, h[i].ran)
          /\ ~SameRun(h[i - 1].ran, h[i].ran)

LEMMA RingMeaning ==
    ASSUME RingShape
    PROVE  Ring(history, nextId) <=>
             IdsConsecutive /\ DeltasLinkNeighbours /\ OnlyFirstHasNoDelta
<1>1. Len(history) \in Nat /\ DOMAIN history = 1..Len(history)
  BY LenProperties DEF RingShape
<1>. QED
  BY <1>1 DEF Ring, RingShape, IdsConsecutive, DeltasLinkNeighbours, OnlyFirstHasNoDelta,
              IsIdenticalToPrev

-----------------------------------------------------------------------------

LEMMA RingInit == HistoryInit => RingInv
<1>. SUFFICES ASSUME HistoryInit PROVE RingInv
  OBVIOUS
<1>1. history = <<>> /\ Len(history) = 0 /\ nextId = 1
  BY DEF HistoryInit
<1>. QED
  BY <1>1, MaxHistoryAssumption
  DEF RingInv, RingShape, IdsConsecutive, DeltasLinkNeighbours, OnlyFirstHasNoDelta

\* A run appended to the ring and, past the capacity, the oldest one evicted.
LEMMA AppendedRing ==
    ASSUME NEW h \in Seq(Retained), NEW n \in Nat, Ring(h, n), Len(h) <= MaxHistory,
           h = <<>> => n = 1,
           NEW s \in Retained, s.id = n,
           s.delta = IF h = <<>> THEN NoDelta ELSE Delta(Last(h).ran, s.ran),
           h # <<>> => ~SameRun(Last(h).ran, s.ran)
    PROVE  /\ Appended(h, s) \in Seq(Retained)
           /\ Ring(Appended(h, s), n + 1)
           /\ Len(Appended(h, s)) <= MaxHistory
           /\ Appended(h, s) # <<>>
<1>. DEFINE next == Append(h, s)
<1>a. Len(h) \in Nat /\ DOMAIN h = 1..Len(h) /\ Len(h) < n
  BY DEF Ring
<1>1. /\ next \in Seq(Retained) /\ Len(next) = Len(h) + 1
      /\ \A i \in 1..Len(h) : next[i] = h[i]
      /\ next[Len(h) + 1] = s
  BY AppendProperties
<1>b. Appended(h, s) = IF Len(next) > MaxHistory THEN Tail(next) ELSE next
  BY DEF Appended
<1>. HIDE DEF next
<1>2. h # <<>> => Len(h) > 0 /\ Last(h) = h[Len(h)] /\ h[Len(h)] \in Retained
  BY EmptySeq, <1>a, ElementOfSeq DEF Last
<1>3. s.delta = NoDelta <=> s.id = 1
  <2>1. CASE h = <<>>
    BY <2>1
  <2>2. CASE h # <<>>
    <3>1. Last(h).ran \in Runs /\ s.ran \in Runs
      BY <1>2, <2>2 DEF Retained
    <3>. QED  BY <1>a, <1>2, <2>2, <3>1, NoDeltaAssumption
  <2>. QED  BY <2>1, <2>2
<1>4. \A i \in 1..Len(next) :
         /\ next[i].id = (n + 1) - Len(next) + i - 1
         /\ next[i].delta = NoDelta <=> next[i].id = 1
  <2>. TAKE i \in 1..Len(next)
  <2>1. CASE i \in 1..Len(h)
    BY <1>a, <1>1, <2>1 DEF Ring
  <2>2. CASE i = Len(h) + 1
    BY <1>a, <1>1, <1>3, <2>2
  <2>. QED  BY <1>1, <1>a, <2>1, <2>2
<1>5. \A i \in 2..Len(next) :
         /\ next[i].delta = Delta(next[i - 1].ran, next[i].ran)
         /\ ~SameRun(next[i - 1].ran, next[i].ran)
  <2>. TAKE i \in 2..Len(next)
  <2>1. CASE i \in 2..Len(h)
    <3>1. next[i] = h[i] /\ next[i - 1] = h[i - 1]
      BY <1>a, <1>1, <2>1
    <3>. QED  BY <2>1, <3>1 DEF Ring
  <2>2. CASE i = Len(h) + 1
    <3>1. Len(h) > 0 /\ next[i] = s /\ next[i - 1] = h[Len(h)]
      BY <1>a, <1>1, <2>2
    <3>2. h # <<>>
      BY <3>1, EmptySeq
    <3>. QED  BY <1>2, <3>1, <3>2
  <2>. QED  BY <1>1, <1>a, <2>1, <2>2
<1>6. DOMAIN next = 1..Len(next)
  BY <1>1, LenProperties
<1>7. Ring(next, n + 1)
  BY <1>a, <1>1, <1>4, <1>5, <1>6 DEF Ring
<1>8. next # <<>>
  BY <1>1, <1>a, EmptySeq
<1>9. CASE Len(next) <= MaxHistory
  <2>1. Appended(h, s) = next
    BY <1>1, <1>9, <1>a, <1>b, MaxHistoryAssumption
  <2>. QED  BY <1>1, <1>7, <1>8, <1>9, <2>1
<1>10. CASE Len(next) > MaxHistory
  <2>1. Appended(h, s) = Tail(next)
    BY <1>10, <1>b
  <2>2. /\ Tail(next) \in Seq(Retained) /\ Len(Tail(next)) = Len(next) - 1
        /\ \A i \in 1..Len(Tail(next)) : Tail(next)[i] = next[i + 1]
    BY <1>1, <1>8, HeadTailProperties
  <2>3. DOMAIN Tail(next) = 1..Len(Tail(next))
    BY <2>2, LenProperties
  <2>4. \A i \in 1..Len(Tail(next)) :
           /\ Tail(next)[i].id = (n + 1) - Len(Tail(next)) + i - 1
           /\ Tail(next)[i].delta = NoDelta <=> Tail(next)[i].id = 1
    <3>. TAKE i \in 1..Len(Tail(next))
    <3>1. /\ Tail(next)[i] = next[i + 1] /\ i + 1 \in 1..Len(next)
          /\ (n + 1) - Len(Tail(next)) + i - 1 = (n + 1) - Len(next) + (i + 1) - 1
      BY <1>a, <1>1, <2>2, SMTT(30)
    <3>. QED  BY <1>4, <3>1
  <2>5. \A i \in 2..Len(Tail(next)) :
           /\ Tail(next)[i].delta = Delta(Tail(next)[i - 1].ran, Tail(next)[i].ran)
           /\ ~SameRun(Tail(next)[i - 1].ran, Tail(next)[i].ran)
    <3>. TAKE i \in 2..Len(Tail(next))
    <3>1. /\ Tail(next)[i] = next[i + 1] /\ Tail(next)[i - 1] = next[i]
          /\ i + 1 \in 2..Len(next) /\ (i + 1) - 1 = i
      <4>1. Len(next) \in Nat /\ Len(Tail(next)) = Len(next) - 1
        BY <1>a, <1>1, <2>2
      <4>2. i \in 1..Len(Tail(next)) /\ i - 1 \in 1..Len(Tail(next)) /\ (i - 1) + 1 = i
        BY <4>1
      <4>3. Tail(next)[i] = next[i + 1] /\ Tail(next)[i - 1] = next[i]
        BY <2>2, <4>2
      <4>. QED  BY <4>1, <4>3
    <3>. QED  BY <1>5, <3>1
  <2>6. Len(Tail(next)) \in Nat /\ Len(Tail(next)) < n + 1
    BY <1>a, <1>1, <2>2
  <2>7. Ring(Tail(next), n + 1)
    BY <2>3, <2>4, <2>5, <2>6 DEF Ring
  <2>8. Len(Tail(next)) >= 1
    BY <1>a, <1>1, <1>10, <2>2, MaxHistoryAssumption
  <2>. QED  BY <1>1, <1>a, <2>1, <2>2, <2>7, <2>8, EmptySeq
<1>. QED  BY <1>1, <1>a, <1>9, <1>10, MaxHistoryAssumption

LEMMA PushKeepsRing ==
    ASSUME RingInv, NEW ran \in Runs, PushSnapshot(ran)
    PROVE  RingInv'
<1>1. CASE UNCHANGED store
  BY <1>1 DEF store, RingInv, RingShape, IdsConsecutive, DeltasLinkNeighbours,
              OnlyFirstHasNoDelta
<1>2. CASE ~UNCHANGED store
  <2>. DEFINE delta == DeltaFromLast(ran)
  <2>1. history # <<>> => ~IsIdenticalToPrev(Last(history), ran)
    BY <1>2 DEF PushSnapshot
  <2>2. history' = Appended(history, Snapshot(ran, delta)) /\ nextId' = nextId + 1
    BY <2>1 DEF PushSnapshot
  <2>3. Ring(history, nextId)
    BY RingMeaning DEF RingInv
  <2>4. history # <<>> => Last(history).ran \in Runs
    <3>. SUFFICES ASSUME history # <<>> PROVE Last(history).ran \in Runs
      OBVIOUS
    <3>1. Last(history) \in Retained
      BY EmptySeq, ElementOfSeq, LenProperties DEF Last, RingInv, RingShape
    <3>. QED  BY <3>1 DEF Retained
  <2>5. Snapshot(ran, delta) \in Retained
    BY <2>4 DEF Snapshot, Retained, RingInv, RingShape, DeltaFromLast, Deltas
  <2>6. PICK h : h = history
    OBVIOUS
  <2>7. PICK s : s = Snapshot(ran, delta)
    OBVIOUS
  <2>8. PICK n : n = nextId
    OBVIOUS
  <2>9. /\ s.id = n /\ s.ran = ran
        /\ s.delta = IF h = <<>> THEN NoDelta ELSE Delta(Last(h).ran, s.ran)
    BY <2>6, <2>7, <2>8 DEF Snapshot, DeltaFromLast
  <2>10. h # <<>> => ~SameRun(Last(h).ran, s.ran)
    BY <2>1, <2>6, <2>9 DEF IsIdenticalToPrev
  <2>11. /\ h \in Seq(Retained) /\ n \in Nat /\ Ring(h, n) /\ Len(h) <= MaxHistory
         /\ (h = <<>> => n = 1)
    BY <2>3, <2>6, <2>8 DEF RingInv, RingShape
  <2>12. s \in Retained
    BY <2>5, <2>7
  <2>13. /\ Appended(h, s) \in Seq(Retained) /\ Ring(Appended(h, s), n + 1)
         /\ Len(Appended(h, s)) <= MaxHistory /\ Appended(h, s) # <<>>
    BY <2>6, <2>9, <2>10, <2>11, <2>12, AppendedRing
  <2>14. history' = Appended(h, s) /\ nextId' = n + 1
    BY <2>2, <2>6, <2>7, <2>8
  <2>15. RingShape' /\ history' # <<>> /\ Ring(history', nextId')
    BY <2>11, <2>13, <2>14 DEF RingShape, Ring
  <2>16. IdsConsecutive' /\ DeltasLinkNeighbours' /\ OnlyFirstHasNoDelta'
    BY <2>15 DEF Ring, IdsConsecutive, DeltasLinkNeighbours, OnlyFirstHasNoDelta,
                 IsIdenticalToPrev
  <2>. QED  BY <2>15, <2>16 DEF RingInv
<1>. QED  BY <1>1, <1>2

LEMMA HideKeepsRing ==
    ASSUME RingInv, NEW id \in Nat, ToggleSnapshotHidden(id)
    PROVE  RingInv'
<1>1. DOMAIN history = 1..Len(history) /\ Len(history) \in Nat
  BY LenProperties DEF RingInv, RingShape
<1>2. \A i \in 1..Len(history) : history[i] \in Retained
  BY ElementOfSeq DEF RingInv, RingShape
<1>3. /\ \A i \in 1..Len(history) :
            /\ history'[i] \in Retained /\ history'[i].id = history[i].id
            /\ history'[i].delta = history[i].delta /\ history'[i].ran = history[i].ran
      /\ nextId' = nextId /\ DOMAIN history' = 1..Len(history)
      /\ history' = [i \in 1..Len(history) |-> history'[i]]
  BY <1>1, <1>2 DEF ToggleSnapshotHidden, Retained
<1>4. history' \in Seq(Retained) /\ Len(history') = Len(history)
  BY <1>1, <1>3
<1>5. history' = <<>> => history = <<>>
  BY <1>1, <1>4, EmptySeq DEF RingInv, RingShape
<1>6. RingShape'
  BY <1>3, <1>4 DEF RingInv, RingShape
<1>7. Ring(history, nextId)
  BY RingMeaning DEF RingInv
<1>8. Ring(history', nextId')
  <2>1. \A i \in 1..Len(history) :
           /\ history'[i].id = nextId - Len(history) + i - 1
           /\ history'[i].delta = NoDelta <=> history'[i].id = 1
    BY <1>3, <1>7 DEF Ring
  <2>2. \A i \in 2..Len(history) :
           /\ history'[i].delta = Delta(history'[i - 1].ran, history'[i].ran)
           /\ ~SameRun(history'[i - 1].ran, history'[i].ran)
    <3>. TAKE i \in 2..Len(history)
    <3>1. i \in 1..Len(history) /\ i - 1 \in 1..Len(history)
      BY <1>1
    <3>. QED  BY <1>3, <1>7, <3>1 DEF Ring
  <2>. QED  BY <1>1, <1>3, <1>4, <1>7, <2>1, <2>2 DEF Ring
<1>9. IdsConsecutive' /\ DeltasLinkNeighbours' /\ OnlyFirstHasNoDelta'
  BY <1>8 DEF Ring, IdsConsecutive, DeltasLinkNeighbours, OnlyFirstHasNoDelta,
              IsIdenticalToPrev
<1>. QED
  BY <1>3, <1>5, <1>6, <1>9 DEF RingInv

LEMMA ClearKeepsRing == ASSUME ClearHistory PROVE RingInv'
<1>1. history' = <<>> /\ Len(history') = 0 /\ nextId' = 1
  BY DEF ClearHistory
<1>. QED
  BY <1>1, MaxHistoryAssumption
  DEF RingInv, RingShape, IdsConsecutive, DeltasLinkNeighbours, OnlyFirstHasNoDelta

-----------------------------------------------------------------------------
(***************************************************************************)
(* The theorems.                                                           *)
(***************************************************************************)

LEMMA RingNext == RingInv /\ [HistoryNext]_store => RingInv'
<1>. SUFFICES ASSUME RingInv, [HistoryNext]_store PROVE RingInv'
  OBVIOUS
<1>1. ASSUME NEW ran \in Runs, PushSnapshot(ran) PROVE RingInv'
  BY <1>1, PushKeepsRing
<1>2. ASSUME NEW id \in 1..MaxId, ToggleSnapshotHidden(id) PROVE RingInv'
  BY <1>2, HideKeepsRing, MaxIdAssumption
<1>3. CASE ClearHistory
  BY <1>3, ClearKeepsRing
<1>4. CASE UNCHANGED store
  BY <1>4 DEF store, RingInv, RingShape, IdsConsecutive, DeltasLinkNeighbours,
              OnlyFirstHasNoDelta
<1>. QED  BY <1>1, <1>2, <1>3, <1>4 DEF HistoryNext

\* Byte strings of one length without a byte diff are equal (diffBytes).
LEMMA NoDiffOfOneLength ==
    ASSUME NEW a \in Seq(Byte), NEW b \in Seq(Byte), Len(a) = Len(b), DiffBytes(a, b) = {}
    PROVE  a = b
<1>1. DOMAIN a = 1..Len(a) /\ DOMAIN b = 1..Len(a) /\ Len(a) \in Nat
  BY LenProperties
<1>2. ASSUME NEW i \in 1..Len(a) PROVE a[i] = b[i]
  <2>1. ByteAt(a, i) = a[i] /\ ByteAt(b, i) = b[i]
    BY <1>1 DEF ByteAt
  <2>2. ByteAt(a, i) = ByteAt(b, i)
    BY <1>1, Zenon DEF DiffBytes
  <2>. QED  BY <2>1, <2>2
<1>. QED  BY <1>1, <1>2, SeqEqual

\* Runs that the duplicate check tells apart and the delta does not differ in
\* the mode or in a length (isIdenticalToPrev, computeDelta).
LEMMA EmptyDeltaMeaning ==
    ASSUME NEW a \in Runs, NEW b \in Runs, ~SameRun(a, b), IsEmptyDelta(Delta(a, b))
    PROVE  a.mode # b.mode \/ Len(a.input) # Len(b.input) \/ Len(a.key) # Len(b.key)
<1>1. /\ a.input \in Seq(Byte) /\ b.input \in Seq(Byte)
      /\ a.key \in Seq(Byte) /\ b.key \in Seq(Byte)
  BY RunsAssumption
<1>2. /\ DiffBytes(a.input, b.input) = {} /\ DiffBytes(a.key, b.key) = {}
      /\ CompareSpecs(a.params, b.params) = {}
  BY DEF IsEmptyDelta, Delta
<1>3. Len(a.input) = Len(b.input) => a.input = b.input
  BY <1>1, <1>2, NoDiffOfOneLength
<1>4. Len(a.key) = Len(b.key) => a.key = b.key
  BY <1>1, <1>2, NoDiffOfOneLength
<1>. QED  BY <1>2, <1>3, <1>4 DEF SameRun

LEMMA RingIsLinked == RingInv => HistoryIsLinked
<1>. SUFFICES ASSUME RingInv PROVE EmptyDeltasHideLittle
  BY DEF RingInv, HistoryIsLinked
<1>1. ASSUME NEW i \in 1..Len(history) PROVE history[i].ran \in Runs
  <2>1. history[i] \in Retained
    BY ElementOfSeq DEF RingInv, RingShape
  <2>. QED  BY <2>1 DEF Retained
<1>2. Len(history) \in Nat
  BY LenProperties DEF RingInv, RingShape
<1>3. ASSUME NEW i \in 2..Len(history), IsEmptyDelta(history[i].delta)
      PROVE  \/ history[i - 1].ran.mode # history[i].ran.mode
             \/ Len(history[i - 1].ran.input) # Len(history[i].ran.input)
             \/ Len(history[i - 1].ran.key) # Len(history[i].ran.key)
  <2>1. history[i - 1].ran \in Runs /\ history[i].ran \in Runs
    BY <1>1, <1>2
  <2>2. /\ history[i].delta = Delta(history[i - 1].ran, history[i].ran)
        /\ ~SameRun(history[i - 1].ran, history[i].ran)
    BY DEF RingInv, DeltasLinkNeighbours, IsIdenticalToPrev
  <2>. QED  BY <1>3, <2>1, <2>2, EmptyDeltaMeaning
<1>. QED  BY <1>3 DEF EmptyDeltasHideLittle

\* The store's own history: its ids are consecutive, each delta is computed
\* against its neighbour, only the first run has none, and an empty one hides
\* a mode or a length and nothing else (pushSnapshot, computeDelta,
\* clearHistory and toggleSnapshotHidden).
THEOREM RingLinked == HistorySpec => []HistoryIsLinked
<1>1. RingInv => HistoryIsLinked
  BY RingIsLinked
<1>. QED  BY <1>1, RingInit, RingNext, PTL DEF HistorySpec

-----------------------------------------------------------------------------
(***************************************************************************)
(* The loop.                                                               *)
(***************************************************************************)

-----------------------------------------------------------------------------
(***************************************************************************)
(* The outcome of a run.                                                   *)
(***************************************************************************)

\* After run() the trace is that of the settings, or an error says why not.
LEMMA RunOutcome ==
    ASSUME NEW c, NEW pending, NEW flag, RunOn(c, pending, flag)
    PROVE  ~Stale' \/ error' # "none"
<1>1. CASE c.fit = "ok" /\ config' = c /\ Succeeds(c)
  BY <1>1 DEF Succeeds, Stale
<1>2. CASE Fails(flag) \/ Fails(Flagged(flag))
  BY <1>2 DEF Fails
<1>3. ASSUME NEW r \in Rebuilt(c.run), config' = [run |-> r, fit |-> "ok"],
             Succeeds([run |-> r, fit |-> "ok"])
      PROVE  ~Stale'
  BY <1>3 DEF Succeeds, Stale
<1>. QED  BY <1>1, <1>2, <1>3 DEF RunOn

\* run() leaves the flags Boolean, and neither schedules a run nor raises the
\* dirty flag outside the mode that is to do so.
LEMMA RunKeepsFlags ==
    ASSUME NEW c, NEW pending \in BOOLEAN, NEW flag \in BOOLEAN, autoRerun \in BOOLEAN,
           RunOn(c, pending, flag)
    PROVE  /\ timer' \in BOOLEAN /\ dirty' \in BOOLEAN
           /\ timer' => pending \/ autoRerun
<1>1. Scheduled(pending) \in BOOLEAN /\ (Scheduled(pending) => pending \/ autoRerun)
  BY DEF Scheduled
<1>2. Flagged(flag) \in BOOLEAN
  BY DEF Flagged
<1>3. timer' = pending \/ timer' = Scheduled(pending)
  BY Zenon DEF RunOn
<1>4. dirty' = FALSE \/ dirty' = flag \/ dirty' = Flagged(flag)
  BY Zenon DEF RunOn, Succeeds, Fails
<1>5. timer' \in BOOLEAN /\ (timer' => pending \/ autoRerun)
  <2>1. CASE timer' = pending
    BY <2>1
  <2>2. CASE timer' = Scheduled(pending)
    BY <1>1, <2>2
  <2>. QED  BY <1>3, <2>1, <2>2
<1>6. dirty' \in BOOLEAN
  BY <1>2, <1>4
<1>. QED  BY <1>5, <1>6

-----------------------------------------------------------------------------
(***************************************************************************)
(* The typing that the properties need: every edit count and every id.     *)
(***************************************************************************)

FlagsOK ==
    /\ config \in Config
    /\ autoRerun \in BOOLEAN /\ dirty \in BOOLEAN /\ timer \in BOOLEAN

\* A run of well-formed settings leaves well-formed settings.
LEMMA RunKeepsConfig ==
    ASSUME NEW c \in Config, NEW pending, NEW flag, RunOn(c, pending, flag)
    PROVE  config' \in Config
<1>1. CASE config' = c
  BY <1>1
<1>2. ASSUME NEW r \in Rebuilt(c.run), config' = [run |-> r, fit |-> "long"], c.fit = "long"
      PROVE  config' \in Config
  BY <1>2 DEF Config, Rebuilt
<1>3. ASSUME NEW r \in Rebuilt(c.run), config' = [run |-> r, fit |-> "ok"]
      PROVE  config' \in Config
  BY <1>3, FitsAssumption DEF Config, Rebuilt
<1>. QED  BY <1>1, <1>2, <1>3, Zenon DEF RunOn

LEMMA FlagsInit == Init => FlagsOK
  BY FitsAssumption DEF Init, FlagsOK, Config

LEMMA FlagsNext == FlagsOK /\ [Next]_vars => FlagsOK'
<1>. SUFFICES ASSUME FlagsOK, [Next]_vars PROVE FlagsOK'
  OBVIOUS
<1>a. config \in Config /\ autoRerun \in BOOLEAN /\ dirty \in BOOLEAN /\ timer \in BOOLEAN
  BY DEF FlagsOK
<1>b. Scheduled(timer) \in BOOLEAN /\ Flagged(dirty) \in BOOLEAN
  BY <1>a DEF Scheduled, Flagged
<1>1. ASSUME NEW c \in Config, NEW pending \in BOOLEAN, NEW flag \in BOOLEAN,
             RunOn(c, pending, flag), UNCHANGED autoRerun
      PROVE  FlagsOK'
  BY <1>1, <1>a, RunKeepsFlags, RunKeepsConfig DEF FlagsOK
<1>2. ASSUME NEW c \in Config, Edit(c) PROVE FlagsOK'
  BY <1>2, <1>a, <1>b DEF Edit, FlagsOK
<1>3. ASSUME NEW c \in Config, LoadFile(c) \/ BootDocument(c) PROVE FlagsOK'
  BY <1>3, <1>1, <1>b DEF LoadFile, BootDocument, ApplyDocument
<1>4. CASE PressRun \/ BootRuns
  BY <1>4, <1>1, <1>a DEF PressRun, BootRuns
<1>5. CASE TimerFires
  BY <1>5, <1>1, <1>a DEF TimerFires
<1>6. ASSUME NEW next \in BOOLEAN, ToggleAutoRerun(next) PROVE FlagsOK'
  BY <1>6, <1>a DEF ToggleAutoRerun, FlagsOK
<1>7. CASE LoadFileFails \/ BootDocumentFails \/ ExploreHistory \/ UNCHANGED vars
  BY <1>7, <1>a DEF LoadFileFails, BootDocumentFails, ExploreHistory, vars, loop, FlagsOK
<1>. QED  BY <1>2, <1>3, <1>4, <1>5, <1>6, <1>7 DEF Next

-----------------------------------------------------------------------------
(***************************************************************************)
(* Announcement.                                                           *)
(***************************************************************************)

\* A run announces whatever it leaves stale.
LEMMA RunAnnounces ==
    ASSUME NEW c \in Config, NEW pending, NEW flag, RunOn(c, pending, flag)
    PROVE  StaleIsAnnounced'
<1>. QED  BY RunOutcome DEF StaleIsAnnounced

LEMMA AnnouncedNext ==
    ASSUME "on" \notin Toggles, FlagsOK, StaleIsAnnounced, [Next]_vars
    PROVE  StaleIsAnnounced'
<1>a. config \in Config /\ autoRerun \in BOOLEAN /\ dirty \in BOOLEAN /\ timer \in BOOLEAN
  BY DEF FlagsOK
<1>1. ASSUME NEW c \in Config, Edit(c) PROVE StaleIsAnnounced'
  <2>1. CASE hasRunOnce
    <3>1. timer' \/ (dirty' /\ ~autoRerun')
      BY <1>1, <1>a, <2>1 DEF Edit, Scheduled, Flagged
    <3>. QED  BY <3>1 DEF StaleIsAnnounced
  <2>2. CASE ~hasRunOnce
    BY <1>1, <2>2 DEF Edit, hasRunOnce, Stale, StaleIsAnnounced
  <2>. QED  BY <2>1, <2>2
<1>2. ASSUME NEW c \in Config, LoadFile(c) \/ BootDocument(c) PROVE StaleIsAnnounced'
  BY <1>2, RunAnnounces DEF LoadFile, BootDocument, ApplyDocument
<1>3. CASE PressRun \/ BootRuns
  BY <1>3, <1>a, RunAnnounces DEF PressRun, BootRuns
<1>4. CASE TimerFires
  BY <1>4, <1>a, RunAnnounces DEF TimerFires
<1>5. ASSUME NEW next \in BOOLEAN, ToggleAutoRerun(next) PROVE StaleIsAnnounced'
  <2>1. autoRerun /\ ~next
    BY <1>5, <1>a DEF ToggleAutoRerun
  <2>2. Stale => timer \/ error # "none"
    BY <2>1 DEF StaleIsAnnounced
  <2>3. UNCHANGED <<config, trace, timer, error>>
    BY <1>5 DEF ToggleAutoRerun
  <2>. QED  BY <2>2, <2>3 DEF StaleIsAnnounced, Stale, hasRunOnce
<1>6. CASE LoadFileFails \/ BootDocumentFails
  BY <1>6 DEF LoadFileFails, BootDocumentFails, StaleIsAnnounced
<1>7. CASE ExploreHistory \/ UNCHANGED vars
  <2>1. UNCHANGED <<config, trace, timer, dirty, autoRerun, error>>
    BY <1>7 DEF ExploreHistory, vars, loop
  <2>. QED  BY <2>1 DEF StaleIsAnnounced, Stale, hasRunOnce
<1>. QED  BY <1>1, <1>2, <1>3, <1>4, <1>5, <1>6, <1>7 DEF Next

\* As long as auto-rerun is never switched back on, the user is told whenever
\* the trace on screen is not that of the settings on screen (the watching
\* effect, run() and setAutoRerun).
THEOREM Announced ==
    ASSUME "on" \notin Toggles
    PROVE  Spec => []StaleIsAnnounced
<1>1. Init => FlagsOK /\ StaleIsAnnounced
  BY FlagsInit DEF Init, StaleIsAnnounced, Stale, hasRunOnce
<1>2. FlagsOK /\ StaleIsAnnounced /\ [Next]_vars => (FlagsOK /\ StaleIsAnnounced)'
  BY FlagsNext, AnnouncedNext
<1>. QED  BY <1>1, <1>2, PTL DEF Spec

-----------------------------------------------------------------------------
(***************************************************************************)
(* The empty screen.                                                       *)
(***************************************************************************)

\* A run leaves a trace or an error.
LEMMA RunExplains ==
    ASSUME NEW c \in Config, NEW pending, NEW flag, RunOn(c, pending, flag)
    PROVE  EmptyIsExplained'
<1>1. ASSUME NEW d \in Config, Succeeds(d) PROVE trace' # NoTrace
  <2>1. d.run \in Runs
    BY DEF Config
  <2>. QED  BY <1>1, <2>1, NoTraceAssumption DEF Succeeds
<1>2. CASE Succeeds(c)
  BY <1>1, <1>2 DEF EmptyIsExplained
<1>3. ASSUME NEW r \in Rebuilt(c.run), Succeeds([run |-> r, fit |-> "ok"])
      PROVE  EmptyIsExplained'
  <2>1. [run |-> r, fit |-> "ok"] \in Config
    BY FitsAssumption DEF Config, Rebuilt
  <2>. QED  BY <1>1, <1>3, <2>1 DEF EmptyIsExplained
<1>4. CASE Fails(flag) \/ Fails(Flagged(flag))
  BY <1>4 DEF Fails, EmptyIsExplained
<1>. QED  BY <1>2, <1>3, <1>4, Zenon DEF RunOn

\* Once the page has dealt with its link, there is a trace on screen or an
\* error that says why there is none, whichever way the link decodes and
\* whatever is clicked meanwhile (onMount, run() and the load handlers).
THEOREM EmptyExplained == Spec => []EmptyIsExplained
<1>1. Init => FlagsOK /\ EmptyIsExplained
  BY FlagsInit, BootLinksAssumption DEF Init, EmptyIsExplained
<1>2. ASSUME FlagsOK, EmptyIsExplained, [Next]_vars PROVE EmptyIsExplained'
  <2>1. ASSUME NEW c \in Config, Edit(c) PROVE EmptyIsExplained'
    BY <1>2, <2>1 DEF Edit, EmptyIsExplained
  <2>2. ASSUME NEW c \in Config, LoadFile(c) \/ BootDocument(c) PROVE EmptyIsExplained'
    BY <2>2, RunExplains DEF LoadFile, BootDocument, ApplyDocument
  <2>3. CASE PressRun \/ TimerFires \/ BootRuns
    BY <1>2, <2>3, RunExplains DEF PressRun, TimerFires, BootRuns, FlagsOK
  <2>4. ASSUME NEW next \in BOOLEAN, ToggleAutoRerun(next) PROVE EmptyIsExplained'
    BY <1>2, <2>4 DEF ToggleAutoRerun, EmptyIsExplained
  <2>5. CASE LoadFileFails \/ BootDocumentFails
    BY <2>5 DEF LoadFileFails, BootDocumentFails, EmptyIsExplained
  <2>6. CASE ExploreHistory \/ UNCHANGED vars
    BY <1>2, <2>6 DEF ExploreHistory, vars, loop, EmptyIsExplained
  <2>. QED  BY <1>2, <2>1, <2>2, <2>3, <2>4, <2>5, <2>6 DEF Next
<1>3. FlagsOK /\ EmptyIsExplained /\ [Next]_vars => (FlagsOK /\ EmptyIsExplained)'
  BY <1>2, FlagsNext
<1>. QED  BY <1>1, <1>3, PTL DEF Spec

-----------------------------------------------------------------------------
(***************************************************************************)
(* Manual mode.                                                            *)
(***************************************************************************)

\* Only a page that has run schedules, and only in auto mode.
LEMMA ScheduledMeaning ==
    ASSUME NEW pending \in BOOLEAN, autoRerun \in BOOLEAN, pending => hasRunOnce
    PROVE  /\ Scheduled(pending) \in BOOLEAN
           /\ Scheduled(pending) => hasRunOnce /\ autoRerun
BY DEF Scheduled

\* run() never schedules in manual mode, and a page that has run stays one.
LEMMA RunSchedules ==
    ASSUME autoRerun \in BOOLEAN, NEW c \in Config, NEW pending \in BOOLEAN, NEW flag,
           pending => hasRunOnce, RunOn(c, pending, flag)
    PROVE  /\ ScheduledAfterRun'
           /\ ~autoRerun => /\ timer' => pending
                            /\ config' # c => ~timer'
<1>1. trace' = trace \/ trace' \in Runs
  <2>1. c.run \in Runs /\ \A r \in Rebuilt(c.run) : r \in Runs
    BY DEF Config, Rebuilt
  <2>. QED  BY <2>1, Zenon DEF RunOn, Succeeds, Fails
<1>2. hasRunOnce => hasRunOnce'
  BY <1>1, NoTraceAssumption DEF hasRunOnce
<1>3. (timer' = pending /\ config' = c) \/ timer' = Scheduled(pending)
  BY Zenon DEF RunOn
<1>4. timer' \in BOOLEAN /\ (timer' => hasRunOnce)
  BY <1>3, ScheduledMeaning
<1>5. ASSUME ~autoRerun PROVE (timer' => pending) /\ (config' # c => ~timer')
  BY <1>3, <1>5, ScheduledMeaning
<1>. QED  BY <1>2, <1>4, <1>5 DEF ScheduledAfterRun

LEMMA ScheduledNext ==
    ASSUME FlagsOK, ScheduledAfterRun, [Next]_vars
    PROVE  /\ ScheduledAfterRun'
           /\ ~autoRerun' => /\ timer' => timer
                             /\ config' # config => ~timer'
<1>. DEFINE Goal == /\ ScheduledAfterRun'
                    /\ ~autoRerun' => /\ timer' => timer
                                      /\ config' # config => ~timer'
<1>a. config \in Config /\ autoRerun \in BOOLEAN /\ timer \in BOOLEAN
  BY DEF FlagsOK
<1>b. timer => hasRunOnce
  BY DEF ScheduledAfterRun
<1>c. /\ Scheduled(timer) \in BOOLEAN
      /\ Scheduled(timer) => hasRunOnce /\ autoRerun
  BY <1>a, <1>b, ScheduledMeaning
<1>1. ASSUME NEW c \in Config, Edit(c) PROVE Goal
  <2>1. timer' = Scheduled(timer) /\ UNCHANGED <<autoRerun, trace>>
    BY <1>1 DEF Edit
  <2>. QED  BY <1>c, <2>1 DEF ScheduledAfterRun, hasRunOnce
<1>2. ASSUME NEW c \in Config, LoadFile(c) \/ BootDocument(c) PROVE Goal
  <2>1. RunOn(c, Scheduled(timer), Flagged(dirty)) /\ UNCHANGED autoRerun
    BY <1>2 DEF LoadFile, BootDocument, ApplyDocument
  <2>. QED  BY <1>a, <1>c, <2>1, RunSchedules
<1>3. CASE PressRun \/ BootRuns
  <2>1. RunOn(config, timer, dirty) /\ UNCHANGED autoRerun
    BY <1>3 DEF PressRun, BootRuns
  <2>. QED  BY <1>a, <1>b, <2>1, RunSchedules
<1>4. CASE TimerFires
  <2>1. RunOn(config, FALSE, dirty) /\ UNCHANGED autoRerun
    BY <1>4 DEF TimerFires
  <2>. QED  BY <1>a, <2>1, RunSchedules
<1>5. CASE UNCHANGED <<config, trace, timer>>
  BY <1>5, <1>b DEF ScheduledAfterRun, hasRunOnce
<1>6. ASSUME NEW next \in BOOLEAN, ToggleAutoRerun(next) PROVE Goal
  BY <1>5, <1>6 DEF ToggleAutoRerun
<1>7. CASE LoadFileFails \/ BootDocumentFails \/ ExploreHistory \/ UNCHANGED vars
  BY <1>5, <1>7 DEF LoadFileFails, BootDocumentFails, ExploreHistory, vars, loop
<1>. QED  BY <1>1, <1>2, <1>3, <1>4, <1>6, <1>7 DEF Next

\* Whichever way and however often the checkbox is clicked, manual mode
\* schedules no run, and the one that auto mode may have left behind does not
\* outlive the next change of the settings (the watching effect, setAutoRerun
\* and run()).
THEOREM ManualSchedules == Spec => ManualSchedulesNothing
<1>1. Init => FlagsOK /\ ScheduledAfterRun
  BY FlagsInit DEF Init, ScheduledAfterRun
<1>2. FlagsOK /\ ScheduledAfterRun /\ [Next]_vars => (FlagsOK /\ ScheduledAfterRun)'
  BY FlagsNext, ScheduledNext
<1>3. FlagsOK /\ ScheduledAfterRun /\ [Next]_vars =>
        [~autoRerun' => /\ timer' => timer
                        /\ config' # config => ~timer']_vars
  BY ScheduledNext
<1>. QED  BY <1>1, <1>2, <1>3, PTL DEF Spec, ManualSchedulesNothing

-----------------------------------------------------------------------------
(***************************************************************************)
(* The ring inside the loop.                                               *)
(***************************************************************************)

\* A run pushes its settings, or leaves the store alone.
LEMMA RunKeepsRing ==
    ASSUME RingInv, NEW c \in Config, NEW pending, NEW flag, RunOn(c, pending, flag)
    PROVE  RingInv'
<1>1. ASSUME UNCHANGED store PROVE RingInv'
  BY <1>1 DEF store, RingInv, RingShape, IdsConsecutive, DeltasLinkNeighbours,
              OnlyFirstHasNoDelta
<1>2. ASSUME NEW d \in Config, Succeeds(d) PROVE RingInv'
  <2>1. d.run \in Runs
    BY DEF Config
  <2>2. PushSnapshot(d.run)
    BY <1>2 DEF Succeeds
  <2>. QED  BY <2>1, <2>2, PushKeepsRing
<1>3. CASE Succeeds(c)
  BY <1>2, <1>3
<1>4. ASSUME NEW r \in Rebuilt(c.run), Succeeds([run |-> r, fit |-> "ok"]) PROVE RingInv'
  BY <1>2, <1>4, FitsAssumption DEF Config, Rebuilt
<1>5. CASE Fails(flag) \/ Fails(Flagged(flag))
  BY <1>1, <1>5 DEF Fails
<1>. QED  BY <1>3, <1>4, <1>5, Zenon DEF RunOn

LEMMA RingInLoopNext ==
    ASSUME FlagsOK, RingInv, [Next]_vars
    PROVE  RingInv'
<1>1. ASSUME UNCHANGED store PROVE RingInv'
  BY <1>1 DEF store, RingInv, RingShape, IdsConsecutive, DeltasLinkNeighbours,
              OnlyFirstHasNoDelta
<1>2. ASSUME NEW c \in Config, Edit(c) PROVE RingInv'
  BY <1>1, <1>2 DEF Edit
<1>3. ASSUME NEW c \in Config, LoadFile(c) \/ BootDocument(c) PROVE RingInv'
  BY <1>3, RunKeepsRing DEF LoadFile, BootDocument, ApplyDocument
<1>4. CASE PressRun \/ TimerFires \/ BootRuns
  BY <1>4, RunKeepsRing DEF PressRun, TimerFires, BootRuns, FlagsOK
<1>5. ASSUME NEW next \in BOOLEAN, ToggleAutoRerun(next) PROVE RingInv'
  BY <1>1, <1>5 DEF ToggleAutoRerun
<1>6. CASE LoadFileFails \/ BootDocumentFails
  BY <1>1, <1>6 DEF LoadFileFails, BootDocumentFails
<1>7. CASE ExploreHistory
  BY <1>7, ClearKeepsRing, HideKeepsRing, MaxIdAssumption DEF ExploreHistory
<1>8. CASE UNCHANGED vars
  BY <1>1, <1>8 DEF vars, store
<1>. QED  BY <1>2, <1>3, <1>4, <1>5, <1>6, <1>7, <1>8 DEF Next

\* Under every interleaving of runs, edits, loads, hides and clears the ring
\* stays a chain: the loop drives the store within its contract (pushSnapshot,
\* toggleSnapshotHidden, clearHistory).
THEOREM LoopHistoryLinked == Spec => []HistoryIsLinked
<1>1. Init => FlagsOK /\ RingInv
  BY FlagsInit, RingInit DEF Init
<1>2. FlagsOK /\ RingInv /\ [Next]_vars => (FlagsOK /\ RingInv)'
  BY FlagsNext, RingInLoopNext
<1>3. RingInv => HistoryIsLinked
  BY RingIsLinked
<1>. QED  BY <1>1, <1>2, <1>3, PTL DEF Spec


-----------------------------------------------------------------------------
(***************************************************************************)
(* The newest snapshot and the trace on screen.                            *)
(***************************************************************************)

\* The newest of the retained runs is the one just appended.
LEMMA LastAppended ==
    ASSUME NEW S, NEW h \in Seq(S), NEW s \in S
    PROVE  Appended(h, s) # <<>> /\ Last(Appended(h, s)) = s
<1>. DEFINE next == Append(h, s)
<1>1. /\ next \in Seq(S) /\ Len(next) = Len(h) + 1 /\ next # <<>>
      /\ next[Len(h) + 1] = s /\ Len(h) \in Nat
  BY AppendProperties, LenProperties
<1>2. Appended(h, s) = IF Len(next) > MaxHistory THEN Tail(next) ELSE next
  BY DEF Appended
<1>. HIDE DEF next
<1>3. CASE Len(next) > MaxHistory
  <2>1. /\ Tail(next) \in Seq(S) /\ Len(Tail(next)) = Len(h)
        /\ \A i \in 1..Len(h) : Tail(next)[i] = next[i + 1]
    BY <1>1, HeadTailProperties
  <2>2. Len(h) >= 1
    BY <1>1, <1>3, MaxHistoryAssumption
  <2>3. Tail(next) # <<>> /\ Tail(next)[Len(h)] = s
    BY <1>1, <2>1, <2>2, EmptySeq
  <2>. QED  BY <1>2, <1>3, <2>1, <2>3 DEF Last
<1>4. CASE ~(Len(next) > MaxHistory)
  BY <1>1, <1>2, <1>4 DEF Last
<1>. QED  BY <1>3, <1>4

\* The duplicate check compares parts for equality.
LEMMA SameRunIsEquivalence ==
    /\ \A a : SameRun(a, a)
    /\ \A a, b, c : SameRun(a, b) /\ SameRun(a, c) => SameRun(b, c)
<1>1. \A a, b : CompareSpecs(a, b) = {} <=> a = b
  BY DEF CompareSpecs
<1>. QED  BY <1>1 DEF SameRun

\* A run pushed to the store is the newest snapshot, or equal to it as far as
\* pushSnapshot compares.
LEMMA PushIsLatest ==
    ASSUME RingInv, NEW ran \in Runs, PushSnapshot(ran)
    PROVE  /\ history' # <<>> /\ SameRun(Last(history').ran, ran)
           /\ \/ Last(history').ran = ran
              \/ history # <<>> /\ SameRun(Last(history).ran, ran)
<1>1. CASE history # <<>> /\ IsIdenticalToPrev(Last(history), ran)
  BY <1>1 DEF PushSnapshot, store, IsIdenticalToPrev
<1>2. CASE ~(history # <<>> /\ IsIdenticalToPrev(Last(history), ran))
  <2>. DEFINE delta == DeltaFromLast(ran)
              s == Snapshot(ran, delta)
  <2>1. history' = Appended(history, s)
    BY <1>2 DEF PushSnapshot
  <2>2. delta \in Deltas \cup {NoDelta}
    <3>1. history # <<>> => Last(history) \in Retained
      BY EmptySeq, ElementOfSeq, LenProperties DEF Last, RingInv, RingShape
    <3>. QED  BY <3>1 DEF Retained, DeltaFromLast, Deltas
  <2>3. s \in Retained /\ s.ran = ran
    BY <2>2 DEF Snapshot, Retained, RingInv, RingShape
  <2>. HIDE DEF s
  <2>4. history \in Seq(Retained)
    BY DEF RingInv, RingShape
  <2>5. history' # <<>> /\ Last(history').ran = ran
    BY <2>1, <2>3, <2>4, LastAppended
  <2>. QED  BY <2>5, SameRunIsEquivalence
<1>. QED  BY <1>1, <1>2

\* run() shows the run that it pushes.
LEMMA RunIsLatest ==
    ASSUME RingInv, LatestIsShown, NEW c \in Config, NEW pending, NEW flag,
           RunOn(c, pending, flag)
    PROVE  LatestIsShown'
<1>1. ASSUME NEW d \in Config, Succeeds(d) PROVE LatestIsShown'
  <2>1. d.run \in Runs /\ trace' = d.run /\ PushSnapshot(d.run)
    BY <1>1 DEF Config, Succeeds
  <2>. QED  BY <2>1, PushIsLatest, NoTraceAssumption DEF LatestIsShown, hasRunOnce
<1>2. CASE Succeeds(c)
  BY <1>1, <1>2
<1>3. ASSUME NEW r \in Rebuilt(c.run), Succeeds([run |-> r, fit |-> "ok"]) PROVE LatestIsShown'
  BY <1>1, <1>3, FitsAssumption DEF Config, Rebuilt
<1>4. CASE Fails(flag) \/ Fails(Flagged(flag))
  BY <1>4 DEF Fails, store, LatestIsShown, hasRunOnce
<1>. QED  BY <1>2, <1>3, <1>4, Zenon DEF RunOn

\* Hiding a snapshot leaves the newest one what it was.
LEMMA HideKeepsLatest ==
    ASSUME RingInv, NEW id, ToggleSnapshotHidden(id), history # <<>>
    PROVE  Last(history').ran = Last(history).ran
<1>1. history \in Seq(Retained) /\ DOMAIN history = 1..Len(history) /\ Len(history) \in Nat
  BY LenProperties DEF RingInv, RingShape
<1>2. Len(history) \in 1..Len(history) /\ history[Len(history)] \in Retained
  BY <1>1, EmptySeq, ElementOfSeq
<1>. DEFINE flip(i) == IF history[i].id = id
                       THEN [history[i] EXCEPT !.hidden = ~@] ELSE history[i]
<1>3. history' = [i \in 1..Len(history) |-> flip(i)]
  BY <1>1 DEF ToggleSnapshotHidden
<1>4. \A i \in 1..Len(history) : flip(i) \in Retained
  <2>. SUFFICES ASSUME NEW i \in 1..Len(history) PROVE flip(i) \in Retained
    OBVIOUS
  <2>1. history[i] \in Retained
    BY <1>1, ElementOfSeq
  <2>2. [history[i] EXCEPT !.hidden = ~@] \in Retained
    BY <2>1 DEF Retained
  <2>. QED  BY <2>1, <2>2
<1>5. history'[Len(history)] = flip(Len(history)) /\ Len(history') = Len(history)
  <2>. HIDE DEF flip
  <2>. QED  BY <1>1, <1>2, <1>3, <1>4, SeqDef
<1>6. flip(Len(history)).ran = history[Len(history)].ran
  BY <1>2 DEF Retained
<1>. QED  BY <1>5, <1>6 DEF Last

LEMMA LatestNext ==
    ASSUME FlagsOK, RingInv, LatestIsShown, [Next]_vars
    PROVE  LatestIsShown'
<1>1. ASSUME UNCHANGED store, UNCHANGED trace PROVE LatestIsShown'
  BY <1>1 DEF store, LatestIsShown, hasRunOnce
<1>2. ASSUME NEW c \in Config, Edit(c) PROVE LatestIsShown'
  BY <1>1, <1>2 DEF Edit
<1>3. ASSUME NEW c \in Config, LoadFile(c) \/ BootDocument(c) PROVE LatestIsShown'
  BY <1>3, RunIsLatest DEF LoadFile, BootDocument, ApplyDocument
<1>4. CASE PressRun \/ TimerFires \/ BootRuns
  BY <1>4, RunIsLatest DEF PressRun, TimerFires, BootRuns, FlagsOK
<1>5. ASSUME NEW next \in BOOLEAN, ToggleAutoRerun(next) PROVE LatestIsShown'
  BY <1>1, <1>5 DEF ToggleAutoRerun
<1>6. CASE LoadFileFails \/ BootDocumentFails
  BY <1>1, <1>6 DEF LoadFileFails, BootDocumentFails
<1>7. ASSUME ClearHistory, UNCHANGED loop PROVE LatestIsShown'
  BY <1>7 DEF ClearHistory, LatestIsShown
<1>8. ASSUME NEW id, ToggleSnapshotHidden(id), UNCHANGED loop PROVE LatestIsShown'
  <2>1. CASE history = <<>>
    BY <1>8, <2>1 DEF ToggleSnapshotHidden, LatestIsShown
  <2>2. CASE history # <<>>
    BY <1>8, <2>2, HideKeepsLatest DEF loop, LatestIsShown, hasRunOnce
  <2>. QED  BY <2>1, <2>2
<1>9. CASE UNCHANGED vars
  BY <1>1, <1>9 DEF vars, store
<1>. QED  BY <1>2, <1>3, <1>4, <1>5, <1>6, <1>7, <1>8, <1>9 DEF Next, ExploreHistory

\* run() keeps what it shows, unless the newest snapshot already stands for it.
LEMMA RunPushes ==
    ASSUME RingInv, LatestIsShown, NEW c \in Config, NEW pending, NEW flag,
           RunOn(c, pending, flag), trace' # trace,
           hasRunOnce => ~SameRun(trace, trace')
    PROVE  history' # <<>> /\ Last(history').ran = trace'
<1>. DEFINE Goal == history' # <<>> /\ Last(history').ran = trace'
<1>1. ASSUME NEW d \in Config, Succeeds(d) PROVE Goal
  <2>1. d.run \in Runs /\ trace' = d.run /\ PushSnapshot(d.run)
    BY <1>1 DEF Config, Succeeds
  <2>2. ~(history # <<>> /\ SameRun(Last(history).ran, trace'))
    BY SameRunIsEquivalence DEF LatestIsShown
  <2>. QED  BY <2>1, <2>2, PushIsLatest
<1>2. CASE Succeeds(c)
  BY <1>1, <1>2
<1>3. ASSUME NEW r \in Rebuilt(c.run), Succeeds([run |-> r, fit |-> "ok"]) PROVE Goal
  BY <1>1, <1>3, FitsAssumption DEF Config, Rebuilt
<1>4. CASE Fails(flag) \/ Fails(Flagged(flag))
  BY <1>4 DEF Fails
<1>. QED  BY <1>2, <1>3, <1>4, Zenon DEF RunOn

LEMMA PushedNext ==
    ASSUME FlagsOK, RingInv, LatestIsShown, [Next]_vars, trace' # trace,
           hasRunOnce => ~SameRun(trace, trace')
    PROVE  history' # <<>> /\ Last(history').ran = trace'
<1>1. ASSUME NEW c \in Config, LoadFile(c) \/ BootDocument(c)
      PROVE  history' # <<>> /\ Last(history').ran = trace'
  BY <1>1, RunPushes DEF LoadFile, BootDocument, ApplyDocument
<1>2. CASE PressRun \/ TimerFires \/ BootRuns
  BY <1>2, RunPushes DEF PressRun, TimerFires, BootRuns, FlagsOK
<1>3. ~UNCHANGED vars
  BY DEF vars
<1>4. ASSUME NEW c \in Config PROVE ~Edit(c)
  BY DEF Edit
<1>5. ASSUME NEW next \in BOOLEAN PROVE ~ToggleAutoRerun(next)
  BY DEF ToggleAutoRerun
<1>6. ~LoadFileFails /\ ~BootDocumentFails /\ ~ExploreHistory
  BY DEF LoadFileFails, BootDocumentFails, ExploreHistory, loop
<1>. QED  BY <1>1, <1>2, <1>3, <1>4, <1>5, <1>6 DEF Next

\* A run that the duplicate check tells from the run shown before it becomes
\* the newest snapshot, with everything that was run; that holds because the
\* newest snapshot always passes for the run on screen (App.tsx, pushSnapshot).
THEOREM ChangesPushed == Spec => ChangesArePushed
<1>1. Init => FlagsOK /\ RingInv /\ LatestIsShown
  BY FlagsInit, RingInit DEF Init, HistoryInit, LatestIsShown
<1>2. FlagsOK /\ RingInv /\ LatestIsShown /\ [Next]_vars => (FlagsOK /\ RingInv /\ LatestIsShown)'
  BY FlagsNext, RingInLoopNext, LatestNext
<1>3. FlagsOK /\ RingInv /\ LatestIsShown /\ [Next]_vars =>
        [trace' # trace /\ (hasRunOnce => ~SameRun(trace, trace'))
           => history' # <<>> /\ Last(history').ran = trace']_vars
  BY PushedNext
<1>. QED  BY <1>1, <1>2, <1>3, PTL DEF Spec, ChangesArePushed

=============================================================================
