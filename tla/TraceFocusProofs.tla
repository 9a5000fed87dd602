------------------------- MODULE TraceFocusProofs --------------------------
(***************************************************************************)
(* Proofs about TraceFocus, for any set of traces, steps and groups: the   *)
(* scrubber and the editor stay one view whatever traces arrive.           *)
(***************************************************************************)
EXTENDS TraceFocus, SequenceTheorems, FiniteSetTheorems, WellFoundedInduction, TLAPS

-----------------------------------------------------------------------------
(***************************************************************************)
(* First positions.                                                        *)
(***************************************************************************)

\* A nonempty set of positions of a sequence has a least one.
LEMMA LeastPosition ==
    ASSUME NEW n \in Nat, NEW T, T \subseteq 0..n, T # {}
    PROVE  \E p \in T : \A q \in T : p <= q
  <1> DEFINE Below == {0..(p - 1) : p \in T}
             R == StrictSubsetOrdering(0..n)
  <1>1. Below \subseteq SUBSET (0..n) /\ Below # {}
    <2>1. \A p \in T : 0..(p - 1) \subseteq 0..n
      OBVIOUS
    <2>2. Below # {}
      OBVIOUS
    <2> QED
      BY <2>1, <2>2
  <1>2. IsWellFoundedOn(R, SUBSET (0..n))
    <2>1. IsFiniteSet(0..n)
      BY FS_Interval
    <2> QED
      BY <2>1, FS_FiniteSubsetsOfFinite, FS_StrictSubsetOrderingWellFounded
  <1>3. PICK b \in Below : \A v \in Below : ~(<<v, b>> \in R)
    <2> HIDE DEF Below, R
    <2> QED
      BY <1>1, <1>2, WFMin
  <1>4. PICK p \in T : b = 0..(p - 1)
    OBVIOUS
  <1>5. ASSUME NEW q \in T, q < p PROVE FALSE
    <2>1. 0..(q - 1) \in Below /\ 0..(q - 1) \subseteq b /\ 0..(q - 1) # b
      BY <1>4, <1>5
    <2>2. <<0..(q - 1), b>> \in R
      BY <1>1, <2>1 DEF StrictSubsetOrdering
    <2> QED
      BY <1>3, <2>1, <2>2
  <1> QED
    BY <1>5

\* Where a frame satisfies a condition, the first one does, and lies in the trace.
LEMMA MinProperties ==
    ASSUME NEW n \in Nat, NEW T, T \subseteq 1..n, T # {}
    PROVE  Min(T) \in T /\ \A q \in T : Min(T) <= q
  <1>1. \E p \in T : \A q \in T : p <= q
    <2>1. T \subseteq 0..n
      OBVIOUS
    <2> QED
      BY <2>1, LeastPosition
  <1> QED
    <2>1. Min(T) = CHOOSE p \in T : \A q \in T : p =< q
      BY DEF Min
    <2> QED
      BY <1>1, <2>1

\* The first frame of a step: one that shows it, or none.
FirstOf(t, id) == FirstFrame(t, LAMBDA f : f.step = id)

LEMMA FirstOfStep ==
    ASSUME NEW t \in Seq(Frame), NEW id
    PROVE  /\ id \in StepsOf(t) => /\ FirstOf(t, id) \in 0..(Len(t) - 1)
                                   /\ FrameAt(t, FirstOf(t, id)).step = id
           /\ id \notin StepsOf(t) => FirstOf(t, id) = -1
  <1> DEFINE I == {i \in 1..Len(t) : t[i].step = id}
  <1>1. Len(t) \in Nat /\ DOMAIN t = 1..Len(t)
    BY LenProperties
  <1>2. FirstOf(t, id) = (IF I # {} THEN Min(I) ELSE 0) - 1
    BY DEF FirstOf, FirstFrame, SelectInSeq
  <1>3. id \in StepsOf(t) <=> I # {}
    BY <1>1 DEF StepsOf
  <1>4. I # {} => Min(I) \in I
    BY <1>1, MinProperties
  <1> HIDE DEF I
  <1>5. I # {} => Min(I) \in 1..Len(t) /\ t[Min(I)].step = id
    BY <1>4 DEF I
  <1> QED
    BY <1>1, <1>2, <1>3, <1>5 DEF FrameAt

\* The frame on which a new trace opens lies in it.
LEMMA LandingType ==
    ASSUME TypeOK, NEW t \in Traces
    PROVE  /\ LandingFrame(t) \in Nat
           /\ t # <<>> => LandingFrame(t) < Len(t)
  <1> DEFINE prev == FrameAt(trace, frameIndex)
             old == FirstFrame(t, LAMBDA f : f.step = prev.step /\ f.pass = prev.pass)
             new == FirstOf(t, selected)
             I == {i \in 1..Len(t) : t[i].step = prev.step /\ t[i].pass = prev.pass}
  <1>1. t \in Seq(Frame) /\ Len(t) \in Nat /\ (t # <<>> => Len(t) > 0)
    BY TracesAssumption, LenProperties, EmptySeq
  <1>2. old = (IF I # {} THEN Min(I) ELSE 0) - 1
    BY DEF FirstFrame, SelectInSeq
  <1>3. I # {} => Min(I) \in I
    BY <1>1, MinProperties
  <1>4. old \in -1..(Len(t) - 1)
    BY <1>1, <1>2, <1>3
  <1> HIDE DEF new
  <1>5. new \in -1..(Len(t) - 1)
    <2>1. \/ FirstOf(t, selected) \in 0..(Len(t) - 1)
          \/ FirstOf(t, selected) = -1
      BY <1>1, FirstOfStep
    <2> QED
      BY <1>1, <2>1 DEF new
  <1>6. /\ t # <<>> => Clamp(frameIndex, t) \in 0..(Len(t) - 1)
    BY <1>1 DEF Clamp, TypeOK
  <1> HIDE DEF old, new, prev
  <1>7. LandingFrame(t) = LET found == IF selected # NoStep THEN new
                                       ELSE IF trace # <<>> THEN old ELSE -1
                          IN  IF trace = NoTrace \/ t = <<>> THEN 0
                              ELSE IF found >= 0 THEN found ELSE Clamp(frameIndex, t)
    BY DEF LandingFrame, FirstOf, old, new, prev
  <1> QED
    BY <1>1, <1>4, <1>5, <1>6, <1>7

\* A new trace that runs the selected step opens on it.
LEMMA LandsOnSelected ==
    ASSUME TypeOK, NEW t \in Traces, trace # NoTrace, selected \in StepsOf(t)
    PROVE  FrameAt(t, LandingFrame(t)).step = selected
  <1> DEFINE new == FirstOf(t, selected)
  <1>1. t \in Seq(Frame) /\ DOMAIN t = 1..Len(t)
    BY TracesAssumption, LenProperties
  <1>2. \A i \in 1..Len(t) : t[i].step \in Steps
    <2>1. \A i \in 1..Len(t) : t[i] \in Frame
      BY <1>1, ElementOfSeq
    <2> QED
      BY <2>1 DEF Frame
  <1>3. selected \in Steps /\ t # <<>>
    BY <1>1, <1>2, EmptySeq DEF StepsOf
  <1>4. new \in 0..(Len(t) - 1) /\ FrameAt(t, new).step = selected
    BY <1>1, FirstOfStep
  <1>5. LandingFrame(t) = new
    BY <1>3, <1>4, NoStepAssumption DEF LandingFrame, FirstOf
  <1> QED
    BY <1>4, <1>5

-----------------------------------------------------------------------------
(***************************************************************************)
(* One view.                                                               *)
(***************************************************************************)

LEMMA FocusInit == Init => EditorAndScrubberAgree
  BY DEF Init, EditorAndScrubberAgree, TypeOK, EditorIsBound, EditorMatchesScrubber,
         HasFrames

\* Every position of a trace holds a frame of some step.
LEMMA FrameType ==
    ASSUME NEW t \in Traces
    PROVE  /\ Len(t) \in Nat /\ (t # <<>> => Len(t) > 0) /\ (t = <<>> => Len(t) = 0)
           /\ StepsOf(t) \subseteq Steps
           /\ \A n \in 0..(Len(t) - 1) : FrameAt(t, n).step \in StepsOf(t)
  <1>1. t \in Seq(Frame) /\ DOMAIN t = 1..Len(t) /\ Len(t) \in Nat
    BY TracesAssumption, LenProperties
  <1>2. \A i \in 1..Len(t) : t[i].step \in Steps
    <2>1. \A i \in 1..Len(t) : t[i] \in Frame
      BY <1>1, ElementOfSeq
    <2> QED
      BY <2>1 DEF Frame
  <1>3. (t # <<>> => Len(t) > 0) /\ (t = <<>> => Len(t) = 0)
    BY <1>1, EmptySeq
  <1>4. \A n \in 0..(Len(t) - 1) : FrameAt(t, n).step \in StepsOf(t)
    <2> SUFFICES ASSUME NEW n \in 0..(Len(t) - 1)
                 PROVE  FrameAt(t, n).step \in StepsOf(t)
      OBVIOUS
    <2>1. n + 1 \in DOMAIN t
      BY <1>1
    <2> QED
      BY <2>1 DEF FrameAt, StepsOf
  <1> QED
    BY <1>1, <1>2, <1>3, <1>4 DEF StepsOf

\* A new trace.
LEMMA SetTraceAgrees ==
    ASSUME EditorAndScrubberAgree, NEW t \in Traces, SetTrace(t)
    PROVE  EditorAndScrubberAgree'
  <1> DEFINE land == LandingFrame(t)
  <1>1. TypeOK /\ t # NoTrace
    BY NoTraceAssumption DEF EditorAndScrubberAgree
  <1>2. trace' = t /\ frameIndex' = land
    BY DEF SetTrace
  <1>3. land \in Nat /\ (t # <<>> => land \in 0..(Len(t) - 1)) /\ (t = <<>> => land = 0)
    <2>1. land \in Nat /\ (t # <<>> => land < Len(t)) /\ Len(t) \in Nat
      BY <1>1, LandingType, FrameType
    <2>2. t = <<>> => land = 0
      BY DEF LandingFrame
    <2> HIDE DEF land
    <2> QED
      BY <2>1, <2>2
  <1>4. trace # NoTrace /\ selected \in StepsOf(t) => FrameAt(t, land).step = selected
    BY <1>1, LandsOnSelected
  <1> HIDE DEF land
  <1>5. CASE t = <<>>
    <2>1. StepsOf(t) = {} /\ selected' = selected
      BY <1>5, EmptySeq, LenProperties DEF StepsOf, SetTrace
    <2> QED
      BY <1>1, <1>2, <1>3, <1>5, <2>1
         DEF EditorAndScrubberAgree, TypeOK, EditorIsBound, EditorMatchesScrubber, HasFrames
  <1>6. CASE t # <<>>
    <2>1. FrameAt(t, land).step \in Steps
      BY <1>3, <1>6, FrameType
    <2>2. selected' = FrameAt(t, land).step
      BY <1>4, <1>6 DEF SetTrace, SurvivesIn, land
    <2> QED
      BY <1>1, <1>2, <1>3, <1>6, <2>1, <2>2, FrameType, NoStepAssumption
         DEF EditorAndScrubberAgree, TypeOK, EditorIsBound, EditorMatchesScrubber, HasFrames
  <1> QED
    BY <1>5, <1>6

\* Scrubbing, by any distance.
LEMMA SetFrameAgrees ==
    ASSUME EditorAndScrubberAgree, NEW n \in Int, SetFrame(n)
    PROVE  EditorAndScrubberAgree'
  <1>1. TypeOK /\ trace \in Traces /\ trace' = trace
    BY DEF EditorAndScrubberAgree, TypeOK, SetFrame
  <1>2. CASE trace = <<>>
    BY <1>1, <1>2
       DEF SetFrame, EditorAndScrubberAgree, TypeOK, EditorIsBound, EditorMatchesScrubber,
           HasFrames, StepsOf
  <1>3. CASE trace # <<>>
    <2>1. frameIndex' \in 0..(Len(trace) - 1)
      BY <1>1, <1>3, FrameType DEF SetFrame, Clamp
    <2>2. selected' = FrameAt(trace, frameIndex').step
      BY <1>3 DEF SetFrame
    <2>3. selected' \in Steps
      BY <1>1, <2>1, <2>2, FrameType
    <2>4. Len(trace) \in Nat /\ trace # NoTrace
      BY <1>1, FrameType, NoTraceAssumption
    <2>5. TypeOK'
      BY <1>1, <2>1, <2>3, <2>4 DEF TypeOK
    <2>6. EditorIsBound' /\ EditorMatchesScrubber'
      BY <1>1, <2>2, <2>3, NoStepAssumption DEF EditorIsBound, EditorMatchesScrubber, FrameAt
    <2> QED
      BY <2>5, <2>6 DEF EditorAndScrubberAgree
  <1> QED
    BY <1>2, <1>3

\* Selecting a step, whether the trace ran it or not.
LEMMA SelectAgrees ==
    ASSUME EditorAndScrubberAgree, NEW id \in Steps, SetSelectedStepId(id)
    PROVE  EditorAndScrubberAgree'
  <1>1. TypeOK /\ trace' = trace /\ selected' = id /\ id # NoStep
    BY NoStepAssumption DEF EditorAndScrubberAgree, SetSelectedStepId
  <1>2. CASE trace # NoTrace /\ id \in StepsOf(trace)
    <2>1. trace \in Traces /\ trace \in Seq(Frame)
      BY <1>1, <1>2, TracesAssumption DEF TypeOK
    <2>2. frameIndex' = FirstOf(trace, id)
      BY <1>2 DEF SetSelectedStepId, FirstOf
    <2>3. frameIndex' \in 0..(Len(trace) - 1) /\ FrameAt(trace, frameIndex').step = id
      BY <1>2, <2>1, <2>2, FirstOfStep
    <2> QED
      BY <1>1, <1>2, <2>1, <2>3, FrameType
         DEF EditorAndScrubberAgree, TypeOK, EditorIsBound, EditorMatchesScrubber
  <1>3. CASE ~(trace # NoTrace /\ id \in StepsOf(trace))
    <2>1. frameIndex' = frameIndex
      BY <1>3 DEF SetSelectedStepId
    <2> QED
      BY <1>1, <1>3, <2>1
         DEF EditorAndScrubberAgree, TypeOK, EditorIsBound, EditorMatchesScrubber
  <1> QED
    BY <1>2, <1>3

\* The boundaries of groups are positions of the trace, and none was skipped.
LEMMA ForwardProperties ==
    ASSUME TypeOK, HasFrames
    PROVE  /\ ForwardBoundary(trace, frameIndex) \in 0..(Len(trace) - 1)
           /\ \A i \in (frameIndex + 1)..(ForwardBoundary(trace, frameIndex) - 1) :
                 FrameAt(trace, i).group = FrameAt(trace, frameIndex).group
  <1> DEFINE beyond == {i \in (frameIndex + 1)..(Len(trace) - 1) :
                           FrameAt(trace, i).group # FrameAt(trace, frameIndex).group}
             b == CHOOSE i \in beyond : \A j \in beyond : i <= j
  <1>1. Len(trace) \in Nat /\ Len(trace) > 0 /\ frameIndex \in Nat
    BY FrameType DEF HasFrames, TypeOK
  <1>2. beyond # {} => b \in beyond /\ \A j \in beyond : b <= j
    <2>1. beyond \subseteq 0..Len(trace)
      BY <1>1
    <2> HIDE DEF beyond
    <2>2. beyond # {} => \E i \in beyond : \A j \in beyond : i <= j
      BY <1>1, <2>1, LeastPosition
    <2> QED
      BY <2>2
  <1>3. ForwardBoundary(trace, frameIndex) = IF beyond = {} THEN Len(trace) - 1 ELSE b
    BY DEF ForwardBoundary
  <1> HIDE DEF b
  <1> QED
    BY <1>1, <1>2, <1>3

LEMMA BackwardType ==
    ASSUME TypeOK, HasFrames
    PROVE  BackwardBoundary(trace, frameIndex) \in Int
  <1> DEFINE before == {i \in 0..(frameIndex - 1) :
                           FrameAt(trace, i).group # FrameAt(trace, frameIndex).group}
             mirror == {frameIndex - i : i \in before}
             b == CHOOSE i \in before : \A j \in before : j <= i
  <1>1. frameIndex \in Nat
    BY DEF TypeOK
  <1>2. before # {} => \E i \in before : \A j \in before : j <= i
    <2>1. mirror \subseteq 0..frameIndex /\ (before # {} => mirror # {})
      BY <1>1
    <2>2. ASSUME before # {} PROVE \E m \in mirror : \A q \in mirror : m <= q
      <3> HIDE DEF before, mirror
      <3> QED
        BY <1>1, <2>1, <2>2, LeastPosition
    <2>3. ASSUME before # {} PROVE \E i \in before : \A j \in before : j <= i
      <3>1. PICK m \in mirror : \A q \in mirror : m <= q
        BY <2>2, <2>3
      <3>2. PICK i \in before : m = frameIndex - i
        BY <3>1
      <3>3. \A j \in before : frameIndex - i <= frameIndex - j
        BY <3>1, <3>2
      <3>4. before \subseteq Nat
        BY <1>1
      <3> QED
        BY <1>1, <3>2, <3>3, <3>4
    <2> QED
      BY <2>3
  <1>3. before # {} => b \in before
    <2> HIDE DEF before
    <2> QED
      BY <1>2
  <1>4. BackwardBoundary(trace, frameIndex) = IF before = {} THEN 0 ELSE b
    BY DEF BackwardBoundary
  <1> HIDE DEF b
  <1> QED
    BY <1>1, <1>3, <1>4

LEMMA FocusNext == EditorAndScrubberAgree /\ [Next]_vars => EditorAndScrubberAgree'
  <1> SUFFICES ASSUME EditorAndScrubberAgree, [Next]_vars PROVE EditorAndScrubberAgree'
    OBVIOUS
  <1>t. TypeOK
    BY DEF EditorAndScrubberAgree
  <1>1. CASE \E t \in Traces : SetTrace(t)
    BY <1>1, SetTraceAgrees
  <1>2. CASE \E id \in Steps : SetSelectedStepId(id)
    BY <1>2, SelectAgrees
  <1>3. CASE Scrub
    <2>1. Len(trace) \in Nat
      BY <1>t, <1>3, FrameType DEF Scrub, TypeOK
    <2>2. PICK n \in -1..Len(trace) : SetFrame(n)
      BY <1>3 DEF Scrub
    <2>3. n \in Int
      BY <2>1
    <2> QED
      BY <2>2, <2>3, SetFrameAgrees
  <1>4. CASE PageDown
    <2>1. ForwardBoundary(trace, frameIndex) \in Int
      BY <1>t, <1>4, ForwardProperties, FrameType DEF PageDown
    <2> QED
      BY <1>4, <2>1, SetFrameAgrees DEF PageDown
  <1>5. CASE PageUp
    BY <1>t, <1>5, BackwardType, SetFrameAgrees DEF PageUp
  <1>6. CASE UNCHANGED vars
    BY <1>6 DEF vars, EditorAndScrubberAgree, TypeOK, EditorIsBound, EditorMatchesScrubber,
                HasFrames
  <1> QED
    BY <1>1, <1>2, <1>3, <1>4, <1>5, <1>6 DEF Next

\* For every set of traces, and every way of rerunning, scrubbing, paging and
\* selecting: the scrubber is on a frame of the trace, and the editor is bound
\* to the step shown there (trace.ts, keyboard.ts).
THEOREM FocusAgrees == Spec => []EditorAndScrubberAgree
  BY FocusInit, FocusNext, PTL DEF Spec

\* A new trace that still runs the selected step keeps it, and opens on it
\* (setTrace).
THEOREM FocusKept == Spec => NewTraceKeepsFocus
  <1>1. EditorAndScrubberAgree /\ [Next]_vars =>
           [\A t \in Traces :
              SetTrace(t) /\ trace # NoTrace /\ selected \in StepsOf(t) =>
                 selected' = selected /\ FrameAt(t, frameIndex').step = selected]_vars
    BY LandsOnSelected DEF EditorAndScrubberAgree, SetTrace, SurvivesIn
  <1> QED
    BY <1>1, FocusAgrees, PTL DEF Spec, NewTraceKeepsFocus

\* PageDown stops at the first frame of another group (findGroupBoundary).
THEOREM PagesByGroup == Spec => PageDownSkipsNoGroup
  <1>1. EditorAndScrubberAgree /\ [Next]_vars =>
           [PageDown => \A i \in (frameIndex + 1)..(frameIndex' - 1) :
                           FrameAt(trace, i).group = FrameAt(trace, frameIndex).group]_vars
    <2> SUFFICES ASSUME EditorAndScrubberAgree, PageDown
                 PROVE  \A i \in (frameIndex + 1)..(frameIndex' - 1) :
                           FrameAt(trace, i).group = FrameAt(trace, frameIndex).group
      OBVIOUS
    <2>1. TypeOK /\ HasFrames /\ trace \in Traces /\ trace # <<>>
      BY DEF EditorAndScrubberAgree, PageDown, HasFrames, TypeOK
    <2>2. ForwardBoundary(trace, frameIndex) \in 0..(Len(trace) - 1) /\ Len(trace) \in Nat
      BY <2>1, ForwardProperties, FrameType
    <2>3. frameIndex' = ForwardBoundary(trace, frameIndex)
      BY <2>1, <2>2 DEF PageDown, SetFrame, Clamp
    <2> QED
      BY <2>1, <2>3, ForwardProperties
  <1> QED
    BY <1>1, FocusAgrees, PTL DEF Spec, PageDownSkipsNoGroup

=============================================================================
