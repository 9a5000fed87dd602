----------------------------- MODULE TraceFocus -----------------------------
(***************************************************************************)
(* The trace store (src/ui/stores/trace.ts) and the keys that scrub it     *)
(* (src/ui/stores/keyboard.ts): which frame of the trace is shown, which   *)
(* step the editor is bound to, and how both survive a new trace.          *)
(*                                                                         *)
(* A frame is identified by its step and by the pass of the loop that      *)
(* emitted it; canonicalStepId keeps the step only.  Frame positions count *)
(* from 0 as in the code.                                                  *)
(***************************************************************************)
EXTENDS Integers, Sequences, SequencesExt

CONSTANTS
    Steps,    \* leaves of the specs that are run
    Passes,   \* loop passes a frame's suffix can name
    Groups,   \* top-level groups, path[0]
    Traces,   \* the traces that runs produce
    NoTrace, NoStep  \* null

Frame == [step : Steps, pass : Passes, group : Groups]

ASSUME TracesAssumption == Traces \subseteq Seq(Frame)
ASSUME NoTraceAssumption == NoTrace \notin Traces
ASSUME NoStepAssumption == NoStep \notin Steps

VARIABLES
    trace,       \* currentTrace
    frameIndex,  \* the scrubber
    selected     \* selectedStepId: the step bound to the editor

vars == <<trace, frameIndex, selected>>

FrameAt(t, n) == t[n + 1]
StepsOf(t) == {t[i].step : i \in DOMAIN t}

\* Positions of the frames of t that satisfy Is(_); -1 when there is none.
FirstFrame(t, Is(_)) == SelectInSeq(t, Is) - 1

Clamp(n, t) == IF n >= Len(t) THEN Len(t) - 1 ELSE n

-----------------------------------------------------------------------------

Init == trace = NoTrace /\ frameIndex = 0 /\ selected = NoStep

\* Mutant of LandingFrame: the anchor is the scrubber's own frame.
LandingByFrame(t) ==
    LET prev == FrameAt(trace, frameIndex)
        found == FirstFrame(t, LAMBDA f : f.step = prev.step /\ f.pass = prev.pass)
    IN  IF trace = NoTrace \/ t = <<>> THEN 0
        ELSE IF trace # <<>> /\ found >= 0 THEN found
        ELSE Clamp(frameIndex, t)

\* Where the scrubber lands in the new trace t: on the first frame of the
\* selected step, else at the old position.  Only without a selection is the
\* old frame looked up by its full id.
LandingFrame(t) ==
    LET prev == FrameAt(trace, frameIndex)
        found == IF selected # NoStep
                 THEN FirstFrame(t, LAMBDA f : f.step = selected)
                 ELSE IF trace # <<>>
                 THEN FirstFrame(t, LAMBDA f : f.step = prev.step /\ f.pass = prev.pass)
                 ELSE -1
    IN  IF trace = NoTrace \/ t = <<>> THEN 0
        ELSE IF found >= 0 THEN found
        ELSE Clamp(frameIndex, t)

\* The selection survives a step of the new trace; it is replaced by the
\* landed step otherwise, unless the new trace has no frame at all.
SurvivesIn(t) == trace # NoTrace /\ selected \in StepsOf(t)

\* Mutant of SetTrace: the scrubber stays.
SetTraceUnclamped(t) == trace' = t /\ UNCHANGED <<frameIndex, selected>>

SetTrace(t) ==
    /\ trace' = t
    /\ frameIndex' = LandingFrame(t)
    /\ selected' = IF SurvivesIn(t) \/ t = <<>> THEN selected
                   ELSE FrameAt(t, LandingFrame(t)).step

\* Scrubbing moves the selection along.
SetFrame(n) ==
    /\ trace # NoTrace
    /\ frameIndex' = IF n < 0 \/ trace = <<>> THEN 0 ELSE Clamp(n, trace)
    /\ selected' = IF trace = <<>> THEN selected ELSE FrameAt(trace, frameIndex').step
    /\ UNCHANGED trace

\* A leaf of the graph is clicked: a freshly dropped one has no frame.
SetSelectedStepId(id) ==
    LET found == FirstFrame(trace, LAMBDA f : f.step = id)
    IN  /\ selected' = id
        /\ frameIndex' = IF trace # NoTrace /\ id \in StepsOf(trace)
                         THEN found ELSE frameIndex
        /\ UNCHANGED trace

\* Buttons, the slider, a row of the step list, arrow keys, Home and End.
Scrub ==
    /\ trace # NoTrace
    /\ \E n \in -1..Len(trace) : SetFrame(n)

\* Mutant of ForwardBoundary: one group too far.
ForwardBoundaryPast(t, n) ==
    LET beyond == {i \in (n + 2)..(Len(t) - 1) : FrameAt(t, i).group # FrameAt(t, n).group}
    IN  IF beyond = {} THEN Len(t) - 1
        ELSE CHOOSE i \in beyond : \A j \in beyond : i <= j

\* findGroupBoundary: the nearest frame of another group, else the edge.
ForwardBoundary(t, n) ==
    LET beyond == {i \in (n + 1)..(Len(t) - 1) : FrameAt(t, i).group # FrameAt(t, n).group}
    IN  IF beyond = {} THEN Len(t) - 1
        ELSE CHOOSE i \in beyond : \A j \in beyond : i <= j

BackwardBoundary(t, n) ==
    LET before == {i \in 0..(n - 1) : FrameAt(t, i).group # FrameAt(t, n).group}
    IN  IF before = {} THEN 0
        ELSE CHOOSE i \in before : \A j \in before : j <= i

HasFrames == trace # NoTrace /\ trace # <<>>

PageDown == HasFrames /\ SetFrame(ForwardBoundary(trace, frameIndex))
PageUp == HasFrames /\ SetFrame(BackwardBoundary(trace, frameIndex))

Next ==
    \/ \E t \in Traces : SetTrace(t)
    \/ \E id \in Steps : SetSelectedStepId(id)
    \/ Scrub \/ PageDown \/ PageUp

Spec == Init /\ [][Next]_vars

-----------------------------------------------------------------------------

\* The scrubber is always on a frame of the trace.
TypeOK ==
    /\ trace \in Traces \cup {NoTrace}
    /\ selected \in Steps \cup {NoStep}
    /\ frameIndex \in Nat
    /\ frameIndex = 0 \/ (trace # NoTrace /\ frameIndex < Len(trace))

\* The editor and the scrubber agree: a selected step that the trace ran is
\* the step of the frame on screen.
EditorMatchesScrubber ==
    trace # NoTrace /\ selected \in StepsOf(trace) =>
        FrameAt(trace, frameIndex).step = selected

\* Nothing but a trace without frames leaves the editor unbound.
EditorIsBound == HasFrames => selected # NoStep

\* A new trace that still runs the selected step keeps the user's focus: the
\* selection stays and the scrubber shows that step ("the scrubber lands on it").
NewTraceKeepsFocus ==
    [][\A t \in Traces :
         SetTrace(t) /\ trace # NoTrace /\ selected \in StepsOf(t) =>
            selected' = selected /\ FrameAt(t, frameIndex').step = selected]_vars

\* PageDown never skips the start of a group.
PageDownSkipsNoGroup ==
    [][PageDown => \A i \in (frameIndex + 1)..(frameIndex' - 1) :
                      FrameAt(trace, i).group = FrameAt(trace, frameIndex).group]_vars

\* The editor and the scrubber are one view: the scrubber is on a frame of the
\* trace, the editor is bound whenever there is one, and to the step shown,
\* whatever traces came and however the user scrubbed, clicked and paged.
EditorAndScrubberAgree == TypeOK /\ EditorIsBound /\ EditorMatchesScrubber

=============================================================================
