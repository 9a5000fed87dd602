--------------------------- MODULE UndoTimeline ---------------------------
(***************************************************************************)
(* What an undo history promises, without stacks, references or gestures:  *)
(* the states of the document form a line with a cursor on the present.    *)
(* Undo and redo only move the cursor; an edit cuts the future off and     *)
(* extends the line; the far past is forgotten beyond Depth steps.         *)
(* EditHistory is shown to implement it.                                   *)
(***************************************************************************)
EXTENDS Integers, Sequences

CONSTANTS
    Depth,  \* undo steps retained, at least one
    States  \* what the document can be

VARIABLES
    line,   \* the remembered states, oldest first
    at      \* the position of the present

vars == <<line, at>>

Present == line[at]
Upto(n) == SubSeq(line, 1, n)
Remember(l) == IF Len(l) > Depth + 1 THEN Tail(l) ELSE l

Init ==
    /\ \E s \in States : line = <<s>>
    /\ at = 1

\* An edit discards what had been undone and makes s the present.
Edit(s) ==
    /\ s # Present
    /\ line' = Remember(Append(Upto(at), s))
    /\ at' = Len(line')

Undo == at > 1 /\ at' = at - 1 /\ UNCHANGED line

Redo == at < Len(line) /\ at' = at + 1 /\ UNCHANGED line

\* A boundary: everything before it is forgotten.
Reset(s) == line' = <<s>> /\ at' = 1

\* The present is rescaled in place; the history keeps its other states.
Adjust(s) ==
    /\ \A i \in 1..Len(line) : s # line[i]
    /\ line' = [line EXCEPT ![at] = s]
    /\ UNCHANGED at

Next ==
    \/ Undo \/ Redo
    \/ \E s \in States : Edit(s) \/ Reset(s) \/ Adjust(s)

Spec == Init /\ [][Next]_vars

-----------------------------------------------------------------------------

TypeOK ==
    /\ line \in Seq(States)
    /\ Len(line) \in 1..(Depth + 1)
    /\ at \in 1..Len(line)

=============================================================================
