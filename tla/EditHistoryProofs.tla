------------------------- MODULE EditHistoryProofs -------------------------
(***************************************************************************)
(* Proofs about EditHistory, for every history depth, every set of         *)
(* selector settings and every bound on the references.                    *)
(***************************************************************************)
EXTENDS EditHistory, SequenceTheorems, TLAPS

\* Pushing keeps a stack a sequence over the same set, within the cap
\* (pushUndo).
LEMMA PushedProperties ==
    ASSUME NEW S, NEW stack \in Seq(S), NEW snap \in S
    PROVE  /\ Pushed(stack, snap) \in Seq(S)
           /\ Len(stack) <= MaxUndo => Len(Pushed(stack, snap)) <= MaxUndo
  <1>1. Append(stack, snap) \in Seq(S) /\ Len(Append(stack, snap)) = Len(stack) + 1
    OBVIOUS
  <1>2. Append(stack, snap) # <<>>
    BY <1>1, EmptySeq
  <1>3. /\ Tail(Append(stack, snap)) \in Seq(S)
        /\ Len(Tail(Append(stack, snap))) = Len(stack)
    BY <1>1, <1>2, HeadTailProperties
  <1> QED
    BY <1>1, <1>3, MaxUndoAssumption DEF Pushed

\* Popping a nonempty stack (undo and redo).
LEMMA PopProperties ==
    ASSUME NEW S, NEW stack \in Seq(S), stack # <<>>
    PROVE  /\ Front(stack) \in Seq(S)
           /\ Len(Front(stack)) = Len(stack) - 1
           /\ Last(stack) \in S
  <1>1. Front(stack) \in Seq(S)
    BY DEF Front
  <1>2. Len(Front(stack)) = Len(stack) - 1
    BY DEF Front
  <1>3. Last(stack) \in S
    BY DEF Last
  <1> QED
    BY <1>1, <1>2, <1>3

-----------------------------------------------------------------------------
(***************************************************************************)
(* What the pieces of an action do to the stacks.  S is the set of all     *)
(* snapshots in the proof of the type invariant, and the set of those      *)
(* taken under one selector setting in the proof of the boundary rule.     *)
(***************************************************************************)

LEMMA PushUndoProperties ==
    ASSUME NEW S, undoStack \in Seq(S), Len(undoStack) + Len(redoStack) <= MaxUndo,
           redoStack \in Seq(S), NEW snap \in S, PushUndo(snap)
    PROVE  /\ undoStack' \in Seq(S)
           /\ redoStack' \in Seq(S)
           /\ Len(undoStack') + Len(redoStack') <= MaxUndo
           /\ lastApplied' = NoSnapshot
  <1>1. undoStack' \in Seq(S) /\ Len(undoStack') <= MaxUndo
    BY PushedProperties, LenProperties, MaxUndoAssumption DEF PushUndo
  <1>2. redoStack' = <<>> /\ lastApplied' = NoSnapshot
    BY DEF PushUndo
  <1> QED
    BY <1>1, <1>2, EmptySeq

LEMMA CaptureProperties ==
    ASSUME NEW S, undoStack \in Seq(S), Len(undoStack) + Len(redoStack) <= MaxUndo,
           redoStack \in Seq(S), Live \in S,
           NEW cur, NEW open, CaptureTransition(cur, open)
    PROVE  /\ undoStack' \in Seq(S)
           /\ redoStack' \in Seq(S)
           /\ Len(undoStack') + Len(redoStack') <= MaxUndo
           /\ lastApplied' \in {lastApplied, NoSnapshot}
  <1>1. CASE UNCHANGED history
    BY <1>1 DEF history
  <1>2. CASE PushUndo(Live)
    BY <1>2, PushUndoProperties
  <1> QED
    BY <1>1, <1>2 DEF CaptureTransition

\* Undo and redo only move snapshots between the stacks and the live state.
LEMMA ApplyProperties ==
    ASSUME NEW S \in SUBSET Snapshot, NEW snap \in S, ApplySnapshot(snap)
    PROVE  lastApplied' \in S /\ Live' \in S
  <1>1. snap = [specs |-> snap.specs, layout |-> snap.layout]
    BY DEF Snapshot
  <1> QED
    BY <1>1 DEF ApplySnapshot, Live

LEMMA UndoProperties ==
    ASSUME NEW S \in SUBSET Snapshot, undoStack \in Seq(S), redoStack \in Seq(S),
           Live \in S, Len(undoStack) + Len(redoStack) <= MaxUndo, Undo
    PROVE  /\ undoStack' \in Seq(S)
           /\ redoStack' \in Seq(S)
           /\ Len(undoStack') + Len(redoStack') <= MaxUndo
           /\ lastApplied' \in S
           /\ Live' \in S
  <1>1. undoStack' \in Seq(S) /\ Len(undoStack') = Len(undoStack) - 1 /\ Last(undoStack) \in S
    BY PopProperties DEF Undo
  <1>2. redoStack' \in Seq(S) /\ Len(redoStack') = Len(redoStack) + 1
    BY DEF Undo
  <1>3. lastApplied' \in S /\ Live' \in S
    BY <1>1, ApplyProperties DEF Undo
  <1> QED
    BY <1>1, <1>2, <1>3, LenProperties, MaxUndoAssumption

LEMMA RedoProperties ==
    ASSUME NEW S \in SUBSET Snapshot, undoStack \in Seq(S), redoStack \in Seq(S),
           Live \in S, Len(undoStack) + Len(redoStack) <= MaxUndo, Redo
    PROVE  /\ undoStack' \in Seq(S)
           /\ redoStack' \in Seq(S)
           /\ Len(undoStack') + Len(redoStack') <= MaxUndo
           /\ lastApplied' \in S
           /\ Live' \in S
  <1>1. redoStack' \in Seq(S) /\ Len(redoStack') = Len(redoStack) - 1 /\ Last(redoStack) \in S
    BY PopProperties DEF Redo
  <1>2. undoStack' \in Seq(S) /\ Len(undoStack') = Len(undoStack) + 1
    BY DEF Redo
  <1>3. lastApplied' \in S /\ Live' \in S
    BY <1>1, ApplyProperties DEF Redo
  <1> QED
    BY <1>1, <1>2, <1>3, LenProperties, MaxUndoAssumption

-----------------------------------------------------------------------------
(***************************************************************************)
(* Type correctness and the bound on the history.  The bound is part of    *)
(* the induction: redo applies no cap of its own.                          *)
(***************************************************************************)

TypeInv == TypeOK /\ HistoryBound

\* The live pair is a snapshot.
LEMMA LiveType ==
    ASSUME specs \in SpecRef, layout \in 0..MaxRefs
    PROVE  Live \in Snapshot
  BY DEF Live, Snapshot

\* Minting stays within the bound on references.
LEMMA MintType ==
    ASSUME minted \in 0..MaxRefs, CanMint, Minted
    PROVE  /\ minted' \in 0..MaxRefs
           /\ minted + 1 \in 0..MaxRefs
           /\ \A sel \in Selectors : [id |-> minted + 1, sel |-> sel] \in SpecRef
  BY MaxRefsAssumption DEF CanMint, Minted, SpecRef

\* The history part of the invariant, after an action that captures.
LEMMA CaptureType ==
    ASSUME TypeInv, NEW cur, NEW open, CaptureTransition(cur, open)
    PROVE  /\ undoStack' \in Seq(Snapshot)
           /\ redoStack' \in Seq(Snapshot)
           /\ HistoryBound'
           /\ lastApplied' \in Snapshot \cup {NoSnapshot}
  <1>1. Live \in Snapshot
    BY LiveType DEF TypeInv, TypeOK
  <1> QED
    BY <1>1, CaptureProperties DEF TypeInv, TypeOK, HistoryBound

LEMMA TypeInit == Init => TypeInv
  <1> SUFFICES ASSUME Init PROVE TypeInv
    OBVIOUS
  <1>1. 0 \in 0..MaxRefs
    BY MaxRefsAssumption
  <1>2. specs \in SpecRef
    BY <1>1 DEF Init, SpecRef
  <1>3. <<>> \in Seq(Snapshot) /\ Len(<<>>) = 0
    BY EmptySeq
  <1>4. undoStack \in Seq(Snapshot) /\ redoStack \in Seq(Snapshot)
    BY <1>3 DEF Init
  <1>5. HistoryBound
    <2>1. Len(undoStack) = 0 /\ Len(redoStack) = 0
      BY <1>3 DEF Init
    <2> QED
      BY <2>1, MaxUndoAssumption DEF HistoryBound
  <1> QED
    BY <1>1, <1>2, <1>4, <1>5 DEF Init, TypeInv, TypeOK

LEMMA TypeNext == TypeInv /\ [Next]_vars => TypeInv'
  <1> SUFFICES ASSUME TypeInv, [Next]_vars PROVE TypeInv'
    OBVIOUS
  <1> USE DEF TypeInv, TypeOK
  <1>a. Live \in Snapshot
    BY LiveType
  <1>b. specs.sel \in Selectors
    BY DEF SpecRef
  <1>1. CASE EditSpec
    BY <1>1, <1>b, CaptureType, MintType DEF EditSpec, MintSpecs, gesture, pointer
  <1>2. CASE ResetSpec
    BY <1>2, CaptureType, MintType DEF ResetSpec, MintSpecs, gesture, pointer
  <1>3. CASE DuplicateRound
    BY <1>3, <1>b, CaptureType, MintType
       DEF DuplicateRound, MintSpecs, MintLayout, gesture, pointer
  <1>4. CASE ToolbarLayoutOp
    BY <1>4, CaptureType, MintType
       DEF ToolbarLayoutOp, CancelLayoutGesture, MintLayout, pointer
  <1>5. CASE PlainLayoutOp
    BY <1>5, CaptureType, MintType DEF PlainLayoutOp, MintLayout, gesture, pointer
  <1>6. CASE RescaleLayout
    BY <1>6, MintType DEF RescaleLayout, MintLayout, HistoryBound, history, gesture, pointer
  <1>7. CASE BeginLayoutGesture
    BY <1>7, <1>a DEF BeginLayoutGesture, live, HistoryBound, history
  <1>8. CASE DragMove
    BY <1>8, CaptureType, MintType DEF DragMove, MintLayout, gesture
  <1>9. CASE EndLayoutGesture
    <2>1. CASE GestureCommits
      <3>1. gestureSnapshot \in Snapshot
        BY <2>1 DEF GestureCommits
      <3>2. PushUndo(gestureSnapshot)
        BY <1>9, <2>1 DEF EndLayoutGesture
      <3> QED
        BY <1>9, <3>1, <3>2, PushUndoProperties
           DEF EndLayoutGesture, GestureEnds, live, HistoryBound
    <2>2. CASE ~GestureCommits
      BY <1>9, <2>2 DEF EndLayoutGesture, GestureEnds, live, HistoryBound, history
    <2> QED
      BY <2>1, <2>2
  <1>10. CASE ClickExpandsLabel
    <2> DEFINE committed == IF GestureCommits THEN Pushed(undoStack, gestureSnapshot)
                                              ELSE undoStack
    <2>0. Len(undoStack) <= MaxUndo
      BY LenProperties, MaxUndoAssumption DEF HistoryBound
    <2>1. committed \in Seq(Snapshot) /\ Len(committed) <= MaxUndo
      <3>1. CASE GestureCommits
        <4>1. gestureSnapshot \in Snapshot
          BY <3>1 DEF GestureCommits
        <4> QED
          BY <2>0, <3>1, <4>1, PushedProperties
      <3>2. CASE ~GestureCommits
        BY <2>0, <3>2
      <3> QED
        BY <3>1, <3>2
    <2>2. undoStack' = Pushed(committed, Live)
      BY <1>10 DEF ClickExpandsLabel
    <2>3. undoStack' \in Seq(Snapshot) /\ Len(undoStack') <= MaxUndo
      BY <1>a, <2>1, <2>2, PushedProperties
    <2>4. redoStack' \in Seq(Snapshot) /\ Len(redoStack') = 0 /\ lastApplied' = NoSnapshot
      BY <1>10, EmptySeq DEF ClickExpandsLabel
    <2>5. HistoryBound'
      BY <2>3, <2>4, LenProperties, MaxUndoAssumption DEF HistoryBound
    <2>6. layout' \in 0..MaxRefs /\ minted' \in 0..MaxRefs
      BY <1>10, MintType DEF ClickExpandsLabel, MintLayout
    <2> QED
      BY <1>10, <2>3, <2>4, <2>5, <2>6 DEF ClickExpandsLabel, GestureEnds
  <1>11. CASE Undo
    <2>1. Live' \in Snapshot => specs' \in SpecRef /\ layout' \in 0..MaxRefs
      BY DEF Live, Snapshot
    <2> QED
      BY <1>11, <1>a, <2>1, UndoProperties DEF Undo, gesture, pointer, HistoryBound
  <1>12. CASE Redo
    <2>1. Live' \in Snapshot => specs' \in SpecRef /\ layout' \in 0..MaxRefs
      BY DEF Live, Snapshot
    <2> QED
      BY <1>12, <1>a, <2>1, RedoProperties DEF Redo, gesture, pointer, HistoryBound
  <1>13. ASSUME NEW sel \in Selectors, SwitchSelector(sel) PROVE TypeInv'
    BY <1>13, MintType, EmptySeq, MaxUndoAssumption
       DEF SwitchSelector, MintSpecs, ClearEditHistory, gesture, pointer, HistoryBound
  <1>14. ASSUME NEW sel \in Selectors, LoadDocument(sel) PROVE TypeInv'
    BY <1>14, MintType, EmptySeq, MaxUndoAssumption
       DEF LoadDocument, MintSpecs, MintLayout, ClearEditHistory, gesture, pointer, HistoryBound
  <1>15. ASSUME NEW sel \in KmacSelectors, RunResyncsKmacKey(sel) PROVE TypeInv'
    BY <1>15, CaptureType, MintType, KmacAssumption
       DEF RunResyncsKmacKey, MintSpecs, gesture, pointer
  <1>16. CASE UNCHANGED vars
    BY <1>16 DEF vars, HistoryBound
  <1> QED
    BY <1>1, <1>2, <1>3, <1>4, <1>5, <1>6, <1>7, <1>8, <1>9, <1>10, <1>11, <1>12,
       <1>13, <1>14, <1>15, <1>16 DEF Next

\* Every behaviour keeps the state well typed and the two stacks together
\* within MAX_UNDO (pushUndo, undo, redo of edit-history.ts).
THEOREM TypeCorrect == Spec => [](TypeOK /\ HistoryBound)
  BY TypeInit, TypeNext, PTL DEF Spec, TypeInv

-----------------------------------------------------------------------------
(***************************************************************************)
(* The boundary rule.  It is not inductive by itself: the snapshot an open *)
(* gesture holds will be pushed later, so it too must have been taken      *)
(* under the live selectors, and a gesture must not outlive its drag.      *)
(***************************************************************************)

Taken(sel) == {s \in Snapshot : s.specs.sel = sel}

BoundaryInv ==
    /\ TypeInv
    /\ specs.sel = selectors
    /\ undoStack \in Seq(Taken(selectors))
    /\ redoStack \in Seq(Taken(selectors))
    /\ layoutGestureActive => dragging /\ gestureSnapshot.specs.sel = selectors

LEMMA BoundaryInit == Init => BoundaryInv
  BY TypeInit, EmptySeq DEF Init, BoundaryInv

\* An operation that keeps the selectors and captures keeps the rule.
LEMMA CaptureBoundary ==
    ASSUME BoundaryInv, selectors' = selectors, NEW cur, NEW open,
           CaptureTransition(cur, open)
    PROVE  undoStack' \in Seq(Taken(selectors')) /\ redoStack' \in Seq(Taken(selectors'))
  <1>1. PICK sel \in Selectors : sel = selectors
    BY DEF BoundaryInv, TypeInv, TypeOK
  <1>2. Live \in Taken(sel)
    BY <1>1, LiveType DEF BoundaryInv, TypeInv, TypeOK, Taken, Live
  <1> QED
    BY <1>1, <1>2, CaptureProperties DEF BoundaryInv, TypeInv, TypeOK, HistoryBound

LEMMA BoundaryNext ==
    ASSUME KmacSelectors = {}, "switch" \notin MidDragInputs, "load" \notin MidDragInputs,
           BoundaryInv, [Next]_vars
    PROVE  BoundaryInv'
  <1>0. TypeInv'
    BY TypeNext DEF BoundaryInv
  <1> USE DEF BoundaryInv
  <1>a. PICK here \in Selectors : here = selectors
    BY DEF TypeInv, TypeOK
  <1>b. Live \in Taken(here) /\ Taken(here) \in SUBSET Snapshot
    BY <1>a, LiveType DEF TypeInv, TypeOK, Taken, Live
  <1>c. layoutGestureActive => gestureSnapshot \in Taken(here)
    BY <1>a DEF TypeInv, TypeOK, Taken
  <1>d. Len(undoStack) + Len(redoStack) <= MaxUndo
    BY DEF TypeInv, HistoryBound
  <1>e. \A sel : [id |-> minted + 1, sel |-> sel].sel = sel
    OBVIOUS
  <1>1. CASE EditSpec
    BY <1>0, <1>1, <1>e, CaptureBoundary DEF EditSpec, MintSpecs, gesture, pointer
  <1>2. CASE ResetSpec
    BY <1>0, <1>2, <1>e, CaptureBoundary DEF ResetSpec, MintSpecs, gesture, pointer
  <1>3. CASE DuplicateRound
    BY <1>0, <1>3, <1>e, CaptureBoundary DEF DuplicateRound, MintSpecs, gesture, pointer
  <1>4. CASE ToolbarLayoutOp
    BY <1>0, <1>4, CaptureBoundary DEF ToolbarLayoutOp, CancelLayoutGesture, pointer
  <1>5. CASE PlainLayoutOp
    BY <1>0, <1>5, CaptureBoundary DEF PlainLayoutOp, gesture, pointer
  <1>6. CASE RescaleLayout
    BY <1>0, <1>6 DEF RescaleLayout, history, gesture, pointer
  <1>7. CASE BeginLayoutGesture
    BY <1>0, <1>7 DEF BeginLayoutGesture, Live, live, history
  <1>8. CASE DragMove
    BY <1>0, <1>8, CaptureBoundary DEF DragMove, gesture
  <1>9. CASE EndLayoutGesture
    <2>1. undoStack' \in Seq(Taken(here)) /\ redoStack' \in Seq(Taken(here))
      <3>1. CASE GestureCommits
        <4>1. gestureSnapshot \in Taken(here)
          BY <1>c, <3>1 DEF GestureCommits
        <4>2. PushUndo(gestureSnapshot)
          BY <1>9, <3>1 DEF EndLayoutGesture
        <4> QED
          BY <1>a, <1>d, <4>1, <4>2, PushUndoProperties
      <3>2. CASE ~GestureCommits
        BY <1>9, <1>a, <3>2 DEF EndLayoutGesture, history
      <3> QED
        BY <3>1, <3>2
    <2> QED
      BY <1>0, <1>9, <1>a, <2>1 DEF EndLayoutGesture, GestureEnds, live
  <1>10. CASE ClickExpandsLabel
    <2> DEFINE committed == IF GestureCommits THEN Pushed(undoStack, gestureSnapshot)
                                              ELSE undoStack
    <2>1. committed \in Seq(Taken(here))
      <3>1. CASE GestureCommits
        <4>1. gestureSnapshot \in Taken(here)
          BY <1>c, <3>1 DEF GestureCommits
        <4> QED
          BY <1>a, <3>1, <4>1, PushedProperties
      <3>2. CASE ~GestureCommits
        BY <1>a, <3>2
      <3> QED
        BY <3>1, <3>2
    <2>2. undoStack' = Pushed(committed, Live)
      BY <1>10 DEF ClickExpandsLabel
    <2>3. undoStack' \in Seq(Taken(here))
      BY <1>b, <2>1, <2>2, PushedProperties
    <2>4. redoStack' \in Seq(Taken(here))
      BY <1>10, EmptySeq DEF ClickExpandsLabel
    <2> QED
      BY <1>0, <1>10, <1>a, <2>3, <2>4 DEF ClickExpandsLabel, GestureEnds
  <1>11. CASE Undo
    <2>1. /\ undoStack' \in Seq(Taken(here)) /\ redoStack' \in Seq(Taken(here))
          /\ Live' \in Taken(here)
      BY <1>11, <1>a, <1>b, <1>d, UndoProperties
    <2> QED
      BY <1>0, <1>11, <1>a, <2>1 DEF Undo, Live, Taken, gesture, pointer
  <1>12. CASE Redo
    <2>1. /\ undoStack' \in Seq(Taken(here)) /\ redoStack' \in Seq(Taken(here))
          /\ Live' \in Taken(here)
      BY <1>12, <1>a, <1>b, <1>d, RedoProperties
    <2> QED
      BY <1>0, <1>12, <1>a, <2>1 DEF Redo, Live, Taken, gesture, pointer
  <1>13. ASSUME NEW sel \in Selectors, SwitchSelector(sel) PROVE BoundaryInv'
    <2>1. ~dragging
      BY <1>13 DEF SwitchSelector, Free
    <2> QED
      BY <1>0, <1>13, <1>e, <2>1, EmptySeq
         DEF SwitchSelector, MintSpecs, ClearEditHistory, gesture, pointer
  <1>14. ASSUME NEW sel \in Selectors, LoadDocument(sel) PROVE BoundaryInv'
    <2>1. ~dragging
      BY <1>14 DEF LoadDocument, Free
    <2> QED
      BY <1>0, <1>14, <1>e, <2>1, EmptySeq
         DEF LoadDocument, MintSpecs, ClearEditHistory, gesture, pointer
  <1>15. CASE UNCHANGED vars
    BY <1>0, <1>15 DEF vars
  <1> QED
    BY <1>1, <1>2, <1>3, <1>4, <1>5, <1>6, <1>7, <1>8, <1>9, <1>10, <1>11, <1>12,
       <1>13, <1>14, <1>15 DEF Next

\* Where no run resyncs a KMAC key length and no selector change or document
\* can interrupt a drag, undo and redo never bring back a spec of other
\* selectors (withBoundaryReset and the gesture functions).
THEOREM BoundaryRespected ==
    ASSUME KmacSelectors = {}, "switch" \notin MidDragInputs, "load" \notin MidDragInputs
    PROVE  Spec => []BoundaryRule
  <1>1. BoundaryInv /\ [Next]_vars => BoundaryInv'
    BY BoundaryNext
  <1>2. BoundaryInv => BoundaryRule
    BY ElementOfSeq, LenProperties DEF BoundaryInv, BoundaryRule, Taken
  <1> QED
    BY <1>1, <1>2, BoundaryInit, PTL DEF Spec

-----------------------------------------------------------------------------
(***************************************************************************)
(* Freshness.  The observer skips a write that lands on what undo or redo  *)
(* restored last, by comparing references.  That is sound because a write  *)
(* mints a reference that neither the live state, nor an entry of the      *)
(* history, nor the guard holds.                                           *)
(***************************************************************************)

Known(n) == {s \in Snapshot : s.specs.id <= n /\ s.layout <= n}

FreshInv ==
    /\ TypeInv
    /\ Live \in Known(minted)
    /\ undoStack \in Seq(Known(minted))
    /\ redoStack \in Seq(Known(minted))
    /\ lastApplied \in Known(minted) \cup {NoSnapshot}
    /\ gestureSnapshot \in Known(minted) \cup {NoSnapshot}

\* What is known stays known when more references are minted.
LEMMA KnownGrows ==
    ASSUME minted \in 0..MaxRefs, minted' \in 0..MaxRefs,
           UNCHANGED minted \/ Minted
    PROVE  /\ Known(minted) \subseteq Known(minted')
           /\ \A s \in Seq(Known(minted)) : s \in Seq(Known(minted'))
  <1>1. minted <= minted'
    BY MaxRefsAssumption DEF Minted
  <1>2. Known(minted) \subseteq Known(minted')
    BY <1>1, MaxRefsAssumption DEF Known, Snapshot, SpecRef
  <1> QED
    BY <1>2, SeqMonotonic

\* A reference minted by a write is in no snapshot that is known.
LEMMA MintedIsNew ==
    ASSUME minted \in 0..MaxRefs, CanMint, NEW s \in Known(minted)
    PROVE  s.specs.id # minted + 1 /\ s.layout # minted + 1
  BY MaxRefsAssumption DEF Known, Snapshot, SpecRef

\* The live pair after a write is known.
LEMMA WrittenIsKnown ==
    ASSUME FreshInv, TypeInv', Minted,
           specs' = specs \/ specs'.id = minted + 1,
           layout' = layout \/ layout' = minted + 1
    PROVE  Live' \in Known(minted')
  <1>1. Live' \in Snapshot
    BY DEF TypeInv, TypeOK, Live, Snapshot
  <1>2. Live.specs.id <= minted /\ Live.layout <= minted
    BY DEF FreshInv, Known
  <1>3. specs'.id <= minted + 1 /\ layout' <= minted + 1
    BY <1>2, MaxRefsAssumption DEF Live, FreshInv, TypeInv, TypeOK, SpecRef
  <1> QED
    BY <1>1, <1>3 DEF Known, Live, Minted

LEMMA FreshInit == Init => FreshInv
  <1> SUFFICES ASSUME Init PROVE FreshInv
    OBVIOUS
  <1>1. TypeInv
    BY TypeInit
  <1>2. Live \in Known(minted)
    <2>1. Live \in Snapshot
      BY <1>1, LiveType DEF TypeInv, TypeOK
    <2> QED
      BY <2>1 DEF Init, Known, Live
  <1> QED
    BY <1>1, <1>2, EmptySeq DEF Init, FreshInv

LEMMA FreshNext == FreshInv /\ [Next]_vars => FreshInv'
  <1> SUFFICES ASSUME FreshInv, [Next]_vars PROVE FreshInv'
    OBVIOUS
  <1>t. TypeInv'
    BY TypeNext DEF FreshInv
  <1>a. /\ Len(undoStack) + Len(redoStack) <= MaxUndo
        /\ minted \in 0..MaxRefs /\ minted' \in 0..MaxRefs
    BY <1>t DEF FreshInv, TypeInv, TypeOK, HistoryBound
  <1>b. layoutGestureActive => gestureSnapshot \in Known(minted)
    BY NoSnapshotAssumption DEF FreshInv, TypeInv, TypeOK
  <1> DEFINE StacksKnown ==
        /\ undoStack' \in Seq(Known(minted))
        /\ redoStack' \in Seq(Known(minted))
        /\ lastApplied' \in Known(minted) \cup {NoSnapshot}
  <1>c. ASSUME NEW cur, NEW open, CaptureTransition(cur, open) PROVE StacksKnown
    BY <1>a, <1>c, CaptureProperties DEF FreshInv
  <1>d. ASSUME UNCHANGED history PROVE StacksKnown
    BY <1>d DEF FreshInv, history
  <1>e. ASSUME ClearEditHistory PROVE StacksKnown
    BY <1>e, EmptySeq DEF ClearEditHistory
  <1>g. ASSUME UNCHANGED minted \/ Minted, StacksKnown, Live' \in Known(minted'),
               gestureSnapshot' \in Known(minted) \cup {NoSnapshot}
        PROVE  FreshInv'
    BY <1>a, <1>g, <1>t, KnownGrows DEF FreshInv
  <1>h. ASSUME UNCHANGED gesture
        PROVE  gestureSnapshot' \in Known(minted) \cup {NoSnapshot}
    BY <1>h DEF gesture, FreshInv
  <1>i. \A sel : [id |-> minted + 1, sel |-> sel].id = minted + 1
    OBVIOUS
  <1>j. ASSUME UNCHANGED live, UNCHANGED minted PROVE Live' \in Known(minted')
    BY <1>j DEF FreshInv, Live, live
  <1> HIDE DEF StacksKnown
  <1>1. CASE EditSpec
    BY <1>1, <1>t, <1>c, <1>g, <1>h, <1>i, WrittenIsKnown DEF EditSpec, MintSpecs
  <1>2. CASE ResetSpec
    BY <1>2, <1>t, <1>c, <1>g, <1>h, <1>i, WrittenIsKnown DEF ResetSpec, MintSpecs
  <1>3. CASE DuplicateRound
    BY <1>3, <1>t, <1>c, <1>g, <1>h, <1>i, WrittenIsKnown
       DEF DuplicateRound, MintSpecs, MintLayout
  <1>4. CASE ToolbarLayoutOp
    BY <1>4, <1>t, <1>c, <1>g, WrittenIsKnown
       DEF ToolbarLayoutOp, MintLayout, CancelLayoutGesture
  <1>5. CASE PlainLayoutOp
    BY <1>5, <1>t, <1>c, <1>g, <1>h, WrittenIsKnown DEF PlainLayoutOp, MintLayout
  <1>6. CASE RescaleLayout
    BY <1>6, <1>t, <1>d, <1>g, <1>h, WrittenIsKnown DEF RescaleLayout, MintLayout
  <1>7. CASE BeginLayoutGesture
    <2>1. gestureSnapshot' \in Known(minted)
      BY <1>7 DEF BeginLayoutGesture, FreshInv
    <2> QED
      BY <1>7, <2>1, <1>d, <1>g, <1>j DEF BeginLayoutGesture
  <1>8. CASE DragMove
    BY <1>8, <1>t, <1>c, <1>g, <1>h, WrittenIsKnown DEF DragMove, MintLayout
  <1>9. CASE EndLayoutGesture
    <2>1. StacksKnown
      <3>1. CASE GestureCommits
        <4>1. PushUndo(gestureSnapshot) /\ gestureSnapshot \in Known(minted)
          BY <1>9, <1>b, <3>1 DEF EndLayoutGesture, GestureCommits
        <4> QED
          BY <1>a, <4>1, PushUndoProperties DEF FreshInv, StacksKnown
      <3>2. CASE ~GestureCommits
        BY <1>9, <1>d, <3>2 DEF EndLayoutGesture
      <3> QED
        BY <3>1, <3>2
    <2>2. gestureSnapshot' \in Known(minted) \cup {NoSnapshot}
      BY <1>9 DEF EndLayoutGesture, GestureEnds, FreshInv
    <2> QED
      BY <1>9, <2>1, <2>2, <1>g, <1>j DEF EndLayoutGesture
  <1>10. CASE ClickExpandsLabel
    <2> DEFINE committed == IF GestureCommits THEN Pushed(undoStack, gestureSnapshot)
                                              ELSE undoStack
    <2>1. committed \in Seq(Known(minted))
      BY <1>b, PushedProperties DEF GestureCommits, FreshInv
    <2>2. undoStack' = Pushed(committed, Live)
      BY <1>10 DEF ClickExpandsLabel
    <2>3. undoStack' \in Seq(Known(minted))
      BY <2>1, <2>2, PushedProperties DEF FreshInv
    <2>4. StacksKnown
      BY <1>10, <2>3, EmptySeq DEF ClickExpandsLabel, StacksKnown
    <2>5. gestureSnapshot' \in Known(minted) \cup {NoSnapshot}
      BY <1>10 DEF ClickExpandsLabel, GestureEnds, FreshInv
    <2> QED
      BY <1>10, <1>t, <1>g, <2>4, <2>5, WrittenIsKnown DEF ClickExpandsLabel, MintLayout
  <1>k. Known(minted) \in SUBSET Snapshot
    BY DEF Known
  <1>11. CASE Undo
    <2>1. StacksKnown /\ Live' \in Known(minted)
      BY <1>11, <1>a, <1>k, UndoProperties DEF FreshInv, StacksKnown
    <2> QED
      BY <1>11, <2>1, <1>g, <1>h DEF Undo
  <1>12. CASE Redo
    <2>1. StacksKnown /\ Live' \in Known(minted)
      BY <1>12, <1>a, <1>k, RedoProperties DEF FreshInv, StacksKnown
    <2> QED
      BY <1>12, <2>1, <1>g, <1>h DEF Redo
  <1>13. ASSUME NEW sel \in Selectors, SwitchSelector(sel) PROVE FreshInv'
    BY <1>13, <1>t, <1>e, <1>g, <1>h, <1>i, WrittenIsKnown DEF SwitchSelector, MintSpecs
  <1>14. ASSUME NEW sel \in Selectors, LoadDocument(sel) PROVE FreshInv'
    BY <1>14, <1>t, <1>e, <1>g, <1>h, <1>i, WrittenIsKnown
       DEF LoadDocument, MintSpecs, MintLayout
  <1>15. ASSUME NEW sel \in KmacSelectors, RunResyncsKmacKey(sel) PROVE FreshInv'
    BY <1>15, <1>t, <1>c, <1>g, <1>h, <1>i, WrittenIsKnown DEF RunResyncsKmacKey, MintSpecs
  <1>16. CASE UNCHANGED vars
    BY <1>16 DEF vars, FreshInv, TypeInv, TypeOK, HistoryBound, Live
  <1> QED
    BY <1>1, <1>2, <1>3, <1>4, <1>5, <1>6, <1>7, <1>8, <1>9, <1>10, <1>11, <1>12,
       <1>13, <1>14, <1>15, <1>16 DEF Next

\* A layout operation of the toolbar can be undone to the state before it,
\* in every configuration: whatever selectors are chosen, whatever acts
\* during a drag, and in whatever state a drag left the gesture (cancelLayoutGesture).
THEOREM ToolbarUndoable == Spec => ToolbarOpsUndoable
  <1>1. FreshInv /\ [Next]_vars =>
           [ToolbarLayoutOp => undoStack' # <<>> /\ Last(undoStack') = Live]_vars
    <2> SUFFICES ASSUME FreshInv, ToolbarLayoutOp
                 PROVE  undoStack' # <<>> /\ Last(undoStack') = Live
      OBVIOUS
    <2> DEFINE cur == [specs |-> specs, layout |-> layout']
    <2>1. lastApplied # cur
      <3>1. cur.layout = minted + 1
        BY DEF ToolbarLayoutOp, MintLayout
      <3>2. cur \in Snapshot
        BY <3>1, MintType DEF FreshInv, TypeInv, TypeOK, Snapshot, ToolbarLayoutOp
      <3> HIDE DEF cur
      <3> QED
        BY <3>1, <3>2, MintedIsNew, NoSnapshotAssumption
           DEF FreshInv, TypeInv, TypeOK, ToolbarLayoutOp
    <2>2. undoStack' = Pushed(undoStack, Live)
      BY <2>1 DEF ToolbarLayoutOp, CancelLayoutGesture, CaptureTransition, PushUndo
    <2>3. Live \in Snapshot /\ undoStack \in Seq(Snapshot)
      BY LiveType DEF FreshInv, TypeInv, TypeOK
    <2>4. /\ Append(undoStack, Live) \in Seq(Snapshot)
          /\ Len(Append(undoStack, Live)) = Len(undoStack) + 1
          /\ Append(undoStack, Live)[Len(undoStack) + 1] = Live
          /\ Append(undoStack, Live) # <<>>
          /\ Len(undoStack) \in Nat
      BY <2>3, AppendProperties, LenProperties
    <2>5. CASE Len(Append(undoStack, Live)) > MaxUndo
      <3>1. /\ Len(Tail(Append(undoStack, Live))) = Len(undoStack)
            /\ \A i \in 1..Len(undoStack) :
                  Tail(Append(undoStack, Live))[i] = Append(undoStack, Live)[i + 1]
        BY <2>4, HeadTailProperties
      <3>2. Len(undoStack) >= 1
        BY <2>4, <2>5, MaxUndoAssumption
      <3>3. undoStack' = Tail(Append(undoStack, Live))
        BY <2>2, <2>5 DEF Pushed
      <3>4. undoStack' # <<>>
        BY <3>1, <3>2, <3>3, EmptySeq
      <3> QED
        BY <2>4, <3>1, <3>2, <3>3, <3>4 DEF Last
    <2>6. CASE ~(Len(Append(undoStack, Live)) > MaxUndo)
      BY <2>2, <2>4, <2>6 DEF Pushed, Last
    <2> QED
      BY <2>5, <2>6
  <1> QED
    BY <1>1, FreshInit, FreshNext, PTL DEF Spec, ToolbarOpsUndoable

-----------------------------------------------------------------------------
(***************************************************************************)
(* Only moves commit.  As long as nothing else writes the layout while a   *)
(* node is held, a press that has not moved still sees the layout it began *)
(* with, and a gesture never outlives its drag.                            *)
(***************************************************************************)

PressInv ==
    /\ TypeOK
    /\ layoutGestureActive => dragging
    /\ layoutGestureActive /\ ~moved => gestureSnapshot.layout = layout

LEMMA PressNext ==
    ASSUME "edit" \notin MidDragInputs, "shortcut" \notin MidDragInputs,
           "load" \notin MidDragInputs, PressInv, TypeOK', [Next]_vars
    PROVE  PressInv'
  <1> USE DEF PressInv
  <1>a. Live.layout = layout
    BY DEF Live
  <1>1. CASE EditSpec
    BY <1>1 DEF EditSpec, gesture, pointer
  <1>2. CASE ResetSpec
    BY <1>2 DEF ResetSpec, gesture, pointer
  <1>3. CASE DuplicateRound
    BY <1>3 DEF DuplicateRound, Free, gesture, pointer
  <1>4. CASE ToolbarLayoutOp
    BY <1>4 DEF ToolbarLayoutOp, CancelLayoutGesture
  <1>5. CASE PlainLayoutOp
    BY <1>5 DEF PlainLayoutOp, Free, gesture, pointer
  <1>6. CASE RescaleLayout
    BY <1>6 DEF RescaleLayout, Free, gesture, pointer
  <1>7. CASE BeginLayoutGesture
    BY <1>7, <1>a DEF BeginLayoutGesture, live
  <1>8. CASE DragMove
    BY <1>8 DEF DragMove, gesture
  <1>9. CASE EndLayoutGesture \/ ClickExpandsLabel
    BY <1>9 DEF EndLayoutGesture, ClickExpandsLabel, GestureEnds
  <1>10. CASE Undo
    BY <1>10 DEF Undo, Free, gesture, pointer
  <1>11. CASE Redo
    BY <1>11 DEF Redo, Free, gesture, pointer
  <1>12. CASE \E sel \in Selectors : SwitchSelector(sel)
    BY <1>12 DEF SwitchSelector, gesture, pointer
  <1>13. CASE \E sel \in Selectors : LoadDocument(sel)
    BY <1>13 DEF LoadDocument, Free, gesture, pointer
  <1>14. CASE \E sel \in KmacSelectors : RunResyncsKmacKey(sel)
    BY <1>14 DEF RunResyncsKmacKey, gesture, pointer
  <1>15. CASE UNCHANGED vars
    BY <1>15 DEF vars
  <1> QED
    BY <1>1, <1>2, <1>3, <1>4, <1>5, <1>6, <1>7, <1>8, <1>9, <1>10, <1>11, <1>12,
       <1>13, <1>14, <1>15 DEF Next

\* The end of a gesture pushes an entry only after a move, as long as no edit,
\* shortcut or document writes the layout while the node is held
\* (endLayoutGesture); selectors may change and pointers get lost meanwhile.
THEOREM MovesCommit ==
    ASSUME "edit" \notin MidDragInputs, "shortcut" \notin MidDragInputs,
           "load" \notin MidDragInputs
    PROVE  Spec => OnlyMovesCommit
  <1>1. Init => PressInv
    BY TypeInit DEF Init, PressInv, TypeInv
  <1>2. PressInv /\ TypeOK' /\ [Next]_vars => PressInv'
    BY PressNext
  <1>3. PressInv /\ [Next]_vars =>
           [EndLayoutGesture /\ undoStack' # undoStack => moved]_vars
    BY DEF PressInv, EndLayoutGesture, GestureCommits, history
  <1> QED
    BY <1>1, <1>2, <1>3, TypeCorrect, PTL DEF Spec, OnlyMovesCommit

-----------------------------------------------------------------------------
(***************************************************************************)
(* The history is an undo timeline (UndoTimeline).  Its line is laid out   *)
(* from the past, the present and the future; what each operation does to  *)
(* the two stacks is one move on that line.                                *)
(***************************************************************************)

LineOf(past, present, future) == past \o <<present>> \o Reverse(future)

\* What the entries of a line are.
LaidOut(line, past, present, future) ==
    /\ Len(line) = Len(past) + 1 + Len(future)
    /\ \A i \in 1..Len(past) : line[i] = past[i]
    /\ line[Len(past) + 1] = present
    /\ \A i \in 1..Len(future) : line[Len(past) + 1 + i] = future[Len(future) - i + 1]

LEMMA ReverseProperties ==
    ASSUME NEW S, NEW s \in Seq(S)
    PROVE  /\ Reverse(s) \in Seq(S) /\ Len(Reverse(s)) = Len(s)
           /\ \A i \in 1..Len(s) : Reverse(s)[i] = s[Len(s) - i + 1]
  <1>1. Len(s) \in Nat
    BY LenProperties
  <1>2. \A i \in 1..Len(s) : s[Len(s) - i + 1] \in S
    BY <1>1, ElementOfSeq
  <1>3. Reverse(s) \in [1..Len(s) -> S]
    BY <1>2 DEF Reverse
  <1>4. Reverse(s) \in Seq(S) /\ Len(Reverse(s)) = Len(s)
    BY <1>1, <1>3, SeqDef
  <1> QED
    BY <1>4 DEF Reverse

LEMMA LineProperties ==
    ASSUME NEW S, NEW past \in Seq(S), NEW present \in S, NEW future \in Seq(S)
    PROVE  /\ LineOf(past, present, future) \in Seq(S)
           /\ LaidOut(LineOf(past, present, future), past, present, future)
  <1> DEFINE r == Reverse(future)
             head == Append(past, present)
             line == LineOf(past, present, future)
  <1>1. Len(past) \in Nat /\ Len(future) \in Nat
    BY LenProperties
  <1>2. /\ r \in Seq(S) /\ Len(r) = Len(future)
        /\ \A i \in 1..Len(future) : r[i] = future[Len(future) - i + 1]
    BY ReverseProperties
  <1>3. /\ head \in Seq(S) /\ Len(head) = Len(past) + 1
        /\ \A i \in 1..Len(past) : head[i] = past[i]
        /\ head[Len(past) + 1] = present
    BY AppendProperties
  <1>4. line = head \o r
    BY AppendIsConcat DEF LineOf
  <1> HIDE DEF r, head, line
  <1>5. /\ head \o r \in Seq(S) /\ Len(head \o r) = Len(head) + Len(r)
        /\ \A i \in 1..(Len(head) + Len(r)) :
              (head \o r)[i] = IF i <= Len(head) THEN head[i] ELSE r[i - Len(head)]
    <2>1. head \in Seq(S) /\ r \in Seq(S)
      BY <1>2, <1>3
    <2> QED
      BY <2>1, ConcatProperties
  <1>6. ASSUME NEW i \in 1..Len(past) PROVE line[i] = past[i]
    BY <1>1, <1>2, <1>3, <1>4, <1>5
  <1>7. line[Len(past) + 1] = present
    BY <1>1, <1>2, <1>3, <1>4, <1>5
  <1>8. ASSUME NEW i \in 1..Len(future)
        PROVE  line[Len(past) + 1 + i] = future[Len(future) - i + 1]
    <2>1. line[Len(past) + 1 + i] = r[i]
      <3>1. /\ Len(past) + 1 + i \in 1..(Len(head) + Len(r))
            /\ ~(Len(past) + 1 + i <= Len(head))
            /\ Len(past) + 1 + i - Len(head) = i
        BY <1>1, <1>2, <1>3
      <3> QED
        BY <1>4, <1>5, <3>1
    <2> QED
      BY <1>2, <2>1
  <1> QED
    BY <1>1, <1>2, <1>3, <1>4, <1>5, <1>6, <1>7, <1>8 DEF line, LaidOut

\* Moving the newest state of the past into the present, and the present onto
\* the future, leaves the line as it was.
LEMMA SameLine ==
    ASSUME NEW S, NEW past \in Seq(S), NEW p \in Seq(S), NEW present \in S, NEW last \in S,
           NEW future \in Seq(S), NEW f \in Seq(S),
           Len(past) = Len(p) + 1, \A i \in 1..Len(p) : p[i] = past[i], last = past[Len(past)],
           Len(f) = Len(future) + 1, \A i \in 1..Len(future) : f[i] = future[i],
           f[Len(f)] = present
    PROVE  LineOf(p, last, f) = LineOf(past, present, future)
  <1> DEFINE old == LineOf(past, present, future)
             new == LineOf(p, last, f)
  <1>1. Len(p) \in Nat /\ Len(future) \in Nat
    BY LenProperties
  <1> HIDE DEF old, new
  <1>2. old \in Seq(S) /\ LaidOut(old, past, present, future)
    BY LineProperties DEF old
  <1>3. new \in Seq(S) /\ LaidOut(new, p, last, f)
    BY LineProperties DEF new
  <1> USE DEF LaidOut
  <1>4. Len(new) = Len(old)
    BY <1>1, <1>2, <1>3
  <1>5. ASSUME NEW i \in 1..Len(new) PROVE new[i] = old[i]
    <2>1. CASE i <= Len(p)
      BY <1>1, <1>2, <1>3, <2>1
    <2>2. CASE i = Len(p) + 1
      BY <1>1, <1>2, <1>3, <2>2
    <2>3. CASE i = Len(p) + 2
      <3>1. 1 \in 1..Len(f) /\ i = Len(p) + 1 + 1 /\ Len(f) - 1 + 1 = Len(f)
        BY <1>1, <2>3
      <3>2. new[i] = f[Len(f)]
        BY <1>3, <3>1
      <3>3. i = Len(past) + 1
        BY <1>1, <2>3
      <3> QED
        BY <1>2, <3>2, <3>3
    <2>4. CASE i > Len(p) + 2
      <3> DEFINE k == i - Len(past) - 1
      <3>1. /\ k \in 1..Len(future) /\ k + 1 \in 1..Len(f)
            /\ i = Len(past) + 1 + k /\ i = Len(p) + 1 + (k + 1)
            /\ Len(f) - (k + 1) + 1 = Len(future) - k + 1
            /\ Len(future) - k + 1 \in 1..Len(future)
        BY <1>1, <1>3, <2>4
      <3> HIDE DEF k
      <3>2. old[i] = future[Len(future) - k + 1]
        BY <1>2, <3>1
      <3>3. new[i] = f[Len(f) - (k + 1) + 1]
        BY <1>3, <3>1
      <3> QED
        BY <3>1, <3>2, <3>3
    <2> QED
      BY <1>1, <1>3, <2>1, <2>2, <2>3, <2>4
  <1>6. new = old
    BY <1>2, <1>3, <1>4, <1>5, SeqEqual
  <1> QED
    BY <1>6 DEF old, new

\* A stack without its newest entry, and that entry.
LEMMA FrontProperties ==
    ASSUME NEW S, NEW stack \in Seq(S), stack # <<>>
    PROVE  /\ Front(stack) \in Seq(S) /\ Len(stack) = Len(Front(stack)) + 1
           /\ \A i \in 1..Len(Front(stack)) : Front(stack)[i] = stack[i]
           /\ Last(stack) = stack[Len(stack)] /\ Last(stack) \in S
           /\ Len(stack) \in Nat \ {0}
  <1>1. Len(stack) \in Nat \ {0}
    BY EmptySeq
  <1>2. \A i \in 1..(Len(stack) - 1) : stack[i] \in S
    BY <1>1, ElementOfSeq
  <1>3. \A i \in 1..(Len(stack) - 1 - 1 + 1) : SubSeq(stack, 1, Len(stack) - 1)[i] = stack[1 + i - 1]
    BY <1>1, <1>2, SubSeqProperties
  <1> QED
    BY <1>1, <1>3, PopProperties DEF Front, Last

\* Undo moves the cursor back on the same line.
LEMMA LineUndone ==
    ASSUME NEW S, NEW past \in Seq(S), NEW present \in S, NEW future \in Seq(S), past # <<>>
    PROVE  LineOf(Front(past), Last(past), Append(future, present))
              = LineOf(past, present, future)
  <1> DEFINE f == Append(future, present)
  <1>1. /\ f \in Seq(S) /\ Len(f) = Len(future) + 1
        /\ \A i \in 1..Len(future) : f[i] = future[i]
        /\ f[Len(future) + 1] = present
    BY AppendProperties
  <1> HIDE DEF f
  <1>2. f[Len(f)] = present
    BY <1>1
  <1>3. LineOf(Front(past), Last(past), f) = LineOf(past, present, future)
    <2>1. /\ Front(past) \in Seq(S) /\ Len(past) = Len(Front(past)) + 1
          /\ \A i \in 1..Len(Front(past)) : Front(past)[i] = past[i]
          /\ Last(past) = past[Len(past)] /\ Last(past) \in S
      BY FrontProperties
    <2> QED
      BY <1>1, <1>2, <2>1, SameLine, SMTT(30)
  <1> QED
    BY <1>3 DEF f

\* Redo moves it forward.
LEMMA LineRedone ==
    ASSUME NEW S, NEW past \in Seq(S), NEW present \in S, NEW future \in Seq(S), future # <<>>
    PROVE  LineOf(Append(past, present), Last(future), Front(future))
              = LineOf(past, present, future)
  <1> DEFINE p == Append(past, present)
  <1>1. /\ p \in Seq(S) /\ Len(p) = Len(past) + 1
        /\ \A i \in 1..Len(past) : p[i] = past[i]
        /\ p[Len(past) + 1] = present
    BY AppendProperties
  <1> HIDE DEF p
  <1>2. p[Len(p)] = present /\ \A i \in 1..Len(past) : past[i] = p[i]
    BY <1>1
  <1>3. LineOf(past, present, future) = LineOf(p, Last(future), Front(future))
    <2>1. /\ Front(future) \in Seq(S) /\ Len(future) = Len(Front(future)) + 1
          /\ \A i \in 1..Len(Front(future)) : future[i] = Front(future)[i]
          /\ Last(future) = future[Len(future)] /\ Last(future) \in S
      BY FrontProperties
    <2> QED
      BY <1>1, <1>2, <2>1, SameLine, SMTT(30)
  <1> QED
    BY <1>3 DEF p

\* Nothing follows the present after an edit or a boundary.
LEMMA LineEnds ==
    ASSUME NEW S, NEW past \in Seq(S), NEW present \in S
    PROVE  LineOf(past, present, <<>>) = Append(past, present)
  <1> DEFINE new == LineOf(past, present, <<>>)
             end == Append(past, present)
  <1>1. Len(past) \in Nat /\ <<>> \in Seq(S) /\ Len(<<>>) = 0
    BY LenProperties, EmptySeq
  <1>2. /\ end \in Seq(S) /\ Len(end) = Len(past) + 1
        /\ \A i \in 1..Len(past) : end[i] = past[i]
        /\ end[Len(past) + 1] = present
    BY AppendProperties
  <1> HIDE DEF new, end
  <1>3. new \in Seq(S) /\ LaidOut(new, past, present, <<>>)
    BY <1>1, LineProperties DEF new
  <1>4. Len(new) = Len(end) /\ \A i \in 1..Len(new) : new[i] = end[i]
    BY <1>1, <1>2, <1>3 DEF LaidOut
  <1> QED
    BY <1>2, <1>3, <1>4, SeqEqual DEF new, end

\* The line up to the present is the past and the present.
LEMMA LineUpToPresent ==
    ASSUME NEW S, NEW past \in Seq(S), NEW present \in S, NEW future \in Seq(S)
    PROVE  SubSeq(LineOf(past, present, future), 1, Len(past) + 1) = Append(past, present)
  <1> DEFINE line == LineOf(past, present, future)
             upto == SubSeq(line, 1, Len(past) + 1)
             end == Append(past, present)
  <1>1. Len(past) \in Nat /\ Len(future) \in Nat
    BY LenProperties
  <1>2. /\ end \in Seq(S) /\ Len(end) = Len(past) + 1
        /\ \A i \in 1..Len(past) : end[i] = past[i]
        /\ end[Len(past) + 1] = present
    BY AppendProperties
  <1> HIDE DEF line, end
  <1>3. line \in Seq(S) /\ LaidOut(line, past, present, future)
    BY LineProperties DEF line
  <1>4. \A i \in 1..(Len(past) + 1) : line[i] \in S
    BY <1>1, <1>3, ElementOfSeq DEF LaidOut
  <1>5. /\ upto \in Seq(S) /\ Len(upto) = Len(past) + 1
        /\ \A i \in 1..(Len(past) + 1) : upto[i] = line[i]
    BY <1>1, <1>3, <1>4, SubSeqProperties
  <1> HIDE DEF upto
  <1>6. ASSUME NEW i \in 1..Len(upto) PROVE upto[i] = end[i]
    <2>1. CASE i \in 1..Len(past)
      BY <1>2, <1>3, <1>5, <2>1 DEF LaidOut
    <2>2. CASE i = Len(past) + 1
      BY <1>2, <1>3, <1>5, <2>2 DEF LaidOut
    <2> QED
      BY <1>1, <1>5, <2>1, <2>2
  <1>7. upto = end
    BY <1>2, <1>5, <1>6, SeqEqual
  <1> QED
    BY <1>7 DEF upto, line, end

\* Dropping the oldest entry and adding a newest one commute.
LEMMA TailOfAppend ==
    ASSUME NEW S, NEW stack \in Seq(S), stack # <<>>, NEW e \in S
    PROVE  Tail(Append(stack, e)) = Append(Tail(stack), e)
  <1> DEFINE a == Append(stack, e)
             t == Tail(stack)
             l == Tail(a)
             r == Append(t, e)
  <1>1. /\ a \in Seq(S) /\ Len(a) = Len(stack) + 1 /\ a # <<>>
        /\ \A i \in 1..Len(stack) : a[i] = stack[i]
        /\ a[Len(stack) + 1] = e
    BY AppendProperties
  <1>2. /\ t \in Seq(S) /\ Len(t) = Len(stack) - 1
        /\ \A i \in 1..(Len(stack) - 1) : t[i] = stack[i + 1]
    BY HeadTailProperties
  <1>3. Len(stack) \in Nat \ {0}
    BY EmptySeq, LenProperties
  <1> HIDE DEF a, t
  <1>4. /\ l \in Seq(S) /\ Len(l) = Len(a) - 1
        /\ \A i \in 1..(Len(a) - 1) : l[i] = a[i + 1]
    BY <1>1, HeadTailProperties
  <1>5. /\ r \in Seq(S) /\ Len(r) = Len(t) + 1
        /\ \A i \in 1..Len(t) : r[i] = t[i]
        /\ r[Len(t) + 1] = e
    BY <1>2, AppendProperties
  <1> HIDE DEF l, r
  <1>6. ASSUME NEW i \in 1..Len(l) PROVE l[i] = r[i]
    <2>1. CASE i <= Len(stack) - 1
      <3>1. i \in 1..(Len(a) - 1) /\ i + 1 \in 1..Len(stack)
            /\ i \in 1..(Len(stack) - 1) /\ i \in 1..Len(t)
        BY <1>1, <1>2, <1>3, <1>4, <2>1
      <3> QED
        BY <1>1, <1>2, <1>4, <1>5, <3>1
    <2>2. CASE i = Len(stack)
      BY <1>1, <1>2, <1>3, <1>4, <1>5, <2>2
    <2> QED
      BY <1>1, <1>3, <1>4, <2>1, <2>2
  <1>7. Len(l) = Len(r)
    BY <1>1, <1>2, <1>3, <1>4, <1>5
  <1>8. l = r
    BY <1>4, <1>5, <1>6, <1>7, SeqEqual
  <1> QED
    BY <1>8 DEF a, t, l, r

\* An entry pushed while q becomes the present cuts the future off and
\* extends the line, and the cap forgets its oldest state (pushUndo).
LEMMA LineEdited ==
    ASSUME NEW S, NEW past \in Seq(S), NEW p \in S, NEW q \in S, NEW future \in Seq(S)
    PROVE  LineOf(Pushed(past, p), q, <<>>)
              = Timeline!Remember(Append(SubSeq(LineOf(past, p, future), 1, Len(past) + 1), q))
  <1> DEFINE end == Append(past, p)
             full == Append(end, q)
  <1>1. end \in Seq(S) /\ Len(end) = Len(past) + 1 /\ Len(past) \in Nat /\ end # <<>>
    BY AppendProperties, LenProperties
  <1> HIDE DEF end
  <1>2. Len(full) = Len(end) + 1
    BY <1>1, AppendProperties
  <1>3. Tail(full) = Append(Tail(end), q)
    BY <1>1, TailOfAppend
  <1>4. Tail(end) \in Seq(S)
    BY <1>1, HeadTailProperties
  <1>5. Pushed(past, p) = IF Len(end) > MaxUndo THEN Tail(end) ELSE end
    BY DEF Pushed, end
  <1>6. LineOf(Pushed(past, p), q, <<>>) = Append(Pushed(past, p), q)
    BY <1>1, <1>4, <1>5, LineEnds
  <1>7. Timeline!Remember(full) = IF Len(full) > MaxUndo + 1 THEN Tail(full) ELSE full
    BY DEF Timeline!Remember
  <1>8. SubSeq(LineOf(past, p, future), 1, Len(past) + 1) = end
    BY LineUpToPresent DEF end
  <1> HIDE DEF full
  <1>9. Append(Pushed(past, p), q) = Timeline!Remember(full)
    <2>1. CASE Len(end) > MaxUndo
      BY <1>1, <1>2, <1>3, <1>5, <1>7, <2>1, MaxUndoAssumption
    <2>2. CASE ~(Len(end) > MaxUndo)
      BY <1>1, <1>2, <1>5, <1>7, <2>2, MaxUndoAssumption DEF full
    <2> QED
      BY <2>1, <2>2
  <1> QED
    BY <1>6, <1>8, <1>9 DEF full

\* Rescaling the present leaves the rest of the line.
LEMMA LineAdjusted ==
    ASSUME NEW S, NEW past \in Seq(S), NEW p \in S, NEW q \in S, NEW future \in Seq(S)
    PROVE  LineOf(past, q, future) = [LineOf(past, p, future) EXCEPT ![Len(past) + 1] = q]
  <1> DEFINE old == LineOf(past, p, future)
             new == LineOf(past, q, future)
             n == Len(past) + 1 + Len(future)
  <1>1. Len(past) \in Nat /\ Len(future) \in Nat
    BY LenProperties
  <1> HIDE DEF old, new
  <1>2. old \in Seq(S) /\ LaidOut(old, past, p, future)
    BY LineProperties DEF old
  <1>3. new \in Seq(S) /\ LaidOut(new, past, q, future)
    BY LineProperties DEF new
  <1>4. /\ old \in [1..n -> S] /\ new \in [1..n -> S]
    BY <1>2, <1>3, LenProperties DEF LaidOut
  <1>5. ASSUME NEW i \in 1..n PROVE new[i] = [old EXCEPT ![Len(past) + 1] = q][i]
    <2>1. CASE i <= Len(past)
      BY <1>1, <1>2, <1>3, <1>4, <2>1 DEF LaidOut
    <2>2. CASE i = Len(past) + 1
      BY <1>1, <1>2, <1>3, <1>4, <2>2 DEF LaidOut
    <2>3. CASE i > Len(past) + 1
      <3> DEFINE k == i - Len(past) - 1
      <3>1. k \in 1..Len(future) /\ i = Len(past) + 1 + k /\ i # Len(past) + 1
        BY <1>1, <2>3
      <3> HIDE DEF k
      <3>2. old[i] = new[i]
        BY <1>2, <1>3, <3>1 DEF LaidOut
      <3> QED
        BY <1>4, <3>1, <3>2
    <2> QED
      BY <1>1, <2>1, <2>2, <2>3
  <1>6. new = [old EXCEPT ![Len(past) + 1] = q]
    BY <1>4, <1>5
  <1> QED
    BY <1>6 DEF old, new

-----------------------------------------------------------------------------
(***************************************************************************)
(* Where nothing else acts while a node is held, a gesture is open exactly *)
(* during its drag, the specs are those of its snapshot, and so is the     *)
(* layout until the pointer has moved.                                     *)
(***************************************************************************)

QuietInv ==
    /\ FreshInv
    /\ layoutGestureActive <=> dragging
    /\ layoutGestureActive => gestureSnapshot.specs = specs
    /\ layoutGestureActive /\ ~moved => gestureSnapshot.layout = layout

LEMMA QuietNext ==
    ASSUME KmacSelectors = {}, MidDragInputs = {}, QuietInv, FreshInv', [Next]_vars
    PROVE  QuietInv'
  <1> USE DEF QuietInv
  <1>a. Live.layout = layout /\ Live.specs = specs
    BY DEF Live
  <1>b. TypeOK /\ TypeOK'
    BY DEF FreshInv, TypeInv
  <1>c. \A input : Free(input) => ~dragging /\ ~layoutGestureActive
    BY DEF Free
  <1>1. CASE EditSpec
    BY <1>1, <1>b, <1>c DEF EditSpec, gesture, pointer
  <1>2. CASE ResetSpec
    BY <1>2, <1>b, <1>c DEF ResetSpec, gesture, pointer
  <1>3. CASE DuplicateRound
    BY <1>3, <1>b, <1>c DEF DuplicateRound, gesture, pointer
  <1>4. CASE ToolbarLayoutOp
    BY <1>4, <1>b, <1>c DEF ToolbarLayoutOp, CancelLayoutGesture, pointer
  <1>5. CASE PlainLayoutOp
    BY <1>5, <1>b, <1>c DEF PlainLayoutOp, gesture, pointer
  <1>6. CASE RescaleLayout
    BY <1>6, <1>b, <1>c DEF RescaleLayout, gesture, pointer
  <1>7. CASE BeginLayoutGesture
    BY <1>7, <1>a, <1>b DEF BeginLayoutGesture, live
  <1>8. CASE DragMove
    BY <1>8, <1>b DEF DragMove, gesture
  <1>9. CASE EndLayoutGesture \/ ClickExpandsLabel
    BY <1>9, <1>b DEF EndLayoutGesture, ClickExpandsLabel, GestureEnds
  <1>10. CASE Undo
    BY <1>10, <1>b, <1>c DEF Undo, gesture, pointer
  <1>11. CASE Redo
    BY <1>11, <1>b, <1>c DEF Redo, gesture, pointer
  <1>12. CASE \E sel \in Selectors : SwitchSelector(sel)
    BY <1>12, <1>b, <1>c DEF SwitchSelector, gesture, pointer
  <1>13. CASE \E sel \in Selectors : LoadDocument(sel)
    BY <1>13, <1>b, <1>c DEF LoadDocument, gesture, pointer
  <1>14. CASE UNCHANGED vars
    BY <1>14, <1>b DEF vars
  <1> QED
    BY <1>1, <1>2, <1>3, <1>4, <1>5, <1>6, <1>7, <1>8, <1>9, <1>10, <1>11, <1>12,
       <1>13, <1>14 DEF Next

-----------------------------------------------------------------------------
(***************************************************************************)
(* The moves of the timeline.  Shown is its present: the snapshot of an    *)
(* open gesture, else the live pair.                                       *)
(***************************************************************************)

Shown == IF layoutGestureActive THEN gestureSnapshot ELSE Live

Stacked == undoStack \in Seq(Snapshot) /\ redoStack \in Seq(Snapshot) /\ Shown \in Snapshot

LEMMA StackedProperties ==
    /\ TypeOK => Stacked
    /\ TypeOK' => Stacked'
  BY DEF TypeOK, Stacked, Shown, Live, Snapshot

\* An entry of the present, with nothing left to redo, is an edit.
LEMMA StepEdits ==
    ASSUME Stacked, Stacked', Shown' # Shown,
           undoStack' = Pushed(undoStack, Shown), redoStack' = <<>>
    PROVE  Timeline!Next
  <1> DEFINE line == LineOf(undoStack, Shown, redoStack)
             next == LineOf(undoStack', Shown', redoStack')
             at == Len(undoStack) + 1
  <1>1. next = Timeline!Remember(Append(SubSeq(line, 1, at), Shown'))
    BY LineEdited DEF Stacked
  <1>2. line[at] = Shown /\ Len(next) = Len(undoStack') + 1
    <2> HIDE DEF line, next
    <2>1. LaidOut(line, undoStack, Shown, redoStack)
      BY LineProperties DEF line, Stacked
    <2>2. LaidOut(next, undoStack', Shown', redoStack')
      BY LineProperties DEF next, Stacked
    <2>3. Len(undoStack') \in Nat /\ Len(redoStack') = 0
      BY LenProperties, EmptySeq DEF Stacked
    <2> QED
      BY <2>1, <2>2, <2>3 DEF LaidOut
  <1>3. Timeline!Edit(Shown')
    BY <1>1, <1>2 DEF Timeline!Edit, Timeline!Present, Timeline!Upto, LineOf, Shown
  <1> QED
    BY <1>3 DEF Timeline!Next, Stacked

\* Two empty stacks are a boundary.
LEMMA StepResets ==
    ASSUME Stacked', undoStack' = <<>>, redoStack' = <<>>
    PROVE  Timeline!Next
  <1>1. LineOf(undoStack', Shown', redoStack') = <<Shown'>>
    <2>1. LineOf(<<>>, Shown', <<>>) = Append(<<>>, Shown')
      BY LineEnds, EmptySeq DEF Stacked
    <2> QED
      BY <2>1
  <1>2. Timeline!Reset(Shown')
    BY <1>1, EmptySeq DEF Timeline!Reset, LineOf, Shown
  <1> QED
    BY <1>2 DEF Timeline!Next, Stacked

\* A new present between the same stacks is an adjustment.
LEMMA StepAdjusts ==
    ASSUME Stacked, Stacked', UNCHANGED <<undoStack, redoStack>>, Shown' # Shown,
           \A i \in 1..Len(undoStack) : Shown' # undoStack[i],
           \A i \in 1..Len(redoStack) : Shown' # redoStack[i]
    PROVE  Timeline!Next
  <1> DEFINE line == LineOf(undoStack, Shown, redoStack)
             next == LineOf(undoStack', Shown', redoStack')
             at == Len(undoStack) + 1
  <1>1. next = [line EXCEPT ![at] = Shown']
    BY LineAdjusted DEF Stacked
  <1>2. Len(undoStack) \in Nat /\ Len(redoStack) \in Nat
    BY LenProperties DEF Stacked
  <1> HIDE DEF line
  <1>3. LaidOut(line, undoStack, Shown, redoStack)
    BY LineProperties DEF line, Stacked
  <1>4. ASSUME NEW i \in 1..Len(line) PROVE Shown' # line[i]
    <2>1. CASE i <= Len(undoStack)
      BY <1>2, <1>3, <2>1 DEF LaidOut
    <2>2. CASE i = at
      BY <1>3, <2>2 DEF LaidOut
    <2>3. CASE i > at
      <3> DEFINE k == i - at
      <3>1. /\ k \in 1..Len(redoStack) /\ i = Len(undoStack) + 1 + k
            /\ Len(redoStack) - k + 1 \in 1..Len(redoStack)
        BY <1>2, <1>3, <2>3 DEF LaidOut
      <3> HIDE DEF k
      <3> QED
        BY <1>3, <3>1 DEF LaidOut
    <2> QED
      BY <1>2, <1>3, <2>1, <2>2, <2>3 DEF LaidOut
  <1>5. Timeline!Adjust(Shown')
    BY <1>1, <1>4 DEF Timeline!Adjust, LineOf, Shown, line
  <1> QED
    BY <1>5 DEF Timeline!Next, Stacked

\* The same stacks around the same present are no move at all.
LEMMA StepStutters ==
    ASSUME UNCHANGED <<undoStack, redoStack>>, Shown' = Shown
    PROVE  UNCHANGED Timeline!vars
  BY DEF Timeline!vars, Shown

\* Undo and redo move the cursor.
LEMMA StepUndoes ==
    ASSUME Stacked, Stacked', ~layoutGestureActive, ~layoutGestureActive', Undo
    PROVE  Timeline!Next
  <1>1. /\ Front(undoStack) \in Seq(Snapshot) /\ Len(undoStack) = Len(Front(undoStack)) + 1
        /\ Last(undoStack) \in Snapshot /\ Len(undoStack) \in Nat \ {0}
    BY FrontProperties DEF Undo, Stacked
  <1>2. Shown = Live /\ Shown' = Last(undoStack)
    BY <1>1 DEF Shown, Live, Undo, ApplySnapshot, Snapshot
  <1>3. LineOf(undoStack', Shown', redoStack') = LineOf(undoStack, Shown, redoStack)
    BY <1>2, LineUndone DEF Undo, Stacked
  <1>4. Timeline!Undo
    BY <1>1, <1>3 DEF Timeline!Undo, LineOf, Shown, Undo
  <1> QED
    BY <1>4 DEF Timeline!Next

LEMMA StepRedoes ==
    ASSUME Stacked, Stacked', ~layoutGestureActive, ~layoutGestureActive', Redo
    PROVE  Timeline!Next
  <1> DEFINE line == LineOf(undoStack, Shown, redoStack)
  <1>1. /\ Front(redoStack) \in Seq(Snapshot) /\ Len(redoStack) = Len(Front(redoStack)) + 1
        /\ Last(redoStack) \in Snapshot /\ Len(redoStack) \in Nat \ {0}
    BY FrontProperties DEF Redo, Stacked
  <1>2. Shown = Live /\ Shown' = Last(redoStack)
    BY <1>1 DEF Shown, Live, Redo, ApplySnapshot, Snapshot
  <1>3. LineOf(undoStack', Shown', redoStack') = line
    BY <1>2, LineRedone DEF Redo, Stacked
  <1>4. Len(undoStack) \in Nat /\ Len(undoStack') = Len(undoStack) + 1
    BY <1>2, AppendProperties, LenProperties DEF Redo, Stacked
  <1>5. Len(line) = Len(undoStack) + 1 + Len(redoStack)
    BY LineProperties DEF LaidOut, Stacked
  <1>6. Timeline!Redo
    BY <1>1, <1>3, <1>4, <1>5 DEF Timeline!Redo, LineOf, Shown
  <1> QED
    BY <1>6 DEF Timeline!Next

\* The live pair after a write is in no snapshot taken before it.
LEMMA WrittenIsNew ==
    ASSUME FreshInv, CanMint, TypeOK', 
           specs'.id = minted + 1 \/ layout' = minted + 1
    PROVE  Live' \notin Known(minted) /\ Live' \in Snapshot /\ Live' # lastApplied
  <1>1. Live' \in Snapshot
    BY DEF TypeOK, Live, Snapshot
  <1>2. Live' \notin Known(minted)
    BY MintedIsNew DEF FreshInv, TypeInv, TypeOK, Live
  <1> QED
    BY <1>1, <1>2, NoSnapshotAssumption DEF FreshInv

\* What the history shows is known.
LEMMA ShownIsKnown ==
    ASSUME FreshInv
    PROVE  Shown \in Known(minted)
  BY NoSnapshotAssumption DEF FreshInv, TypeInv, TypeOK, Shown

\* Every step of the history is a move of the timeline or none at all.
LEMMA TimelineStep ==
    ASSUME KmacSelectors = {}, MidDragInputs = {}, QuietInv, QuietInv', [Next]_vars
    PROVE  [Timeline!Next]_(Timeline!vars)
  <1>a. TypeOK /\ TypeOK' /\ FreshInv /\ Stacked /\ Stacked'
    BY StackedProperties DEF QuietInv, FreshInv, TypeInv
  <1>b. \A input : Free(input) => ~dragging /\ ~layoutGestureActive
    BY DEF Free, QuietInv
  <1>c. ~layoutGestureActive => Shown = Live
    BY DEF Shown
  <1>d. layoutGestureActive /\ gestureSnapshot.layout = layout => gestureSnapshot = Live
    BY DEF QuietInv, FreshInv, TypeInv, TypeOK, Snapshot, Live
  <1>e. ASSUME CanMint, specs'.id = minted + 1 \/ layout' = minted + 1
        PROVE  Live' # Shown /\ Live' # lastApplied
    BY <1>a, <1>e, WrittenIsNew, ShownIsKnown
  <1>f. ASSUME ~layoutGestureActive, ~layoutGestureActive', CanMint,
               specs'.id = minted + 1 \/ layout' = minted + 1,
               NEW open, ~open, CaptureTransition(Live', open)
        PROVE  Timeline!Next
    <2>1. Live' # Shown /\ Live' # lastApplied /\ Shown = Live /\ Shown' = Live'
      BY <1>f, <1>e DEF Shown
    <2>2. PushUndo(Live)
      BY <1>f, <2>1 DEF CaptureTransition
    <2> QED
      BY <1>a, <2>1, <2>2, StepEdits DEF PushUndo
  <1>i. \A sel : [id |-> minted + 1, sel |-> sel].id = minted + 1
    OBVIOUS
  <1>1. CASE EditSpec
    BY <1>1, <1>b, <1>f, <1>i DEF EditSpec, MintSpecs, gesture, Live
  <1>2. CASE ResetSpec
    BY <1>2, <1>b, <1>f, <1>i DEF ResetSpec, MintSpecs, gesture, Live
  <1>3. CASE DuplicateRound
    BY <1>3, <1>b, <1>f, <1>i DEF DuplicateRound, MintLayout, gesture, Live
  <1>4. CASE ToolbarLayoutOp
    BY <1>4, <1>b, <1>f DEF ToolbarLayoutOp, MintLayout, CancelLayoutGesture, Live
  <1>5. CASE PlainLayoutOp
    BY <1>5, <1>b, <1>f DEF PlainLayoutOp, MintLayout, gesture, Live
  <1>6. CASE RescaleLayout
    <2>1. /\ ~layoutGestureActive /\ ~layoutGestureActive' /\ CanMint
          /\ layout' = minted + 1 /\ UNCHANGED <<undoStack, redoStack>>
      BY <1>6, <1>b DEF RescaleLayout, MintLayout, gesture, history
    <2>2. Shown' = Live' /\ Live' # Shown /\ Live' \notin Known(minted)
      BY <1>a, <1>e, <2>1, WrittenIsNew DEF Shown
    <2>3. /\ \A i \in 1..Len(undoStack) : undoStack[i] \in Known(minted)
          /\ \A i \in 1..Len(redoStack) : redoStack[i] \in Known(minted)
      BY ElementOfSeq DEF QuietInv, FreshInv
    <2> QED
      BY <1>a, <2>1, <2>2, <2>3, StepAdjusts
  <1>7. CASE BeginLayoutGesture
    <2>1. Shown' = Shown
      BY <1>7, <1>b, <1>c DEF BeginLayoutGesture, Shown
    <2> QED
      BY <1>7, <2>1, StepStutters DEF BeginLayoutGesture, history
  <1>8. CASE DragMove
    <2>1. /\ layoutGestureActive /\ layoutGestureActive' /\ gestureSnapshot' = gestureSnapshot
      BY <1>8 DEF DragMove, QuietInv, gesture
    <2>2. UNCHANGED history
      BY <1>8, <2>1 DEF DragMove, CaptureTransition
    <2> QED
      BY <2>1, <2>2, StepStutters DEF Shown, history
  <1>9. CASE EndLayoutGesture
    <2>1. /\ layoutGestureActive /\ ~layoutGestureActive' /\ UNCHANGED live
          /\ Shown = gestureSnapshot /\ Shown' = Live
      BY <1>9 DEF EndLayoutGesture, GestureEnds, QuietInv, Shown, live, Live
    <2>2. CASE GestureCommits
      <3>1. Live # gestureSnapshot
        BY <2>2 DEF GestureCommits, Live
      <3> QED
        BY <1>9, <1>a, <2>1, <2>2, <3>1, StepEdits DEF EndLayoutGesture, PushUndo
    <2>3. CASE ~GestureCommits
      <3>1. Live = gestureSnapshot
        BY <1>d, <2>1, <2>3 DEF GestureCommits
      <3> QED
        BY <1>9, <2>1, <2>3, <3>1, StepStutters DEF EndLayoutGesture, history
    <2> QED
      BY <2>2, <2>3
  <1>10. CASE ClickExpandsLabel
    <2>1. /\ layoutGestureActive /\ ~layoutGestureActive' /\ ~moved /\ CanMint
          /\ Shown = gestureSnapshot /\ Shown' = Live' /\ layout' = minted + 1
      BY <1>10 DEF ClickExpandsLabel, GestureEnds, MintLayout, QuietInv, Shown
    <2>2. gestureSnapshot = Live /\ ~GestureCommits
      BY <1>d, <2>1 DEF QuietInv, GestureCommits
    <2>3. undoStack' = Pushed(undoStack, Shown) /\ redoStack' = <<>>
      BY <1>10, <2>1, <2>2 DEF ClickExpandsLabel
    <2> QED
      BY <1>a, <1>e, <2>1, <2>3, StepEdits
  <1>11. CASE Undo
    BY <1>11, <1>a, <1>b, StepUndoes DEF Undo, gesture
  <1>12. CASE Redo
    BY <1>12, <1>a, <1>b, StepRedoes DEF Redo, gesture
  <1>13. CASE \E sel \in Selectors : SwitchSelector(sel) \/ LoadDocument(sel)
    BY <1>13, <1>a, StepResets DEF SwitchSelector, LoadDocument, ClearEditHistory
  <1>14. CASE UNCHANGED vars
    BY <1>14, StepStutters DEF vars, Shown, Live
  <1> QED
    BY <1>1, <1>2, <1>3, <1>4, <1>5, <1>6, <1>7, <1>8, <1>9, <1>10, <1>11, <1>12,
       <1>13, <1>14 DEF Next

\* Where no run resyncs a KMAC key length and nothing else acts while a node
\* is held, the two stacks, the live stores and the gesture are an undo
\* timeline: an undo or a redo returns exactly the state the user saw, a drag
\* is one edit, and an edit forgets what had been undone (edit-history.ts).
THEOREM TimelineImplemented ==
    ASSUME KmacSelectors = {}, MidDragInputs = {}
    PROVE  Spec => ImplementsTimeline
  <1>1. Init => QuietInv
    BY FreshInit DEF Init, QuietInv
  <1>2. QuietInv /\ [Next]_vars => QuietInv'
    <2>1. QuietInv /\ [Next]_vars => FreshInv'
      BY FreshNext DEF QuietInv
    <2> QED
      BY <2>1, QuietNext
  <1>3. Init => Timeline!Init
    <2> SUFFICES ASSUME Init PROVE Timeline!Init
      OBVIOUS
    <2>1. Stacked /\ undoStack = <<>> /\ redoStack = <<>>
      BY TypeInit, StackedProperties DEF Init, TypeInv
    <2>2. LineOf(undoStack, Shown, redoStack) = <<Shown>>
      <3>1. LineOf(<<>>, Shown, <<>>) = Append(<<>>, Shown)
        BY <2>1, LineEnds, EmptySeq DEF Stacked
      <3> QED
        BY <2>1, <3>1
    <2>3. Len(undoStack) + 1 = 1
      BY <2>1, EmptySeq
    <2> QED
      BY <2>1, <2>2, <2>3 DEF Timeline!Init, LineOf, Shown, Stacked
  <1>4. QuietInv /\ QuietInv' /\ [Next]_vars => [Timeline!Next]_(Timeline!vars)
    BY TimelineStep
  <1> QED
    BY <1>1, <1>2, <1>3, <1>4, PTL DEF Spec, ImplementsTimeline, Timeline!Spec

=============================================================================
