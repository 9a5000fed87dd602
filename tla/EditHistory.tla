---------------------------- MODULE EditHistory ----------------------------
(***************************************************************************)
(* The undo/redo store of the explorer (src/ui/stores/edit-history.ts)     *)
(* together with the operations that write the two stores it observes: the *)
(* spec store and the layout store.                                        *)
(*                                                                         *)
(* Neither store mutates in place, so an entry of the history is a pair of *)
(* references.  A reference is modelled by the number it was minted with;  *)
(* a spec reference also says which selectors (cipher, mode of operation,  *)
(* padding, category, KMAC key length) it was built for, because those     *)
(* selectors live outside the snapshot.  The mode field of a snapshot is   *)
(* recorded and never read, and is left out.                               *)
(*                                                                         *)
(* JavaScript runs one task at a time and the capture observer flushes     *)
(* synchronously, so a handler, the writes it makes and the observer's     *)
(* reaction are one action.                                                *)
(***************************************************************************)
EXTENDS Integers, Sequences, SequencesExt

CONSTANTS
    MaxUndo,        \* MAX_UNDO: entries the undo stack retains
    MaxRefs,        \* bound of the model: references minted in a behaviour
    Selectors,      \* the selector settings outside a snapshot
    KmacSelectors,  \* those among them that select KMAC, at some key length
    MidDragInputs,  \* what else may act while a pointer drag is held
    NoSnapshot      \* null

ASSUME MaxUndoAssumption == MaxUndo \in Nat \ {0}
ASSUME MaxRefsAssumption == MaxRefs \in Nat \ {0}
ASSUME KmacAssumption == KmacSelectors \subseteq Selectors
ASSUME MidDragAssumption == 
    MidDragInputs \subseteq {"edit", "shortcut", "switch", "load", "pointer"}

SpecRef == [id : 0..MaxRefs, sel : Selectors]
Snapshot == [specs : SpecRef, layout : 0..MaxRefs]

ASSUME NoSnapshotAssumption == NoSnapshot \notin Snapshot

VARIABLES
    specs,               \* live SpecsByMode reference
    layout,              \* live LayoutMap reference
    selectors,           \* live selector signals
    undoStack,           \* past snapshots, newest last
    redoStack,           \* undone snapshots, next to redo last
    lastApplied,         \* what undo/redo last wrote, or null
    layoutGestureActive, \* pointer moves coalesce into one entry
    gestureSnapshot,     \* the snapshot at the start of the drag, or null
    dragging,            \* the drag's window listeners are attached
    moved,               \* the drag has passed its threshold
    minted               \* references minted so far

live == <<specs, layout, selectors>>
history == <<undoStack, redoStack, lastApplied>>
gesture == <<layoutGestureActive, gestureSnapshot>>
pointer == <<dragging, moved>>
vars == <<specs, layout, selectors, undoStack, redoStack, lastApplied,
          layoutGestureActive, gestureSnapshot, dragging, moved, minted>>

Live == [specs |-> specs, layout |-> layout]

(***************************************************************************)
(* Writes of the observed stores.                                          *)
(***************************************************************************)

\* A write mints references: one for the layout, one for the specs, or both.
CanMint == minted < MaxRefs
MintSpecs(sel) == specs' = [id |-> minted + 1, sel |-> sel]
MintLayout == layout' = minted + 1
Minted == minted' = minted + 1

\* While the pointer is held only other inputs act: a focused control by
\* keyboard ("edit", "switch"), the undo keys ("shortcut"), a document that
\* arrives ("load"), or a second drag after a lost pointerup ("pointer").
Free(input) == dragging => input \in MidDragInputs

(***************************************************************************)
(* Capture.                                                                *)
(***************************************************************************)

\* Mutant of Pushed: the cap is off by one.
PushedOneTooMany(stack, snap) ==
    LET next == Append(stack, snap)
    IN  IF Len(next) > MaxUndo + 1 THEN Tail(next) ELSE next

\* pushUndo: the oldest entry is evicted past MaxUndo; the redo future and
\* the re-entrancy guard are dropped.
Pushed(stack, snap) ==
    LET next == Append(stack, snap)
    IN  IF Len(next) > MaxUndo THEN Tail(next) ELSE next

\* Mutant of PushUndo: an edit leaves the redo future in place.
PushUndoKeepsRedo(snap) ==
    /\ undoStack' = Pushed(undoStack, snap)
    /\ lastApplied' = NoSnapshot
    /\ UNCHANGED redoStack

PushUndo(snap) ==
    /\ undoStack' = Pushed(undoStack, snap)
    /\ redoStack' = <<>>
    /\ lastApplied' = NoSnapshot

\* captureTransition, outside a suppressed region: skip the restore's own
\* write and the pure-layout ticks of an open gesture, record any other one.
CaptureTransition(cur, gestureOpen) ==
    IF \/ lastApplied = cur
       \/ gestureOpen /\ specs = cur.specs
    THEN UNCHANGED history
    ELSE PushUndo(Live)

\* Mutant of ClearEditHistory: the redo stack survives a boundary.
ClearUndoOnly ==
    /\ undoStack' = <<>>
    /\ lastApplied' = NoSnapshot
    /\ UNCHANGED redoStack

ClearEditHistory ==
    /\ undoStack' = <<>>
    /\ redoStack' = <<>>
    /\ lastApplied' = NoSnapshot

\* Mutant of CancelLayoutGesture: nothing is dropped.
CancelNothing == UNCHANGED gesture

CancelLayoutGesture ==
    /\ layoutGestureActive' = FALSE
    /\ gestureSnapshot' = NoSnapshot

(***************************************************************************)
(* Operations.                                                             *)
(***************************************************************************)

Init ==
    /\ selectors \in Selectors
    /\ specs = [id |-> 0, sel |-> selectors]
    /\ layout = 0
    /\ undoStack = <<>> /\ redoStack = <<>> /\ lastApplied = NoSnapshot
    /\ layoutGestureActive = FALSE /\ gestureSnapshot = NoSnapshot
    /\ dragging = FALSE /\ moved = FALSE
    /\ minted = 0

\* A parameter edit, rewire, insertion, deletion or mirror.
EditSpec ==
    /\ CanMint /\ Free("edit")
    /\ MintSpecs(specs.sel) /\ Minted
    /\ CaptureTransition([specs |-> specs', layout |-> layout], layoutGestureActive)
    /\ UNCHANGED <<layout, selectors, gesture, pointer>>

\* resetSpec: the canonical spec of the live selectors, as an undoable edit.
ResetSpec ==
    /\ CanMint /\ Free("edit")
    /\ MintSpecs(selectors) /\ Minted
    /\ CaptureTransition([specs |-> specs', layout |-> layout], layoutGestureActive)
    /\ UNCHANGED <<layout, selectors, gesture, pointer>>

\* duplicateRoundInSpec: specs and the renamed layout land in one batch.
DuplicateRound ==
    /\ CanMint /\ Free("edit")
    /\ MintSpecs(specs.sel) /\ MintLayout /\ Minted
    /\ CaptureTransition([specs |-> specs', layout |-> layout'], layoutGestureActive)
    /\ UNCHANGED <<selectors, gesture, pointer>>

\* Collapse, replication mode, layout reset: cancel a stuck gesture first.
ToolbarLayoutOp ==
    /\ CanMint /\ Free("edit")
    /\ CancelLayoutGesture
    /\ MintLayout /\ Minted
    /\ CaptureTransition([specs |-> specs, layout |-> layout'], layoutGestureActive')
    /\ UNCHANGED <<specs, selectors, pointer>>

\* A source's stroke style or one node's pin reset: no cancel.
PlainLayoutOp ==
    /\ CanMint /\ Free("edit")
    /\ MintLayout /\ Minted
    /\ CaptureTransition([specs |-> specs, layout |-> layout'], layoutGestureActive)
    /\ UNCHANGED <<specs, selectors, gesture, pointer>>

\* A density change rescales the pins with capture suppressed.
RescaleLayout ==
    /\ CanMint /\ Free("edit")
    /\ MintLayout /\ Minted
    /\ UNCHANGED <<specs, selectors, history, gesture, pointer>>

\* pointerdown on a node.  A drag whose pointerup was lost is overwritten.
BeginLayoutGesture ==
    /\ Free("pointer")
    /\ gestureSnapshot' = Live
    /\ layoutGestureActive' = TRUE
    /\ dragging' = TRUE /\ moved' = FALSE
    /\ UNCHANGED <<live, history, minted>>

\* pointermove past the threshold.
DragMove ==
    /\ CanMint /\ dragging
    /\ moved' = TRUE
    /\ MintLayout /\ Minted
    /\ CaptureTransition([specs |-> specs, layout |-> layout'], layoutGestureActive)
    /\ UNCHANGED <<specs, selectors, gesture, dragging>>

\* Mutant of GestureCommits: every pointerup commits.
EveryGestureCommits == layoutGestureActive

\* endLayoutGesture: one entry iff the layout reference changed.
GestureCommits == layoutGestureActive /\ layout # gestureSnapshot.layout

GestureEnds ==
    /\ dragging /\ dragging' = FALSE
    /\ layoutGestureActive' = FALSE
    /\ gestureSnapshot' = IF layoutGestureActive THEN NoSnapshot ELSE gestureSnapshot
    /\ UNCHANGED moved

\* pointerup or pointercancel; a click may also select a node.
EndLayoutGesture ==
    /\ GestureEnds
    /\ IF GestureCommits THEN PushUndo(gestureSnapshot) ELSE UNCHANGED history
    /\ UNCHANGED <<live, minted>>

\* The same, on a click whose fallback toggles a label's expansion.
ClickExpandsLabel ==
    /\ CanMint /\ ~moved
    /\ GestureEnds
    /\ MintLayout /\ Minted
    /\ undoStack' = Pushed(IF GestureCommits THEN Pushed(undoStack, gestureSnapshot)
                                             ELSE undoStack, Live)
    /\ redoStack' = <<>> /\ lastApplied' = NoSnapshot
    /\ UNCHANGED <<specs, selectors>>

\* restoreSpecsForHistory and replaceLayoutMap in one batch, behind the
\* re-entrancy guard: the observer sees lastApplied and records nothing.
ApplySnapshot(snap) ==
    /\ lastApplied' = snap
    /\ specs' = snap.specs
    /\ layout' = snap.layout

Undo ==
    /\ undoStack # <<>> /\ Free("shortcut")
    /\ undoStack' = Front(undoStack)
    /\ redoStack' = Append(redoStack, Live)
    /\ ApplySnapshot(Last(undoStack))
    /\ UNCHANGED <<selectors, gesture, pointer, minted>>

Redo ==
    /\ redoStack # <<>> /\ Free("shortcut")
    /\ redoStack' = Front(redoStack)
    /\ undoStack' = Append(undoStack, Live)
    /\ ApplySnapshot(Last(redoStack))
    /\ UNCHANGED <<selectors, gesture, pointer, minted>>

\* A selector change: the canonical spec is rebuilt with capture suppressed
\* and both stacks are dropped (withBoundaryReset).
SwitchSelector(sel) ==
    /\ CanMint /\ Free("switch")
    /\ selectors' = sel
    /\ MintSpecs(sel) /\ Minted
    /\ ClearEditHistory
    /\ UNCHANGED <<layout, gesture, pointer>>

\* applyDocument: the file's text or the decoded link arrives in a later
\* task, whatever the user is doing by then.
LoadDocument(sel) ==
    /\ CanMint /\ Free("load")
    /\ selectors' = sel
    /\ MintSpecs(sel) /\ MintLayout /\ Minted
    /\ ClearEditHistory
    /\ UNCHANGED <<gesture, pointer>>

\* run() under KMAC: a key of another length was typed and the field never
\* blurred, so the run itself rebuilds the spec at the typed length.
RunResyncsKmacKey(sel) ==
    /\ CanMint
    /\ selectors \in KmacSelectors /\ sel # specs.sel
    /\ selectors' = sel
    /\ MintSpecs(sel) /\ Minted
    /\ CaptureTransition([specs |-> specs', layout |-> layout], layoutGestureActive)
    /\ UNCHANGED <<layout, gesture, pointer>>

Next ==
    \/ EditSpec \/ ResetSpec \/ DuplicateRound
    \/ ToolbarLayoutOp \/ PlainLayoutOp \/ RescaleLayout
    \/ BeginLayoutGesture \/ DragMove
    \/ EndLayoutGesture \/ ClickExpandsLabel
    \/ Undo \/ Redo
    \/ \E sel \in Selectors : SwitchSelector(sel) \/ LoadDocument(sel)
    \/ \E sel \in KmacSelectors : RunResyncsKmacKey(sel)

Spec == Init /\ [][Next]_vars

-----------------------------------------------------------------------------
(***************************************************************************)
(* Properties.                                                             *)
(***************************************************************************)

\* The shape of the state: every reference has been minted, and a gesture
\* that is open holds its pre-drag snapshot.
TypeOK ==
    /\ specs \in SpecRef /\ layout \in 0..MaxRefs /\ selectors \in Selectors
    /\ undoStack \in Seq(Snapshot) /\ redoStack \in Seq(Snapshot)
    /\ lastApplied \in Snapshot \cup {NoSnapshot}
    /\ layoutGestureActive \in BOOLEAN /\ dragging \in BOOLEAN /\ moved \in BOOLEAN
    /\ gestureSnapshot \in Snapshot \cup {NoSnapshot}
    /\ layoutGestureActive => gestureSnapshot \in Snapshot
    /\ minted \in 0..MaxRefs

\* redo() appends to the undo stack without the cap that pushUndo applies,
\* so the cap holds only because both stacks together never outgrow it.
HistoryBound == Len(undoStack) + Len(redoStack) <= MaxUndo

\* The boundary rule of withBoundaryReset: no entry of the history was taken
\* under other selectors than the live ones, so neither undo nor redo ever
\* leaves the spec at odds with the dropdowns.
BoundaryRule ==
    /\ specs.sel = selectors
    /\ \A i \in DOMAIN undoStack : undoStack[i].specs.sel = selectors
    /\ \A i \in DOMAIN redoStack : redoStack[i].specs.sel = selectors

\* A discrete layout operation that cancels the gesture first is undoable
\* whatever state an earlier drag was left in (cancelLayoutGesture).
ToolbarOpsUndoable ==
    [][ToolbarLayoutOp => undoStack' # <<>> /\ Last(undoStack') = Live]_vars

\* The end of a gesture commits an entry only for a drag that moved
\* something ("iff the drag actually changed the layout map").
OnlyMovesCommit ==
    [][EndLayoutGesture /\ undoStack' # undoStack => moved]_vars

\* The history is an undo timeline.  While a gesture is open the present is
\* the pre-drag snapshot: its pointer moves have not happened yet.
Timeline == INSTANCE UndoTimeline WITH
    Depth <- MaxUndo,
    States <- Snapshot,
    line <- undoStack
            \o <<IF layoutGestureActive THEN gestureSnapshot ELSE Live>>
            \o Reverse(redoStack),
    at <- Len(undoStack) + 1

ImplementsTimeline == Timeline!Spec

=============================================================================
