\* Anything acts during a drag, and every setting selects KMAC.
CONSTANTS
    aes = aes
    des = des
    kmac32 = kmac32
    kmac64 = kmac64
    NoSnapshot = NoSnapshot
    MaxUndo = 2
    MaxRefs = 4
    Selectors <- KmacLengths
    KmacSelectors <- KmacLengths
    MidDragInputs <- AnyInput
SPECIFICATION Spec
INVARIANT HistoryBound
PROPERTY ToolbarOpsUndoable
