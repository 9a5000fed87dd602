\* Nothing but the drag itself acts during a drag.
CONSTANTS
    aes = aes
    des = des
    kmac32 = kmac32
    kmac64 = kmac64
    NoSnapshot = NoSnapshot
    MaxUndo = 2
    MaxRefs = 5
    Selectors <- Ciphers
    KmacSelectors <- NoKmac
    MidDragInputs <- Nothing
SPECIFICATION Spec
INVARIANT BoundaryRule
PROPERTIES ImplementsTimeline OnlyMovesCommit
