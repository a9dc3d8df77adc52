CONSTANTS
    Window = 3
    MaxSeq = 6
    MaxPackets = 7
SPECIFICATION LinkSpec
INVARIANTS BitmapExact GapsExact DuplicatesReal LossNotUnderstated LossAccounted
PROPERTIES ImplementsTracker
CHECK_DEADLOCK FALSE
