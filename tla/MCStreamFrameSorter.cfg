SPECIFICATION SorterSpec
CONSTANTS
    Length = 7
    MaxStreamFrameSorterGaps = 3
    MaxByteCount = 100
CHECK_DEADLOCK FALSE
INVARIANT
    GapsAreExact
    NothingHeldBack
PROPERTY
    InOrder
