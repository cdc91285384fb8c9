SPECIFICATION PathSpec
CONSTANTS
    Epoch <- OneBitBytes
    Wrap = 4096
    averagePeriod = 2
    MaxPacketNumber = 7
    MaxInNetwork = 2
    MaxGap = 2
    MaxBlocks = 3
    ByteValues = 3
    MaxTrackedReceivedAckRanges = 4
    PathID = 1
CHECK_DEADLOCK FALSE
INVARIANTS
    LengthSuffices
    FramesRoundTrip
PROPERTY
    ImplementsSet
