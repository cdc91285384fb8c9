SPECIFICATION HandlerFairSpec
CONSTANTS
    Version39 = FALSE
    MaxTrackedReceivedAckRanges = 2
    MaxPacketsReceivedBeforeAckSend = 3
    RetransmittablePacketsBeforeAck = 2
    MaxSinceLastAck = 4
    MaxPacketNumber = 4
CHECK_DEADLOCK FALSE
INVARIANTS
    GetAckFrameSafe
    AckPromise
PROPERTY
    AckedEventually
