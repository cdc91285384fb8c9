SPECIFICATION FairSpec
CONSTANTS
    stream = stream
    closePath = closePath
    Frame = {stream, closePath}
    ProbedFrame = {stream}
    Lengths = {1, 2}
    MaxTrackedSentPackets = 2
    MaxTrackedSkippedPackets = 1
    MaxGap = 1
    MaxPacketNumber = 3
    MaxPeerPacketNumber = 2
CHECK_DEADLOCK FALSE
INVARIANTS
    BytesInFlightExact
    NothingForgotten
    LossRecoveryArmed
    StopWaitingPassesLost
PROPERTY
    InFlightResolved
