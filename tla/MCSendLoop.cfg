CONSTANTS
    MaxPayload = 5
    PathIDs = {0, 1, 3}
    Window = 1
    MaxNonRetransmittablePackets = 2
    MaxTrackedSentPackets = 12
    MaxCountAction = 1
    RTTs = {1, 2}
    Scenarios <- MCScenarios
SPECIFICATION Spec
INVARIANTS
    NothingLost
    PacketWellFormed
    ErrorCause
PROPERTY
    WindowsUsed
