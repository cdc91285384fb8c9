SPECIFICATION FlowSpec
CONSTANTS
    Streams <- MCStreams
    Uncounted = {}
    Length <- MCLength
    InitialSendWindow <- MCInitialSendWindow
    ReceiveWindow <- MCReceiveWindow
    MaxReceiveWindowIncrement <- MCMaxIncrement
    Resettable = {5}
CHECK_DEADLOCK FALSE
INVARIANT HonestPeerAccepted
PROPERTY StreamsComplete
