SPECIFICATION MapSpec
CONSTANTS
    Perspectives = {"server", "client"}
    Openers = {o1, o2}
    MaxOutgoingStreams = 1
    MaxIncomingStreams = 3
    MaxID = 7
CHECK_DEADLOCK FALSE
INVARIANTS
    TableConsistent
    NoStarvation
PROPERTY
    WaitersReturn
