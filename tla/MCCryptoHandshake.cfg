SPECIFICATION Spec
CONSTANTS
    Starts <- MCStarts
    Second = 2
    MaxClientHellos = 3
    MaxUndecryptablePackets = 1
CHECK_DEADLOCK FALSE
INVARIANTS
    KeysAgree
    HonestNeverFails
    NoLostWakeup
PROPERTY
    HandshakeEnds
