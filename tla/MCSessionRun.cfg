SPECIFICATION Spec
CONSTANTS
    Perspectives = {"server", "client"}
    MaxPathID = 1
    MaxSends = 1
    GetsClosePath = {"server", "client"}
    MaxFaults = 1
CHECK_DEADLOCK FALSE
INVARIANT
    PathsStopped
PROPERTIES
    NeverStuck
    AddressesUsed
