CONSTANTS
    A = a
    B = b
    None = None
    Ids = {1, 2, 3, 4, 5}
    Workers = {udp}
    Dialing = {{a, b}, {b}}
    GiveUp = 3
    RekeyAfter = 4
    RejectAfter = 6
    FaultKinds = {"loss", "dup", "late", "roam", "restart"}
    MaxFaults = 1
    DarkCap = 11
    Chatty = TRUE
SPECIFICATION FairSpec
INVARIANTS OutageBounded QuiescentReadable TrafficNeverStalls
PROPERTIES Recovery
