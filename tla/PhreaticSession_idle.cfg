CONSTANTS
    A = a
    B = b
    None = None
    Ids = {1, 2, 3, 4, 5}
    Workers = {udp}
    Dialing = {{a, b}}
    GiveUp = 3
    RekeyAfter = 4
    RejectAfter = 6
    FaultKinds = {}
    MaxFaults = 0
    DarkCap = 0
    Chatty = FALSE
SPECIFICATION Spec
INVARIANTS QuiescentReadable
