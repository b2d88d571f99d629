CONSTANTS
    A = a
    B = b
    None = None
    Ids = {1, 2, 3, 4, 5}
    Workers = {udp, relay}
    Dialing = {{a, b}}
    GiveUp = 1
    RekeyAfter = 2
    RejectAfter = 3
    FaultKinds = {"loss", "dup", "late", "roam", "restart"}
    MaxFaults = 1
    DarkCap = 0
    Chatty = TRUE
SPECIFICATION Spec
INVARIANTS TypeOK InitiatorRekeys ResponderExpiresFirst
PROPERTIES NoUnprovenTakeover OnlyInitiatorDials
