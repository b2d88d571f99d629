CONSTANTS
    Sources = {p, q}
    Ids = {1, 2, 3, 4}
    MAX_FRAGMENTS = 4
    max_entries = 3
    max_per_source = 2
    load_threshold = 2
    timeout = 2
    Initiator = p
    COUNT = 2
    MaxOthers = 1
    FaultKinds = {}
    MaxFaults = 0
    MaxRotations = 0
    Mac1 = Mac1
    None = None
SPECIFICATION FairSpec
PROPERTY CookieHonoured
