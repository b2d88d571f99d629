CONSTANTS
    Sources = {p, q}
    Ids = {1, 2, 3, 4}
    MAX_FRAGMENTS = 4
    max_entries = 3
    max_per_source = 2
    load_threshold = 2
    timeout = 2
    Initiator = p
    COUNT = 2
    MaxOthers = 1
    FaultKinds = {"loss", "dup", "late"}
    MaxFaults = 1
    MaxRotations = 1
    Mac1 = Mac1
    None = None
SPECIFICATION FairSpec
INVARIANTS TypeOK UnvalidatedBounded WithinBudget
PROPERTY Admitted
