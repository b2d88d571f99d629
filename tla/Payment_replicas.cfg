CONSTANTS
    Workers = {w1, w2}
    Hooks = {h1}
    Retries = 1
    MaxCalls = 2
    MaxEvents = 3
    MaxCrashes = 0
SPECIFICATION Spec
INVARIANTS TypeOK RetryCreateOnce PaidByItsTransaction
PROPERTIES OneShotRetries PaidLeftOnlyByLatest
SYMMETRY Symmetry
CHECK_DEADLOCK FALSE
