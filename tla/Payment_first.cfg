CONSTANTS
    Workers = {w1, w2}
    Hooks = {h1, h2}
    Retries = 1
    MaxCalls = 2
    MaxEvents = 4
    MaxCrashes = 0
SPECIFICATION Spec
INVARIANT OneCreatePerAttempt
CHECK_DEADLOCK FALSE
