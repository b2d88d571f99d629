CONSTANTS
    Workers = {w1}
    Hooks = {h1}
    Retries = 2
    MaxCalls = 1
    MaxEvents = 4
    MaxCrashes = 1
SPECIFICATION FairSpec
PROPERTIES SubmittingEnds PaymentNoticed
CHECK_DEADLOCK FALSE
