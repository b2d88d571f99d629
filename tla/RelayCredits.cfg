CONSTANTS
    Relays = {r1, r2}
    LastMonth = 1
    MaxTime = 2
    MonthLen = 2
    Lease = 1
    Refresh = 1
    Requested = 2
    Sizes = {1, 2}
    Overages = {2, 4}
    Included = 1
    UnitBytes = 2
    MinorPerUnit = 3
    MaxReqs = 2
    MaxDrawn = 2
    MaxFaults = 1
    MaxOutside = 1
SPECIFICATION Spec
INVARIANTS TypeOK ChargeWithinCap FenceWithinMonth CountIsFinal
PROPERTIES UsedWithinMonth OneBudget
CHECK_DEADLOCK FALSE
SYMMETRY Symmetry
