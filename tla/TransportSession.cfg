CONSTANTS
    WINDOW_WORDS = 2
    Openers = {o1, o2}
    Bursts = {62, 64}
    MaxCounter = 130
    MaxMessages = 4
    None = None
SPECIFICATION Spec
INVARIANTS TypeOK AtMostOnce WindowExact
PROPERTY OnlyReplaysRefused
CHECK_DEADLOCK FALSE
