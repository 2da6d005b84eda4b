SPECIFICATION Spec
CONSTANTS
    Key = {k}
    Size = 3
    Word = 64
    MaxRate = 1
    Infinity = 32
    Steps = 2
    MaxClock = 4
    MaxUse = 1
    MaxOoms = 1
INVARIANT
    OomEventsHappened
CHECK_DEADLOCK FALSE
