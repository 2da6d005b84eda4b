\* One key, a container or a level.  The ring of three is overwritten; rates
\* beyond MaxRate come from counters that wrap and from real use.
SPECIFICATION Spec
CONSTANTS
    Key = {k}
    Size = 3
    Word = 64
    MaxRate = 1
    Infinity = 32
    Steps = 2
    MaxClock = 4
    MaxUse = 2
    MaxOoms = 1
INVARIANTS
    TypeOK
    RatesSpanOnePoll
    NeverOverstated
    MeanWithinValues
PROPERTY
    IsWindow
\* Start returns after repeated failures
CHECK_DEADLOCK FALSE
