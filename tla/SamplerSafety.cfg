\* Two collectors, two incarnations of the connection to each: a watcher of
\* an old connection can meet the new one, on one address or on both.
SPECIFICATION Spec
CONSTANTS
    Addr = {a1, a2}
    Gen = {g1, g2}
    Pod = {p1}
    RetryCount = 1
    None = None
SYMMETRY Symmetry
INVARIANTS
    TypeOK
    TableMatchesStreams
    PushReachesOpenTargets
    FinalPushBeforeShutdown
PROPERTIES
    StopsNeedAFailure
\* the process may end
CHECK_DEADLOCK FALSE
