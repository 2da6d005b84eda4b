\* One collector that may come and go; no symmetry, liveness is checked.
SPECIFICATION FairSpec
CONSTANTS
    Addr = {a1}
    Gen = {g1, g2}
    Pod = {p1}
    RetryCount = 1
    None = None
PROPERTIES
    BrokenIsRemoved
    SampledPodIsReported
\* the process may end
CHECK_DEADLOCK FALSE
