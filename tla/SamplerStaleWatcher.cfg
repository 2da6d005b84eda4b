SPECIFICATION Spec
CONSTANTS
    Addr = {a1}
    Gen = {g1, g2}
    Pod = {p1}
    RetryCount = 0
    None = None
PROPERTIES
    HealthyConnectionKept
CHECK_DEADLOCK FALSE
