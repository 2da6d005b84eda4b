\* Two nodes: one sampler of two is enough to pass 40 percent, both of them
\* or a stale response of a departed node as well.
SPECIFICATION FairSpec
CONSTANTS
    Node = {n1, n2}
    MinPct = 40
    WaitReady = 1
    WaitServe = 0
    DeleteCycles = 1
    HasLabels = TRUE
INVARIANTS
    TypeOK
    ReadyAfterWait
PROPERTIES
    DeletesOnlySilent
    ImplementsGate
    SamplersGetRegistered
