\* Two streams that may carry the same node (a sampler pod being replaced),
\* and a pass of expireEntries during which the clock advances.
SPECIFICATION FairSpec
CONSTANTS
    Node = {n1, n2}
    Handler = {h1, h2}
    TTL = 2
    PassTicks = 1
    None = None
INVARIANTS
    TypeOK
    PunctualNodeServed
PROPERTIES
    SilentNodeExpires
