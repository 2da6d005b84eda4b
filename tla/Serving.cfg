\* With and without an election (chosen in Init); two attempts stand for the
\* twenty of the code.
SPECIFICATION FairSpec
CONSTANTS
    Steps = 2
    ExitAfterLoss = TRUE
    None = None
INVARIANTS
    TypeOK
    ReadyAfterServe
PROPERTIES
    ReadyIsReported
