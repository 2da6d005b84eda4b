SPECIFICATION FairSpec
CONSTANTS
    N = 2
INVARIANTS
    TypeOK
    ArchivesAreComplete
    NothingElseIsLost
PROPERTIES
    CompleteFilesLeave
