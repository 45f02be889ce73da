SPECIFICATION FairSpec
CONSTANTS
    t1 = t1
    t2 = t2
    Targets <- MCTargets
    OverrideTargets <- MCOverrides
    Modes = {"run", "list", "help", "usage"}
    MaxActions <- MCActions
    Batches <- MCBatches
    MaxReportQueue = 1
    MaxListings = 1
    InfraMaxAttempts = 2
INVARIANTS
    TypeOK
    NoFalseGreen
    NoFalseRed
    NothingLost
PROPERTIES
    DiscoveryFirst
    EndIsLast
    ImplementsPromise
    SessionEnds
