SPECIFICATION FairSpec
CONSTANTS
    m1 = m1
    m2 = m2
    c1 = c1
    Members <- Pair
    Cases <- MCCases
    Configs <- RetriedOrAlone
    BaseAttempts = 1
    FlakyAttempts = 3
    InfraMaxAttempts = 3
INVARIANTS
    FullBudget
    AttemptsBounded
    RetriesNarrowed
    WholeUnitVerdict
PROPERTIES
    Returns
    RetriesRunFresh
