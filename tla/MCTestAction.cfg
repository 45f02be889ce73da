SPECIFICATION Spec
CONSTANTS
    m1 = m1
    m2 = m2
    c1 = c1
    Members <- Pair
    Cases <- MCCases
    Configs <- Isolated
    BaseAttempts = 1
    FlakyAttempts = 2
    InfraMaxAttempts = 1
SYMMETRY Symmetry
INVARIANTS
    OneResultEach
    FaithfulOutcome
    ObservationsKept
PROPERTIES
    RetriesRunFresh
