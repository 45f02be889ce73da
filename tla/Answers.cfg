SPECIFICATION ASpec
CONSTANTS
    MaxSignals = 2
    MaxFaults = 1
    MaxTests = 2
INVARIANTS
    NothingLeft
    PassIsEarned
    TimeoutsAreTold
    InfraIsTold
PROPERTIES
    SupervisorEnds
CHECK_DEADLOCK FALSE
