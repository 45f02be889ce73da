SPECIFICATION Spec
CONSTANTS
    Names <- MCNames
    Patterns <- MCNames
    Substring <- MCSubstring
    NameOrder <- MCNameOrder
    Whole = "<whole>"
    Suites <- MCSuites
    Scenarios <- MCScenarios
    Connections <- MCConnections
    Observed <- MCObserved
    Meanwhile <- MCMeanwhile
    Hashes <- MCHashes
    Databases <- MCDatabases
    MaxSamples = 2
    UnseenWeight = 2
    MaxBatch = 2
    ResourceLabels = {"local-resource=db"}
    OwnerLabels = {"owner=x"}
INVARIANTS
    RunsWhatWasListed
    SelectionIsLibtests
    PlannedOnce
    ArgsAccepted
    LabelsHonoured
    
CHECK_DEADLOCK FALSE
