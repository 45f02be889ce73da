SPECIFICATION Spec
CONSTANTS
    Names <- MCNames
    Patterns <- MCNames
    Substring <- MCSubstring
    NameOrder <- MCNameOrder
    Whole = "<whole>"
    Suites <- MCSuites
    Scenarios <- MCSpoken
    Connections <- MCConnections
    Observed <- MCSpoken
    Meanwhile <- MCMeanwhile
    Hashes <- MCHashes
    Databases <- MCDatabases
    MaxSamples = 2
    UnseenWeight = 2
    MaxBatch = 2
    ResourceLabels = {"local-resource=db"}
    OwnerLabels = {"owner=x"}
INVARIANTS
    NoVerdictNoPass
CHECK_DEADLOCK FALSE
