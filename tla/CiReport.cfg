SPECIFICATION Spec
CONSTANTS
    Tests = 3
INVARIANTS
    AReportSurvives
    FailureRestores
    RecoveryNamed
    FinishIsClean
