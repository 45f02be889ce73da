SPECIFICATION Spec
CONSTANTS
    r1 = r1
    r2 = r2
    r3 = r3
    same = same
    small = small
    Results = {r1, r2, r3}
    Logs = {same, small}
    Of <- MCOf
    Large = {same}
    Passing = {r1, r2}
    Retried = {r2}
    MaxFaults = 0
INVARIANTS
    FullLogInCas
CHECK_DEADLOCK FALSE
