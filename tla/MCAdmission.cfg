SPECIFICATION FairSpec
CONSTANTS
    big = big
    small = small
    b1 = b1
    b2 = b2
    b3 = b3
    s1 = s1
    Targets <- MCTargets
    Actions <- MCActions
    Of <- MCOf
    MaxPerTarget = 2
    MaxInflight = 1
    MaxAttempts = 2
INVARIANTS
    PermitsConserved
    GlobalQueueShared
    BoundedGap
PROPERTIES
    EachEnds
