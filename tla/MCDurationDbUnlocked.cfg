SPECIFICATION Spec
CONSTANTS
    p1 = p1
    p2 = p2
    p3 = p3
    None = None
    Torn = Torn
    Sections <- MCSections
    Procs <- TwoProcs
    Fresh <- AllFresh
    Threshold = 0
SYMMETRY MCSymmetry
INVARIANTS
    ConcurrentDataSafe
