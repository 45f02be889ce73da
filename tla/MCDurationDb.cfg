SPECIFICATION Spec
CONSTANTS
    p1 = p1
    p2 = p2
    p3 = p3
    None = None
    Torn = Torn
    Sections <- MCSections
    Procs <- ThreeProcs
    Fresh <- AllFresh
    Threshold = 1
SYMMETRY MCSymmetry
CONSTRAINT Sound
INVARIANTS
    NothingLost
    ReplaysBounded
    OneFlush
