SPECIFICATION Spec
CONSTANTS
    Proc = {p1, p2, p3}
    NoProc = NoProc
    MaxMonth = 2
    MaxEvents = 2
    ShortWrites = FALSE
    Unsettled = FALSE
SYMMETRY Symmetry
INVARIANTS
    TypeOK
    ChainIntact
    
    AckedIsKept
PROPERTIES
    ImplementsTrail
