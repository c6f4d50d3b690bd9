CONSTANTS
    p1 = p1
    p2 = p2
    p3 = p3
    g1 = g1
    g2 = g2
    g3 = g3
    PID <- MCPID
    Gen <- MCGen
    None = None
    Drivers <- MCDrivers
SPECIFICATION Spec
INVARIANTS
    TypeOK
    HandlerOwnership
    LabelsTellLiveness
    TornDownOnce

    
SYMMETRY MCSymmetry
