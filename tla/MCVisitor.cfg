CONSTANTS
    Proc <- MCProc
    Conf <- MCConf
    State <- MCConf
    Programs <- MCPrograms
    NoConf = NoConf
    Unvisited = Unvisited
    Unlimited = Unlimited
    MaxIters = {Unlimited, 1}
    MaxCalls = 2
    Seeds = {}
    MaxPath = 10
SPECIFICATION Spec
INVARIANTS
    TypeOK
    FrontierCovered
    SeedFollowed
PROPERTIES
    ImplementsStateGraph
    EveryStepIsNew
    CallsReturn
CHECK_DEADLOCK FALSE
