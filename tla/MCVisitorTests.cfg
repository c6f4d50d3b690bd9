CONSTANTS
    Proc <- MCProc
    Conf <- MCConf
    State <- MCState
    Programs <- MCPrograms
    NoConf = NoConf
    Unvisited = Unvisited
    Unlimited = Unlimited
    MaxIters = {Unlimited}
    MaxCalls = 2
    Seeds <- MCSeeds
    MaxPath = 50
SPECIFICATION Spec
INVARIANTS
    TestCounts
CHECK_DEADLOCK FALSE
