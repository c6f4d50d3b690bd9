CONSTANTS
    Proc <- MCProc
    Conf <- MCConf
    State <- MCState
    Programs <- MCPrograms
    NoConf = NoConf
    Unvisited = Unvisited
    Unlimited = Unlimited
    MaxIters = {Unlimited}
    MaxCalls = 1
    Seeds = {}
    MaxPath = 50
SPECIFICATION TreeSpec
INVARIANTS
    TreeCounts
CHECK_DEADLOCK FALSE
