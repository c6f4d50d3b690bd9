CONSTANTS
    Proc <- MCProc
    Conf <- MCConf
    State <- MCState
    Programs <- MCPrograms
    NoConf = NoConf
    Unvisited = Unvisited
    Unlimited = Unlimited
    MaxIters = {Unlimited}
    MaxCalls = 1
    Seeds = {}
    MaxPath = 50
SPECIFICATION Spec
INVARIANT
    EveryContextSwitch
CHECK_DEADLOCK FALSE
