CONSTANTS
    Programs <- MCPrograms
    Telling <- MCTelling
    Count <- MCCount
    Conf <- MCConf
    Start <- MCStart
    Step <- MCStep
    Recurring <- MCRecurring
    Done <- MCDone
    Kept <- MCKept
    NoPayload = NoPayload
    NoResult = NoResult
SPECIFICATION Spec
INVARIANTS
    TypeOK
    CyclesOnly
    EveryStepExecuted
    TestCounts
PROPERTIES
    SearchEnds
CHECK_DEADLOCK FALSE
