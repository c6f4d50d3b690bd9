CONSTANTS
    c1 = c1
    c2 = c2
    c3 = c3
    k1 = k1
    Call <- ThreeCalls
    Client = {k1}
    ClientOf <- OneClient
    User = User
    None = None
    MaxItems = 2
    CloseAnytime = TRUE
    TerminateOnExit = TRUE
SPECIFICATION Spec
INVARIANTS
    OwnLabelsInOrder
    Lockstep
CHECK_DEADLOCK FALSE
