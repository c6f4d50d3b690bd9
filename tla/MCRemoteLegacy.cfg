CONSTANTS
    c1 = c1
    c2 = c2
    c3 = c3
    k1 = k1
    Call <- ThreeCalls
    Client = {k1}
    ClientOf <- OneClient
    User = User
    None = None
    MaxItems = 2
    CloseAnytime = FALSE
    TerminateOnExit = FALSE
SPECIFICATION Spec
INVARIANTS
    TypeOK
    OwnLabelsInOrder
    Lockstep
    ClientFreed
PROPERTIES
    TimeoutsReported
    ThreadComesBack
