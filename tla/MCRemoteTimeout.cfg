CONSTANTS
    c1 = c1
    c2 = c2
    c3 = c3
    k1 = k1
    Call <- OneCall
    Client = {k1}
    ClientOf <- OneClient
    User = User
    None = None
    MaxItems = 2
    CloseAnytime = FALSE
    TerminateOnExit = TRUE
SPECIFICATION Spec
PROPERTY
    TimeoutsReported
