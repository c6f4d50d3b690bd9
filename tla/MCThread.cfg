SPECIFICATION Spec
CONSTANTS
    Call <- Calls
    Thread <- Threads
    None = None
    MaxItems = 2
    Settings <- MCSettings
INVARIANTS
    TypeOK
    OwnPackets
    SuspendedIsServed
    TakeTurns
    EnteredByOne
CHECK_DEADLOCK FALSE
PROPERTIES
    LabelsAwaited
    CallerComesBack
    ThreadsEnd
