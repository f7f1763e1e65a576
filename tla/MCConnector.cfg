CONSTANTS
    c1 = c1
    c2 = c2
    Callers <- MCCallers
    MaxSockets = 2
    MaxCalls = 3
    MaxMessages = 1
SPECIFICATION FairSpec
INVARIANTS
    TypeOK
    NothingAfterClose
    AvailableIsServed
PROPERTIES
    ImplementsEvents
    CloseReported
CHECK_DEADLOCK FALSE
