CONSTANTS
    c1 = c1
    c2 = c2
    c3 = c3
    l1 = l1
    Callers <- MCCallers
    Listeners <- MCListeners
    Capacity = 1
    MaxCalls = 1
SPECIFICATION FairSpec
INVARIANTS
    TypeOK
    OkIffAccepted
    PayloadNeedsOpen
    ClosedIsDeaf
    ListenersInformed
PROPERTIES
    ImplementsLifecycle
    CallsReturn
