CONSTANTS
    d1 = d1
    d2 = d2
    Callers <- MCCallers
    ChannelIds = {0, 1, 2}
    DepthLimits = {0, 1}
    DefaultDepth = 2
    Times = {0, 1}
    Sides <- MCSides
    Capacity = 1
    MaxCalls = 4
SPECIFICATION Spec
INVARIANTS
    TypeOK
    BookReadable
    BestKept
    FreshUntilSent
    SetupMatches
PROPERTIES
    ChannelBound
    DepthRespected
CHECK_DEADLOCK FALSE
