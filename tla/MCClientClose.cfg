CONSTANTS
    u1 = u1
    u2 = u2
    Urls <- TwoUrls
    MaxLinks = 1
    MaxChannels = 1
    MaxReconnectAttempts = 1
    Budgets <- CloseBudgets
SPECIFICATION FairSpec
INVARIANT ClosedByServer
CHECK_DEADLOCK FALSE
