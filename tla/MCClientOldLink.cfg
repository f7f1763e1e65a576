CONSTANTS
    u1 = u1
    u2 = u2
    Urls <- TwoUrls
    MaxLinks = 2
    MaxChannels = 0
    MaxReconnectAttempts = 1
    Budgets <- MoveBudgets
SPECIFICATION FairSpec
INVARIANT OldLinkClosed
CHECK_DEADLOCK FALSE
