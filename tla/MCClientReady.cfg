CONSTANTS
    u1 = u1
    u2 = u2
    Urls <- TwoUrls
    MaxLinks = 1
    MaxChannels = 0
    MaxReconnectAttempts = 1
    Budgets <- LeaveBudgets
SPECIFICATION FairSpec
INVARIANT ConnectedIsReady
CHECK_DEADLOCK FALSE
