CONSTANTS
    u1 = u1
    u2 = u2
    Urls <- TwoUrls
    MaxLinks = 1
    MaxChannels = 0
    MaxReconnectAttempts = 1
    Budgets <- DialBudgets
SPECIFICATION FairSpec
INVARIANT SetupSent
CHECK_DEADLOCK FALSE
