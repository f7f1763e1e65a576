CONSTANTS
    u1 = u1
    u2 = u2
    Urls <- TwoUrls
    MaxLinks = 2
    MaxChannels = 0
    MaxReconnectAttempts = 1
    Budgets <- LoseBudgets
SPECIFICATION FairSpec
PROPERTY ReconnectDials
CHECK_DEADLOCK FALSE
