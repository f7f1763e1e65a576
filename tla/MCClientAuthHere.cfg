CONSTANTS
    u1 = u1
    u2 = u2
    Urls <- TwoUrls
    MaxLinks = 2
    MaxChannels = 0
    MaxReconnectAttempts = 1
    Budgets <- LoseBudgets
SPECIFICATION FairSpec
CONSTRAINT FewTasks
INVARIANT AuthorizedHere
CHECK_DEADLOCK FALSE
