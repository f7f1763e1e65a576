CONSTANTS
    u1 = u1
    u2 = u2
    Urls <- TwoUrls
    MaxLinks = 2
    MaxChannels = 1
    MaxReconnectAttempts = 1
    Budgets <- CheckBudgets
SPECIFICATION FairSpec
CONSTRAINT FewTasks
INVARIANTS
    TypeOK
    OpenedByServer
    NoLostWakeup
    SlotNeverStopped
    ConnectedAfterSetup
    RequestsAuthorized
    AuthorizedByServer
PROPERTIES
    ImplementsSession
    OpenReturns
CHECK_DEADLOCK FALSE
