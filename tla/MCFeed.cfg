CONSTANTS
    NoConfig = NoConfig
    FirstConfig = c1
    Types = {t1, t2}
    Width <- MCWidth
    Listeners = {l1}
    Room = 1
    Batch = 1
    MaxMessages = 3
    Keys = {"k1", "k2"}
    Configs = {c1, c2}
    Capacity = 1
    WireCapacity = 1
    Budgets <- MCBudgets
SPECIFICATION Spec
INVARIANTS
    TypeOK
    ServerAgrees
    NoGaps
PROPERTIES
    UnracedIsExact
    EventsHandled
CHECK_DEADLOCK FALSE
