SPECIFICATION Spec
CONSTANTS
    NThreads = 2
    QueueSize = 1
    Clients = {c1, c2}
    Owner = c1
    Enqueuers = {c2}
    Waiters = {}
    Getters = {c2}
    Poppers = {c2}
    Ctl = Ctl
    NULL = NULL
    OK = OK
    QUEUE_FULL = QUEUE_FULL
    NONE = NONE
    MaxTasks = 3
    MaxStarts = 2
    MaxOtherIds = 0
CHECK_DEADLOCK FALSE
INVARIANTS
    FreeWorkersCounted
    PoolAsserts
    TaskInOnePlace
    RestMeansDone
PROPERTIES
    ImplementsService
    ShutdownDrains
    UsesQueue
