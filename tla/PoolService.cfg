SPECIFICATION FairSpec
CONSTANTS
    NThreads = 2
    QueueSize = 1
    Clients = {c1, c2}
    Owner = c1
    Enqueuers = {c1}
    Waiters = {c2}
    Getters = {}
    Poppers = {}
    Ctl = Ctl
    NULL = NULL
    OK = OK
    QUEUE_FULL = QUEUE_FULL
    NONE = NONE
    MaxTasks = 2
    MaxStarts = 1
    MaxOtherIds = 1
PROPERTIES
    EnqueuedRuns
    WaitReturns
    ShutdownReturns
