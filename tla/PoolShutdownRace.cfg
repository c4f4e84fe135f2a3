SPECIFICATION FairSpec
CONSTANTS
    NThreads = 1
    QueueSize = 1
    Clients = {c1, c2}
    Owner = c1
    Enqueuers = {c2}
    Waiters = {}
    Getters = {}
    Poppers = {}
    Ctl = Ctl
    NULL = NULL
    OK = OK
    QUEUE_FULL = QUEUE_FULL
    NONE = NONE
    MaxTasks = 1
    MaxStarts = 1
    MaxOtherIds = 0
PROPERTIES
    EnqueuedRuns
