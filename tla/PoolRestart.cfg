SPECIFICATION FairSpec
CONSTANTS
    NThreads = 1
    QueueSize = 1
    Clients = {c1}
    Owner = c1
    Enqueuers = {c1}
    Waiters = {}
    Getters = {}
    Poppers = {}
    Ctl = Ctl
    NULL = NULL
    OK = OK
    QUEUE_FULL = QUEUE_FULL
    NONE = NONE
    MaxTasks = 1
    MaxStarts = 2
    MaxOtherIds = 0
PROPERTIES
    EnqueuedRuns
