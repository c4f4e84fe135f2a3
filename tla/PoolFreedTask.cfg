SPECIFICATION Spec
CONSTANTS
    NThreads = 1
    QueueSize = 1
    Clients = {c1}
    Owner = c1
    Enqueuers = {c1}
    Waiters = {}
    Getters = {}
    Poppers = {c1}
    Ctl = Ctl
    NULL = NULL
    OK = OK
    QUEUE_FULL = QUEUE_FULL
    NONE = NONE
    MaxTasks = 1
    MaxStarts = 1
    MaxOtherIds = 0
INVARIANTS
    TaskOutlivesWorker
