SPECIFICATION Spec
CONSTANTS
    NThreads = 1
    QueueSize = 2
    Clients = {c1}
    Owner = c1
    Enqueuers = {c1}
    Waiters = {}
    Getters = {}
    Poppers = {}
    Ctl = Ctl
    NULL = NULL
    OK = OK
    QUEUE_FULL = QUEUE_FULL
    NONE = NONE
    MaxTasks = 3
    MaxStarts = 1
    MaxOtherIds = 1
INVARIANTS
    NoDuplicateId
