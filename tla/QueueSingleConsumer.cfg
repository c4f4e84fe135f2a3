SPECIFICATION FairSpec
CONSTANTS
    Producers = {p1, p2}
    Consumers = {c1}
    Closers = {x}
    Blocking = {p1, c1}
    Data = {d1, d2}
    Capacity = 2
    MaxEnqueued = 3
    MaxQsem = 4
    NULL = NULL
    OK = OK
    QUEUE_FULL = QUEUE_FULL
    NONE = NONE
CHECK_DEADLOCK FALSE
INVARIANTS
    SizeIsSem
PROPERTIES
    CloseReachesConsumer
