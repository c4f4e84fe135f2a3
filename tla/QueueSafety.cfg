SPECIFICATION Spec
CONSTANTS
    Producers = {p1, p2}
    Consumers = {c1, c2}
    Closers = {x}
    Blocking = {p1, c1}
    Data = {d1, d2}
    Capacity = 2
    MaxEnqueued = 3
    MaxQsem = 3
    NULL = NULL
    OK = OK
    QUEUE_FULL = QUEUE_FULL
    NONE = NONE
CHECK_DEADLOCK FALSE
SYMMETRY DataSymmetry
INVARIANTS
    SlotsConserved
    HeadAssert
PROPERTIES
    ImplementsFifo
