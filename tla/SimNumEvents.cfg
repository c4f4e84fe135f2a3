SPECIFICATION Spec
CONSTANTS
    SimType = "EVENT_DRIVEN"
    EndTime = 1
    Acts <- NoActs
    NThreads = 1
    EvmChoices = {TRUE}
    NetRuntime = FALSE
    NWorkers = 2
    InitTimes <- ThreeAtOnce
    Delays = {1, 2}
    StartRaising = 0
    UserStops = FALSE
    Horizon = 3
    MaxEvents = 6
    MaxSpurious = 0
INVARIANTS
    NumEventsIsTotal
