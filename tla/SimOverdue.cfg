SPECIFICATION Spec
CONSTANTS
    SimType = "EVENT_DRIVEN"
    EndTime = 1
    Acts <- NoActs
    NThreads = 1
    EvmChoices = {TRUE}
    NetRuntime = FALSE
    NWorkers = 2
    InitTimes <- OneEvent
    Delays = {0}
    StartRaising = 0
    UserStops = FALSE
    Horizon = 2
    MaxEvents = 2
    MaxSpurious = 0
INVARIANTS
    NoEventMissed
