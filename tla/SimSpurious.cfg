SPECIFICATION Spec
CONSTANTS
    SimType = "EVENT_DRIVEN"
    EndTime = 1
    Acts <- BothActs
    NThreads = 1
    EvmChoices = {TRUE}
    NetRuntime = FALSE
    NWorkers = 2
    InitTimes <- OneEvent
    Delays = {1, 2}
    StartRaising = 1
    UserStops = FALSE
    Horizon = 4
    MaxEvents = 4
    MaxSpurious = 1
INVARIANTS
    StepComplete
