SPECIFICATION FairSpec
CONSTANTS
    SimType = "EVENT_DRIVEN"
    EndTime = 1
    Acts <- NoActs
    NThreads = 1
    EvmChoices = {TRUE}
    NetRuntime = FALSE
    NWorkers = 2
    InitTimes <- EventAtTwo
    Delays = {1}
    StartRaising = 2
    UserStops = FALSE
    Horizon = 3
    MaxEvents = 3
    MaxSpurious = 0
PROPERTIES
    WaitEventsReturns
CHECK_DEADLOCK FALSE
