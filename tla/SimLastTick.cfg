SPECIFICATION FairSpec
CONSTANTS
    SimType = "ACTIVITY_SCAN"
    EndTime = 1
    Acts <- NoActs
    NThreads = 1
    EvmChoices = {TRUE}
    NetRuntime = FALSE
    NWorkers = 2
    InitTimes <- EventAtTwo
    Delays = {1}
    StartRaising = 0
    UserStops = FALSE
    Horizon = 2
    MaxEvents = 1
    MaxSpurious = 0
PROPERTIES
    SimulationEnds
CHECK_DEADLOCK FALSE
