SPECIFICATION FairSpec
CONSTANTS
    SimType = "ACTIVITY_SCAN"
    EndTime = 4
    Acts <- BothActs
    NThreads = 2
    EvmChoices = {TRUE, FALSE}
    NetRuntime = TRUE
    NWorkers = 2
    InitTimes <- ManyAtOnce
    Delays = {1, 2}
    StartRaising = 0
    UserStops = FALSE
    Horizon = 4
    MaxEvents = 7
    MaxSpurious = 1
PROPERTIES
    SimulationEnds
