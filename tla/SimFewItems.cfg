SPECIFICATION FairSpec
CONSTANTS
    SimType = "ACTIVITY_SCAN"
    EndTime = 4
    Acts <- SmallAct
    NThreads = 2
    EvmChoices = {FALSE}
    NetRuntime = FALSE
    NWorkers = 2
    InitTimes <- ManyAtOnce
    Delays = {1, 2}
    StartRaising = 0
    UserStops = FALSE
    Horizon = 4
    MaxEvents = 7
    MaxSpurious = 1
INVARIANTS
    EveryItemOnce
