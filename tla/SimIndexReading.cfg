SPECIFICATION FairSpec
CONSTANTS
    SimType = "ACTIVITY_SCAN"
    EndTime = 4
    Acts <- BothActs
    NThreads = 2
    EvmChoices = {FALSE}
    NetRuntime = FALSE
    NWorkers = 2
    InitTimes <- ThreeAtOnce
    Delays = {1, 2}
    StartRaising = 0
    UserStops = FALSE
    Horizon = 4
    MaxEvents = 3
    MaxSpurious = 0
INVARIANTS
    IndexedItemOnce
CHECK_DEADLOCK FALSE
