SPECIFICATION FairSpec
CONSTANTS
    SimType = "ACTIVITY_SCAN"
    EndTime = 4
    Acts <- BothActs
    NThreads = 2
    EvmChoices = {TRUE, FALSE}
    NetRuntime = FALSE
    NWorkers = 2
    InitTimes <- ManyAtOnce
    Delays = {1, 2}
    StartRaising = 0
    UserStops = FALSE
    Horizon = 5
    MaxEvents = 7
    MaxSpurious = 1
INVARIANTS
    ActivityPeriod
    RaisedOnTime
    EveryItemOnce
    EndAssert
    StuckOnlyAtEnd
CHECK_DEADLOCK FALSE
