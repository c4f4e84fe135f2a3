SPECIFICATION FairSpec
CONSTANTS
    SimType = "EVENT_DRIVEN"
    EndTime = 1
    Acts <- BothActs
    NThreads = 1
    EvmChoices = {TRUE}
    NetRuntime = FALSE
    NWorkers = 2
    InitTimes <- TwoTimes
    Delays = {1, 2}
    StartRaising = 0
    UserStops = FALSE
    Horizon = 5
    MaxEvents = 6
    MaxSpurious = 0
INVARIANTS
    StepComplete
    NoEventMissed
    DrainedAtEnd
PROPERTIES
    SimulationEnds
    ImplementsStepwise
