SPECIFICATION FairSpec
CONSTANTS
    Actors = {a1, a2, a3}
    Stoppers = {s}
    MaxClock = 6
    MaxSpurious = 1
INVARIANTS
    NobodyTooMany
    LockStep
    SyncMeansTick
PROPERTIES
    ImplementsBarrier
    SyncReturns
    TimeGoesOn
