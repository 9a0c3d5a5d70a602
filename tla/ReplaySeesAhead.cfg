SPECIFICATION Spec
CONSTANTS
    Stamps <- MCStamps
    Markets <- MCMarkets
    HourLen = 2
    HourHistory = 2
    Warmup = 0
    HourWarmup = 4
    Signals <- MCSignals
    Raises = TRUE
    StopDistance = 3
    TargetDistance = 4
    Ttl = 2
    MinLookahead = 2
    TrainLen = 3
    TestLen = 2
    StepLen = 1
    Purge = 1
    Embargo = 1
INVARIANTS
    NothingBeyondClose
CHECK_DEADLOCK FALSE
