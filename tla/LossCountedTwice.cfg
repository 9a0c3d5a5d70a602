SPECIFICATION Spec
CONSTANTS
    t1 = t1
    t2 = t2
    t3 = t3
    Trades = {t1}
    Symbols = {t1}
    SymbolOf <- OneSymbolEach
    MaxPositions = 2
    MaxExposure = 50
    TTL = 1
    LossHalt = 3
    CleanupAge = 1
    SnapshotAge = 1
    Outcomes = {"loss"}
    BrokerComments = FALSE
    Faults = {}
    MaxFaults = 0
    MaxCloses = 1
    MaxHalvings = 0
    ProposedRisks = {32}
    Preserve10 = FALSE
    MaxTime = 0
    IterationLimit = 1
    PickupLimit = 9
    MaxCrashes = 0
INVARIANTS OutcomeCountedOnce
