SPECIFICATION Spec
CONSTANTS
    t1 = t1
    t2 = t2
    t3 = t3
    Trades = {t1, t2, t3}
    Symbols = {t1, t2, t3}
    SymbolOf <- OneSymbolEach
    MaxPositions = 2
    MaxExposure = 50
    TTL = 3
    LossHalt = 3
    CleanupAge = 9
    SnapshotAge = 1
    Outcomes = {"loss"}
    BrokerComments = TRUE
    Faults = {}
    MaxFaults = 0
    MaxCloses = 0
    MaxHalvings = 0
    ProposedRisks = {16, 32}
    Preserve10 = FALSE
    MaxTime = 3
    IterationLimit = 1
    PickupLimit = 1
    MaxCrashes = 0
SYMMETRY TradePermutations
INVARIANTS CommittedWithinLimit PositionAccountedFor
PROPERTIES FillsAreReserved
