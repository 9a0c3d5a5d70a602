SPECIFICATION Spec
CONSTANTS
    t1 = t1
    t2 = t2
    t3 = t3
    Trades = {t1}
    Symbols = {t1}
    SymbolOf <- OneSymbolEach
    MaxPositions = 2
    MaxExposure = 50
    TTL = 1
    LossHalt = 3
    CleanupAge = 1
    SnapshotAge = 1
    Outcomes = {"loss"}
    BrokerComments = TRUE
    Faults = {"ea_restart", "ea_kill", "positions", "file_delete", "symbol_select", "torn_artifact", "locked_artifact", "router_before_publish", "router_after_publish", "history"}
    MaxFaults = 1
    MaxCloses = 1
    MaxHalvings = 1
    ProposedRisks = {32}
    Preserve10 = FALSE
    MaxTime = 2
    IterationLimit = 2
    PickupLimit = 9
    MaxCrashes = 1
INVARIANTS TypeOK FillsWithinRestarts AcknowledgedPositionOnLedger ExitCountedOnce ClosedTradeCounted
PROPERTIES StreakEndsWithWin
