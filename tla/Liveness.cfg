SPECIFICATION FairSpec
CONSTANTS
    t1 = t1
    t2 = t2
    t3 = t3
    Trades = {t1}
    Symbols = {t1}
    SymbolOf <- OneSymbolEach
    MaxPositions = 2
    MaxExposure = 50
    TTL = 1
    LossHalt = 3
    CleanupAge = 1
    SnapshotAge = 1
    Outcomes = {"loss"}
    BrokerComments = TRUE
    Faults = {"ea_restart", "file_delete", "symbol_select", "torn_artifact", "locked_artifact", "router_before_publish", "router_after_publish", "history", "snapshot"}
    MaxFaults = 1
    MaxCloses = 1
    MaxHalvings = 0
    ProposedRisks = {32}
    Preserve10 = TRUE
    MaxTime = 1
    IterationLimit = 1
    PickupLimit = 9
    MaxCrashes = 1
PROPERTIES ClosureReachesLedger
