SPECIFICATION Spec
CONSTANTS
    Blank = Blank
    Junk = Junk
    Shadow = Shadow
    Canary = Canary
    Experiments = {Shadow, Canary}
    Environments <- MCEnvironments
    BrokerFacts <- MCBrokerFacts
    Commissions = {0, 700}
    RetryCount = 2
    Stops = {4, 12, 30}
    Modifiers = {50, 100}
CHECK_DEADLOCK FALSE
INVARIANTS NonSrsNeverLive ExperimentsOnlyOnDemo CoreSrsKeepsItsLimits AuditIsTruthful FillWithinBudget FeasibleTradesFill ApprovedCanTrade
PROPERTY ImplementsLaunchGate
