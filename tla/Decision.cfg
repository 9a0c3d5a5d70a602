SPECIFICATION Spec
CONSTANTS
    Blank = Blank
    Junk = Junk
    Shadow = Shadow
    Canary = Canary
    Experiments = {Shadow, Canary}
    Order <- MCOrder
    H1Views <- MCH1Views
    H4Views <- MCH4Views
    M15Views <- MCM15Views
    RiskViews <- MCRiskViews
    Correlation <- MCCorrelation
    SpreadLimit <- MCSpreadLimit
    Currencies <- MCCurrencies
    Clocks <- MCClocks
    Relaxed = {"EURUSD"}
    Buffer <- MCBuffer
    Calendar <- MCCalendar
    Coverage = 10080
    Configs <- MCConfigs
    Streaks = {0}
    MaxPositions = 2
    MaxBar = 1
    MaxRouted = 2
CHECK_DEADLOCK FALSE
INVARIANTS StackedOnlyWhileUnseen EvaluationsPerBarBounded DirectionFollowsRegime RoutedRiskWithinBase FunnelAgreesWithLedger
