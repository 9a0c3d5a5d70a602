SPECIFICATION Spec
CONSTANTS
    Equities = {70, 80, 90, 100}
    DaysPerWeek = 2
    PeriodLimit <- MCPeriodLimit
    DrawdownLimit = 200
    MaxDay = 3
    MaxCrashes = 2
    MaxExits = 2
INVARIANTS TypeOK DrawdownStopHolds PeriodStopsHold
