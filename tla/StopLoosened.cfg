SPECIFICATION FairSpec
CONSTANTS
    t1 = t1
    t2 = t2
    Trades = {t1, t2}
    ModeOf <- TwoModes
    MaxTickets = 1
    MaxPos = 2
    RingSize = 2
    MaxPositions = 1
    StopDistances = {2}
    Volumes = {4}
    MinLot = 1
    Profits = {1, 2, 3}
    TrailDistances = {1, 4}
    BreakEvenBuffer = 1
    MinDistance = 1
    MaxFaults = 0
    MaxSlips = 0
    MaxRestarts = 0
PROPERTIES StopNeverLoosened
