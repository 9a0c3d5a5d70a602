SPECIFICATION Spec
CONSTANTS
    Processes <- MCProcesses
    Watchdogs = {w1, w2}
    EngineTasks = {"relative", "absolute"}
    LateTask = FALSE
    UtcOffsets <- MCUtcOffsets
    MaxFaults = 3
    MaxAge = 4
    Blank = Blank
INVARIANTS
    EnginesBounded
PROPERTIES
    RunningSpared
    EngineReturns
    TerminalReturns
