\* StartLogging returns false for the first connection.
CONSTANTS
    L1 = L1
    L2 = L2
    L3 = L3
    Loggers <- MCLoggers
    StartOutcomes <- MCStartMayFail
    Concurrent = FALSE
    Categories = {}
    Levels = {}
    Switches = {}
SPECIFICATION Spec
INVARIANT NoInvalidErase
