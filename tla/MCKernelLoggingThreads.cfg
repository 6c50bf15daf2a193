\* Threads construct and destroy Logger objects concurrently.
CONSTANTS
    L1 = L1
    L2 = L2
    L3 = L3
    Loggers <- MCLoggers
    StartOutcomes <- MCStartOrThrow
    Concurrent = TRUE
    Categories = {}
    Levels = {}
    Switches = {}
SPECIFICATION Spec
INVARIANT ConnectedMeansStarted
