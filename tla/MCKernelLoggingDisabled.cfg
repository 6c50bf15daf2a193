\* A client that disables logging and constructs a Logger all the same.
CONSTANTS
    L1 = L1
    L2 = L2
    L3 = L3
    Loggers <- MCLoggers
    StartOutcomes <- MCStartOrThrow
    Concurrent = FALSE
    Categories = {}
    Levels = {}
    Switches = {}
SPECIFICATION Spec
INVARIANT DisabledNeverBuffers
