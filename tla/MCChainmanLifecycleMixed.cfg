\* A manager keeps one of its stores in memory and the other on disk.
CONSTANTS
    NULL = NULL
    MaxHeight <- MCMaxHeight
    WorkerThreads = {2}
    StepsMayFail = TRUE
SPECIFICATION Spec
PROPERTY ShutdownLeavesLoadable
