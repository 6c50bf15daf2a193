\* The lifecycle of MCChainmanLifecycle.cfg, asked whether a plain manager
\* can be constructed after the process died at any point.
CONSTANTS
    NULL = NULL
    MaxHeight <- MCMaxHeight
    WorkerThreads = {2}
    StepsMayFail = TRUE
SPECIFICATION Spec
INVARIANT DatadirSurvivesCrash
