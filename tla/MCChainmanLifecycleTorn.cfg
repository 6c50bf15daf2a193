\* A second thread calls SetWipeDbs while the constructor is between its two
\* critical sections on the options.
CONSTANTS
    NULL = NULL
    MaxHeight <- MCMaxHeight
    WorkerThreads = {2}
    StepsMayFail = TRUE
SPECIFICATION Spec
INVARIANT EffectiveWipeRule
