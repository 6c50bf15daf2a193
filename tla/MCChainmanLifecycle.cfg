\* Managers built, used, destroyed and killed over one data directory, by a
\* client that may set the options at any time, place either store in
\* memory and call a manager whose construction failed.
CONSTANTS
    NULL = NULL
    MaxHeight <- MCMaxHeight
    WorkerThreads = {2}
    StepsMayFail = TRUE
SPECIFICATION Spec
INVARIANT TypeOK
INVARIANT DatadirLoadable
INVARIANT ValidManagerIsOnBestBlock
PROPERTY CleanShutdownIsDurable
PROPERTY ImplementsDatadirSpec
