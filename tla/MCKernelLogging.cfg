\* A client that constructs and destroys Logger objects one call at a time
\* and sets categories, levels and a format switch in between.
CONSTANTS
    L1 = L1
    L2 = L2
    L3 = L3
    Loggers <- MCLoggers
    StartOutcomes <- MCStartOrThrow
    Concurrent = FALSE
    Categories = {"kernel_LOG_VALIDATION", "kernel_LOG_KERNEL", "kernel_LOG_ALL"}
    Levels = {"kernel_LOG_INFO", "kernel_LOG_TRACE"}
    Switches = {"m_log_threadnames"}
SPECIFICATION Spec
INVARIANTS
    TypeOK
    ConnectionsMatchLoggers
    ConnectedMeansStarted
    BufferingWhenUnconnected
    NoInvalidErase
    CategoriesAreTheClients
