\* Two contexts, one set of options, one manager over the block tree of
\* MCKernelSession; the sanity check of a context, the creation of the
\* directories and the load may fail.
CONSTANTS
    G = G  A = A
    c1 = c1  c2 = c2
    NULL = NULL
    Blocks <- MCBlocks
    Genesis = G
    Prev <- MCPrev
    Work <- MCWork
    BadHeader = {}
    Inputs <- MCInputs
    Creates <- MCCreates
    Readers = {}
    MaxUndoIndex = 0
    DiskMayFail = TRUE
    Contexts <- MCContexts
    OptionContexts <- MCOptionContexts
    NotificationChoices <- MCNotificationChoices
    ValidationChoices <- MCValidationChoices
    ChainTypeChoices = {"kernel_CHAIN_TYPE_MAINNET"}
    SyncStates = {"INIT_DOWNLOAD"}
    Warnings = {"UNKNOWN_NEW_RULES_ACTIVATED", "LARGE_WORK_INVALID_CHAIN"}
    Failures = {"sanity", "directories", "load"}
    KeepsOptionsContext = TRUE
SPECIFICATION SessionSpec
INVARIANT SessionTypeOK
INVARIANT ClientHearsEngine
INVARIANT WarningsClearedForClient
PROPERTY InterruptStopsManager
