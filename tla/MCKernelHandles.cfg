\* Every function of the C API, called in every order the lifetime rule allows,
\* where every construction that can fail may fail.
CONSTANTS
    NULL = NULL
    MaxShared <- MCMaxShared
    MaxLeaks <- MCMaxLeaks
SPECIFICATION Spec
INVARIANT TypeOK
INVARIANT OnlyNullReturnsLeak
INVARIANT OnlyContextFaults
INVARIANT NoDanglingReference
INVARIANT CallbacksOutliveOptions
