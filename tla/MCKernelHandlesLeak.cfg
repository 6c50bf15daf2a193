\* The handles of MCKernelHandles.cfg, asked whether anything is leaked.
CONSTANTS
    NULL = NULL
    MaxShared <- MCMaxShared
    MaxLeaks <- MCMaxLeaks
SPECIFICATION Spec
INVARIANT NoLeak
