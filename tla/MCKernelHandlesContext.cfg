\* The handles of MCKernelHandles.cfg, asked whether a null m_impl is ever read.
CONSTANTS
    NULL = NULL
    MaxShared <- MCMaxShared
    MaxLeaks <- MCMaxLeaks
SPECIFICATION Spec
INVARIANT NoNullDereference
