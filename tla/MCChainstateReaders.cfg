\* Queries of one reader thread interleaved with block processing and a
\* reorganisation, over the block tree of MCChainstateReaders.
CONSTANTS
    G = G  A = A  A2 = A2  B2 = B2
    r1 = r1
    NULL = NULL
    Blocks <- MCBlocks
    Genesis = G
    Prev <- MCPrev
    Work <- MCWork
    BadHeader = {}
    Inputs <- MCInputs
    Creates <- MCCreates
    Readers <- MCReaders
    MaxUndoIndex = 2
    DiskMayFail = FALSE
SPECIFICATION Spec
INVARIANT TypeOK
PROPERTY NextIsSuccessor
INVARIANT UndoAccessorsAgree
