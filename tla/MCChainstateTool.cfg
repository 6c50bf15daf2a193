\* The tool over the block tree of MCChainstate: is what it calls a duplicate
\* a block that was submitted before?
CONSTANTS
    G = G  A = A  B = B  C = C  D = D  A2 = A2  H = H
    NULL = NULL
    Blocks <- MCBlocks
    Genesis = G
    Prev <- MCPrev
    Work <- MCWork
    BadHeader <- MCBadHeader
    Inputs <- MCInputs
    Creates <- MCCreates
    Readers = {}
    MaxUndoIndex = 2
    DiskMayFail = FALSE
SPECIFICATION Spec
INVARIANT DuplicateWasSeenBefore
