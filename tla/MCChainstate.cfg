\* Block processing, reorganisation, refusals, interrupt and callbacks of a
\* loaded chainstate manager, over the block tree of MCChainstate.
CONSTANTS
    G = G  A = A  B = B  C = C  D = D  A2 = A2  H = H
    NULL = NULL
    Blocks <- MCBlocks
    Genesis = G
    Prev <- MCPrev
    Work <- MCWork
    BadHeader <- MCBadHeader
    Inputs <- MCInputs
    Creates <- MCCreates
    Readers = {}
    MaxUndoIndex = 2
    DiskMayFail = TRUE
SPECIFICATION Spec
INVARIANT CoinsMatchActiveChain
INVARIANT ChainIsBranchOfIndex
INVARIANT TipIsBestWhenIdle
INVARIANT ActiveChainHasUndo
INVARIANT ClientViewAgrees
INVARIANT ReturnTellsTheIndex
PROPERTY ProcessBlockReturns
PROPERTY ImplementsChainSpec
