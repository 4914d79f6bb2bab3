\* joinOnLoopEdgesOnly = 3 (join on loop-closing edges only, and blocks 6 and
\* 7 take every heap without the isomorphism check), live ordering on join
\* and isomorphism, every scheduler build
CONSTANTS
    Concrete <- MCConcrete
    Heaps <- MCHeaps
    Blocks <- MCBlocks
    Entry = 1
    InitHeaps <- MCInitHeaps
    Transfer <- MCTransfer
    LoopEdges <- MCLoopEdges
    BypassBlocks <- MCBypassBlocks
    Kinds = {0, 1, 2, 3}
    JoinOnLoopEdgesOnly = 3
    StateLiveOrdering = 2
    ForbidHeapReplace = FALSE
SPECIFICATION Spec
INVARIANT TypeOK
INVARIANT PendingScheduled
INVARIANT FixpointSound
PROPERTY Terminates
\* the loop stops when the scheduler is empty
CHECK_DEADLOCK FALSE
