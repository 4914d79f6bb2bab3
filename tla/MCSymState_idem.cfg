\* checked against the specification's state idempotence (section 8)
\* joinOnLoopEdgesOnly = 2: isomorphism check only, unless the caller allows
\* a three-way join (loop-closing edges); live ordering on both paths;
\* heap replacement allowed
CONSTANTS
    Concrete <- MCConcrete
    Heaps <- MCHeaps
    JoinOnLoopEdgesOnly = 2
    StateLiveOrdering = 2
    ForbidHeapReplace = FALSE
    Bypass = FALSE
    MaxHeaps = 3
SPECIFICATION Spec
PROPERTY InsertIdempotent
