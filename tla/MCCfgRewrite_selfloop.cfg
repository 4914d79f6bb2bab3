\* callers that may drop a location that is its own successor
CONSTANTS
    NoInsn = NoInsn
    Insns <- MCInsns
    InitCfgs <- MCInitCfgs
    MaxLocs = 6
    DropSelfLoops = TRUE
SPECIFICATION Spec
CHECK_DEADLOCK FALSE
INVARIANT NoDanglingEdges
