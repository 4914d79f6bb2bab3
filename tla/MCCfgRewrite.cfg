\* two location graphs, up to two inserted locations
CONSTANTS
    NoInsn = NoInsn
    Insns <- MCInsns
    InitCfgs <- MCInitCfgs
    MaxLocs = 6
    DropSelfLoops = FALSE
SPECIFICATION Spec
INVARIANT TypeOK
INVARIANT EdgesMirror
INVARIANT NoDanglingEdges
INVARIANT LoopEdgesCutCycles
PROPERTY DropKeepsPaths
CHECK_DEADLOCK FALSE
