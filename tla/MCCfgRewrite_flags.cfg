\* insertInsn once dropInsn has made parallel edges with different flags
CONSTANTS
    NoInsn = NoInsn
    Insns <- MCInsns
    InitCfgs <- MCInitCfgs
    MaxLocs = 6
    DropSelfLoops = FALSE
SPECIFICATION Spec
CHECK_DEADLOCK FALSE
PROPERTY InsertFlagsAgree
