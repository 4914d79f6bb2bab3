SPECIFICATION Spec
CONSTANTS
    PtrWidth = 4
    GlobalAddr = 8
    Assertions = TRUE
    Functions <- MCFunctions
    Abort = Abort
    NoFold = NoFold
INVARIANT TypeOK
INVARIANT FoldsAsIfGlobalsAtNull
CHECK_DEADLOCK FALSE
