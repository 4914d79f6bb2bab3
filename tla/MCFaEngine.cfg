\* the base program and five variants, each with a fault on some paths
CONSTANTS
    Locs <- MCLocs
    Regs <- MCRegs
    Programs <- MCPrograms
    Entry = 0
    IntVals = {0, 1}
    MaxNodes = 1
SPECIFICATION Spec
INVARIANT TypeOK
INVARIANT PendingOnTodo
INVARIANT Explored
INVARIANT ErrorReported
PROPERTY Terminates
\* run() returns once todo is empty or an exception is thrown
CHECK_DEADLOCK FALSE
