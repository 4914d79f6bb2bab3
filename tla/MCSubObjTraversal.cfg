\* two objects, both traversals, leavesOnly both ways, any visitor
CONSTANTS
    Shapes <- MCShapes
    None = None
SPECIFICATION Spec
INVARIANT TypeOK
INVARIANT VisitsComplete
INVARIANT IcPreOrder
INVARIANT IcChains
PROPERTY Terminates
\* the traversal returns: the loop ends with the result set
CHECK_DEADLOCK FALSE
