\* all four scheduler builds, three blocks
CONSTANTS
    Blocks <- MCBlocks
    Kinds = {0, 1, 2, 3}
    MaxPending = 2
SPECIFICATION Spec
INVARIANT SchedMirrorsTodo
PROPERTY FifoServesAll
