\* round trip of a heap with a cross predicate and pointers into a freed block
CONSTANTS
    NoVar = NoVar
    Vars <- MCVars
    InitHeaps <- MCRoundTripHeaps
SPECIFICATION Spec
PROPERTY RoundTrip
