\* split and join of the junk-free heaps of MCSymCut
CONSTANTS
    NoVar = NoVar
    Vars <- MCVars
    InitHeaps <- MCInitHeaps
SPECIFICATION Spec
INVARIANT TypeOK PartIsClosed SplitSane
PROPERTY RoundTrip
