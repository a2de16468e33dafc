CONSTANTS
    Loc <- MCLoc
    StackTops <- MCStackTops
    Data <- MCData
    DataFlags <- NoFlags
    HostStatus <- CleanStatus
    Vector <- MCVector
    MaxSteps = 1
    MaxEdges = 3
    MaxResets = 1
SPECIFICATION FairSpec
INVARIANT NmiLatchExact
PROPERTIES ResetWritesNothing NmiServed ResetServed IrqNotIgnored
