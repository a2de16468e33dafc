CONSTANTS
    Loc <- MCLoc
    StackTops <- MCStackTops
    Data <- MCData
    DataFlags <- MCDataFlags
    HostStatus <- CleanStatus
    Vector <- MCVector
    MaxSteps = 0
    MaxEdges = 3
    MaxResets = 1
SPECIFICATION Spec
INVARIANT EveryEdgeLatched
