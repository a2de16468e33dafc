CONSTANTS
    Loc <- MCLoc
    StackTops <- MCStackTops
    Data <- MCData
    DataFlags <- MCDataFlags
    HostStatus <- CleanStatus
    Vector <- MCVector
    MaxSteps = 3
    MaxEdges = 1
    MaxResets = 0
SPECIFICATION Spec
INVARIANTS TypeOK StackedStatusTellsCause 
PROPERTIES RtiResumes
