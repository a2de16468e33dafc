SPECIFICATION FairSpec
CONSTANTS
    Commits = {c1, c2, c3}
    AllFiles = 3
    MinFiles = 2
    MaxFaults = 6
INVARIANTS OkMeansPinned FailureNotAccepted
PROPERTY Recovers
