CONSTANTS
    e0 = e0
    e1 = e1
    e2 = e2
    Event <- MCEvent
    Zero = e0
    Capacity = 4
SPECIFICATION Spec
INVARIANTS TypeOK LenMatchesSnapshot
PROPERTY ImplementsRecentLog
