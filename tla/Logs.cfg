SPECIFICATION Spec

CONSTANTS
    Ids = {1, 2}
    Modes <- BothModes
    LineLimits <- AllOrLast
    MaxRuns = 2
    MaxLines = 2
    MaxAdded = 2

CONSTRAINT StillAtWork

INVARIANTS
    NothingSkipped
    LogNotOlder

PROPERTIES
    FollowsEnd
    OutputArrives

CHECK_DEADLOCK FALSE
