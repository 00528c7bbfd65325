SPECIFICATION Spec

CONSTANTS
    Ids = {1}
    Modes <- OnlyRemote
    LineLimits <- AllOrLast
    MaxRuns = 1
    MaxLines = 1
    MaxAdded = 1

PROPERTIES
    FollowsAlwaysEnd

CHECK_DEADLOCK FALSE
