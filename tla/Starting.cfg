SPECIFICATION Spec

CONSTANTS
    p1 = p1
    p2 = p2
    Nobody = Nobody
    Daemons <- TwoDaemons
    MaxChanges = 2
    Compression = {FALSE, TRUE}
    UnixSockets = {FALSE, TRUE}
    DiskFails = TRUE

SYMMETRY Symmetry
CONSTRAINT Apart

INVARIANTS
    OneDaemon
    ServingReachable
    ClientsAuthorised

PROPERTIES
    FailsOnlyForReason
    RestoresLastSave

CHECK_DEADLOCK FALSE
