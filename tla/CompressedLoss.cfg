SPECIFICATION Spec

CONSTANTS
    p1 = p1
    p2 = p2
    Nobody = Nobody
    Daemons <- TwoDaemons
    MaxChanges = 1
    Compression = {TRUE}
    UnixSockets = {TRUE}
    DiskFails = TRUE

SYMMETRY Symmetry

PROPERTIES
    RenamesWholeFile

CHECK_DEADLOCK FALSE
