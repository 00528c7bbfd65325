SPECIFICATION FairSpec

CONSTANTS
    GroupA = GroupA
    GroupB = GroupB
    Default = GroupA
    MaxTasks = 2
    GroupNames <- TwoGroups
    InitialGroups <- TwoGroups
    Parallelism = {1}
    Priorities = {0}
    Signals = {}
    PauseOnFailure = "none"
    SpawnMayFail = FALSE
    SaveMayFail = FALSE
    Delays = FALSE
    Commands = {"add", "add_reused", "reset", "shutdown", "group", "remove", "clean"}
    MaxEdited = 2
    MaxRequests = 4
    MaxRestarts = 0

INVARIANTS
    CleanExitOnDisk

PROPERTIES
    ResetsComplete
    ShutdownCompletes
    NoSpawnDuringShutdown

CHECK_DEADLOCK FALSE
