SPECIFICATION FairProcessesSpec

CONSTANTS
    GroupA = GroupA
    GroupB = GroupB
    Default = GroupA
    MaxTasks = 2
    GroupNames <- OneGroup
    InitialGroups <- OneGroup
    Parallelism = {1}
    Priorities = {0, 1}
    Signals = {}
    PauseOnFailure = "none"
    SpawnMayFail = FALSE
    SaveMayFail = FALSE
    Delays = TRUE
    Commands = {"add", "add_reused", "start_group", "pause", "kill", "restart", "remove"}
    MaxEdited = 2
    MaxRequests = 4
    MaxRestarts = 0

INVARIANTS
    WorkersWithinLimit

PROPERTIES
    StartableTasksStart
    FailedDependenciesEnd

CHECK_DEADLOCK FALSE
