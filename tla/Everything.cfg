SPECIFICATION Spec

CONSTANTS
    GroupA = GroupA
    GroupB = GroupB
    Default = GroupA
    MaxTasks = 2
    GroupNames <- TwoGroups
    InitialGroups <- OneGroup
    Parallelism = {0, 1}
    Priorities = {0}
    Signals = {"Stop"}
    PauseOnFailure = "group"
    SpawnMayFail = TRUE
    SaveMayFail = TRUE
    Delays = FALSE
    Commands = {"add", "add_reused", "immediate", "enqueue", "stash", "kill", "pause", "start", "start_group", "restart", "restart_immediate", "edit", "switch", "switch_related", "remove", "clean", "group", "parallel", "reset", "shutdown"}
    MaxEdited = 2
    MaxRequests = 3
    MaxRestarts = 1

INVARIANTS
    TypeOK
    ChildrenHaveTasks
    OneChildPerTask
    ActiveTasksHaveChildren
    PoolsMatchGroups
    NothingRunsUnasked

CHECK_DEADLOCK FALSE
