SPECIFICATION Spec

CONSTANTS
    GroupA = GroupA
    GroupB = GroupB
    Default = GroupA
    MaxTasks = 2
    GroupNames <- TwoGroups
    InitialGroups <- TwoGroups
    Parallelism = {1}
    Priorities = {0}
    Signals = {}
    PauseOnFailure = "none"
    SpawnMayFail = TRUE
    SaveMayFail = FALSE
    Delays = FALSE
    Commands = {"add", "add_reused", "immediate", "enqueue", "stash", "kill", "pause", "start", "start_group", "restart", "switch", "switch_related", "remove", "clean", "group", "parallel", "reset"}
    MaxEdited = 2
    MaxRequests = 4
    MaxRestarts = 0

INVARIANTS
    ProcessMatchesStatus

PROPERTIES
    ImplementsLifecycle
    FailureChangesNothing

CHECK_DEADLOCK FALSE
