SPECIFICATION Spec

CONSTANTS
    GroupA = GroupA
    GroupB = GroupB
    Default = GroupA
    MaxTasks = 3
    GroupNames <- OneGroup
    InitialGroups <- OneGroup
    Parallelism = {1}
    Priorities = {0}
    Signals = {}
    PauseOnFailure = "none"
    SpawnMayFail = FALSE
    SaveMayFail = FALSE
    Delays = FALSE
    Commands = {"add", "remove", "clean", "restart", "edit", "switch", "stash"}
    MaxEdited = 1
    MaxRequests = 5
    MaxRestarts = 0

INVARIANTS
    DependentsIndexed
    NoCircularDependencies

PROPERTIES
    UnfinishedDependencyKept
    SwitchRenames
