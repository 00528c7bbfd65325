SPECIFICATION SessionSpec

CONSTANTS
    GroupA = GroupA
    GroupB = GroupB
    Default = GroupA
    Archive = GroupB
    Alice = Alice
    Bob = Bob
    Clients = {Alice, Bob}
    SessionCommands <- Users
    EditModes = {"Toml", "Files"}
    EditsContent = FALSE
    MaxChosen = 1
    MaxCopies = 2
    MaxImported = 2
    WaitSelections <- Selections
    WaitTargets = {"Done", "Success"}
    InitialTasks <- TwoTasks
    MaxTasks = 3
    GroupNames <- TwoGroups
    InitialGroups <- OneGroup
    Parallelism = {1}
    Priorities = {0, 1}
    Signals = {}
    PauseOnFailure = "none"
    SpawnMayFail = FALSE
    SaveMayFail = FALSE
    Delays = FALSE
    Commands = {"add", "edit", "restart", "remove", "group"}
    MaxEdited = 1
    MaxRequests = 4
    MaxRestarts = 0

INVARIANTS
    LocksHaveEditors
    ArchiveMirrorsRemove
    WaitEndsInTime

PROPERTIES
    ArchiveLosesNothing

CHECK_DEADLOCK FALSE
