--------------------------- MODULE InternalState ---------------------------
(***************************************************************************)
(* The state the daemon keeps behind its mutex, the file it saves it to,   *)
(* and the helpers every handler is built from:                            *)
(*   pueue_lib/src/{task,state}.rs                                         *)
(*   pueue/src/daemon/internal_state/{state,children}.rs                   *)
(*   pueue/src/daemon/process_handler/mod.rs                               *)
(*                                                                         *)
(* Abstractions. A Done status is named by its TaskResult, so "Success"    *)
(* stands for Done{result: Success}. "Delayed" is Stashed with an          *)
(* enqueue_at. Commands, paths, environments, labels and times are left    *)
(* out; a time that matters is a nondeterministic choice where it is read. *)
(***************************************************************************)
EXTENDS Integers, FiniteSets

CONSTANTS
    MaxTasks,        \* bound: task ids are 0 .. MaxTasks - 1
    GroupNames,      \* names a group may have
    Default,         \* PUEUE_DEFAULT_GROUP
    InitialGroups,   \* groups of the state file the daemon starts from
    Parallelism,     \* values of parallel_tasks a client may ask for
    Priorities,      \* priorities a client may ask for
    Signals,         \* signals a client may send with `kill --signal`
    PauseOnFailure,  \* settings pause_group_on_failure / pause_all_on_failure
    SpawnMayFail,    \* whether starting a process may fail
    SaveMayFail,     \* whether writing the state file may fail
    Delays,          \* whether clients ask for an enqueue_at
    Commands,        \* the kinds of request clients send
    MaxEdited,       \* bound: tasks edited by one request
    MaxRequests,     \* bound: requests handled in a behaviour
    MaxRestarts      \* bound: daemon starts after the first one

ASSUME BoundsAssumption ==
    /\ MaxTasks \in Nat
    /\ MaxEdited \in Nat
    /\ MaxRequests \in Nat
    /\ MaxRestarts \in Nat

ASSUME GroupsAssumption ==
    /\ Default \in InitialGroups
    /\ InitialGroups \subseteq GroupNames

ASSUME SettingsAssumption ==
    /\ 1 \in Parallelism
    /\ Parallelism \subseteq Nat
    /\ Priorities \subseteq Int
    /\ Signals \subseteq {"Int", "Kill", "Term", "Cont", "Stop"}
    /\ PauseOnFailure \in {"none", "group", "all"}
    /\ Delays \in BOOLEAN
    /\ SpawnMayFail \in BOOLEAN
    /\ SaveMayFail \in BOOLEAN

VARIABLES
    tasks,      \* task id -> task, for the tasks that exist
    groups,     \* group name -> group, for the groups that exist
    children,   \* group name -> worker id -> child process
    shutdown,   \* the pending ShutdownRequest, or "None"
    disk,       \* contents of the state file
    stage,      \* who holds the mutex and where it is; "Free" when nobody does
    pending,    \* task ids the request being handled has still to start
    requests,   \* requests handled so far
    response,   \* answer to the last request
    restarts    \* times the daemon was started again

vars == << tasks, groups, children, shutdown, disk, stage, pending, requests,
           response, restarts >>

-----------------------------------------------------------------------------
(* Values *)

TaskIds == 0 .. (MaxTasks - 1)
WorkerIds == 0 .. MaxTasks

Results ==
    {"Success", "Failed", "FailedToSpawn", "Killed", "Errored", "DependencyFailed"}
Editable == {"Stashed", "Delayed", "Queued"}
Active == {"Running", "Paused"}
Status == Editable \cup Active \cup Results \cup {"Locked"}

Task == [ group        : GroupNames,
          status       : Status,
          previous     : Editable,        \* what Locked{previous_status} keeps
          dependencies : SUBSET TaskIds,
          dependents   : SUBSET TaskIds,  \* reverse dependency index
          priority     : Priorities ]

GroupStatus == {"Running", "Paused", "Reset"}
Group == [status : GroupStatus, parallel_tasks : Parallelism]

\* What the operating system knows of a child: it runs, is stopped, has been
\* sent SIGKILL and not died yet, or has exited with a result the daemon has
\* not collected yet.
Exited == {"Success", "Failed", "Killed", "Errored"}
Alive == {"running", "stopped", "dying"}
Child == [task : TaskIds, proc : Alive \cup Exited]

IsPartialFn(f, D, R) == DOMAIN f \subseteq D /\ f \in [DOMAIN f -> R]

-----------------------------------------------------------------------------
(* Tasks and groups *)

IsRunning(task) == task.status \in Active
IsDone(task) == task.status \in Results
IsQueued(task) == task.status \in {"Queued", "Delayed"}
HasFailed(task) == task.status \in Results \ {"Success"}

SetStatus(ids, status) ==
    [i \in DOMAIN tasks |-> IF i \in ids THEN [tasks[i] EXCEPT !.status = status]
                                         ELSE tasks[i]]

TasksOfGroup(name) == {i \in DOMAIN tasks : tasks[i].group = name}

SetGroupStatus(gs, names, status) ==
    [g \in DOMAIN gs |-> IF g \in names THEN [gs[g] EXCEPT !.status = status]
                                        ELSE gs[g]]

\* Every task id is one more than the largest one in use, so the id of a removed
\* last task is given out again.
IsNextTaskId(id) ==
    /\ \A i \in DOMAIN tasks : i < id
    /\ id = 0 \/ id - 1 \in DOMAIN tasks

\* A failed task pauses its group, every group, or nothing.
PausedOnFailure(gs, failed) ==
    CASE PauseOnFailure = "group" -> SetGroupStatus(gs, failed, "Paused")
      [] PauseOnFailure = "all" /\ failed # {} -> SetGroupStatus(gs, DOMAIN gs, "Paused")
      [] OTHER -> gs

-----------------------------------------------------------------------------
(* Dependencies *)

\* The ids reached from id over one or more edges of succ: the least set that
\* holds the successors of id and of its own members.
Reachable(succ, id) ==
    {y \in TaskIds :
        \A S \in SUBSET TaskIds :
            (succ[id] \subseteq S /\ \A x \in S : succ[x] \subseteq S) => y \in S}

Dependencies(ts) ==
    [i \in TaskIds |-> IF i \in DOMAIN ts THEN ts[i].dependencies ELSE {}]

UnfinishedDependents ==
    [i \in TaskIds |->
        IF i \in DOMAIN tasks
        THEN {j \in tasks[i].dependents : j \in DOMAIN tasks /\ ~IsDone(tasks[j])}
        ELSE {}]

\* Mutant of IsTaskRemovable: no recursive check of the dependents.
IsTaskRemovableShallow(id, to_delete) == UnfinishedDependents[id] \subseteq to_delete

\* A task may go if the unfinished tasks that depend on it go with it.
IsTaskRemovable(id, to_delete) == Reachable(UnfinishedDependents, id) \subseteq to_delete

\* is_task_removable calls itself on the dependents and keeps no visited set.
RecursesForever(id, to_delete) ==
    \E j \in Reachable(UnfinishedDependents, id) :
        /\ IsTaskRemovable(id, to_delete)
        /\ j \in Reachable(UnfinishedDependents, j)

\* The tasks without ids; the index of their dependencies forgets them.
Without(ids) ==
    [i \in DOMAIN tasks \ ids |->
        [tasks[i] EXCEPT !.dependents =
            @ \ {j \in ids : j \in DOMAIN tasks /\ i \in tasks[j].dependencies}]]

-----------------------------------------------------------------------------
(* Child processes *)

Slots(c) == {s \in (DOMAIN c) \X WorkerIds : s[2] \in DOMAIN c[s[1]]}
ChildAt(c, s) == c[s[1]][s[2]]

HasActiveTasks == Slots(children) # {}

\* Mutant of HasGroupActiveTasks: a group is done when no child is running.
HasGroupActiveTasksRunning(name) ==
    name \in DOMAIN children
    /\ \E w \in DOMAIN children[name] : children[name][w].proc = "running"

HasGroupActiveTasks(name) == name \in DOMAIN children /\ DOMAIN children[name] # {}
AllTaskIds(c) == {ChildAt(c, s).task : s \in Slots(c)}
HasChild(id) == id \in AllTaskIds(children)

IsNextGroupWorker(name, worker) ==
    /\ worker \notin DOMAIN children[name]
    /\ 0 .. (worker - 1) \subseteq DOMAIN children[name]

AddChild(c, name, worker, child) ==
    [c EXCEPT ![name] = [w \in DOMAIN @ \cup {worker} |->
                            IF w = worker THEN child ELSE @[w]]]

\* The effect of a signal on a process. SIGINT and SIGTERM may be ignored, and a
\* process can exit at any time, so they change nothing by themselves. A process
\* that exited and has not been waited for still accepts signals.
Signalled(proc, signal) ==
    CASE signal = "Kill" /\ proc \in Alive -> "dying"
      [] signal = "Stop" /\ proc = "running" -> "stopped"
      [] signal = "Cont" /\ proc = "stopped" -> "running"
      [] OTHER -> proc

SignalChildren(c, ids, signal) ==
    [g \in DOMAIN c |-> [w \in DOMAIN c[g] |->
        IF c[g][w].task \in ids THEN [c[g][w] EXCEPT !.proc = Signalled(@, signal)]
                                ELSE c[g][w]]]

-----------------------------------------------------------------------------
(* Saving, and the shutdown a failed save starts *)

Image(ts, gs) == [tasks |-> ts, groups |-> gs]

\* Mutant of InitiateShutdown: children are left running.
InitiateShutdownNoKill(kind, ts, gs, c) ==
    /\ shutdown' = IF shutdown = "None" THEN kind ELSE shutdown
    /\ children' = c
    /\ disk' = IF shutdown = "None" THEN Image(ts, gs) ELSE disk

\* initiate_shutdown: the first request is remembered and kills every child; the
\* kill saves the state, and when that fails too there is nothing left to start.
InitiateShutdown(kind, ts, gs, c) ==
    \/ /\ shutdown = "None"
       /\ shutdown' = kind
       /\ children' = SignalChildren(c, AllTaskIds(c), "Kill")
       /\ \/ disk' = Image(ts, gs)
          \/ SaveMayFail /\ UNCHANGED disk
    \/ /\ shutdown # "None"
       /\ children' = c
       /\ UNCHANGED << shutdown, disk >>

\* ok_or_shutdown!(state.save()) at the end of a handler that leaves tasks ts,
\* groups gs and children c.
SaveOrShutdown(ts, gs, c) ==
    /\ tasks' = ts
    /\ groups' = gs
    /\ \/ /\ disk' = Image(ts, gs)
          /\ children' = c
          /\ UNCHANGED shutdown
       \/ /\ SaveMayFail
          /\ InitiateShutdown("Emergency", ts, gs, c)

\* ok_or_save_state_failure!(state.save()): if saving fails the change stays and the
\* answer is a failure.
SaveOrFailure(ts, gs, c, answer) ==
    /\ tasks' = ts
    /\ groups' = gs
    /\ children' = c
    /\ UNCHANGED shutdown
    /\ \/ /\ disk' = Image(ts, gs)
          /\ response' = answer
       \/ /\ SaveMayFail
          /\ response' = "Failure"
          /\ UNCHANGED disk

=============================================================================
