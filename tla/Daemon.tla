------------------------------- MODULE Daemon -------------------------------
(***************************************************************************)
(* The pueue daemon: the task handler and the request handlers taking      *)
(* turns on the mutex, among child processes that exit when they like, and *)
(* a machine that may crash and start the daemon again from its state file.*)
(*   pueue/src/daemon/mod.rs, internal_state/state.rs (new, restore_state) *)
(***************************************************************************)
EXTENDS MessageHandler

Down == {"Exited", "Panicked", "Crashed"}
Stage == {"Free", "Resets", "Enqueue", "FailedDeps", "Spawn", "Shutdown", "Start"}
            \cup Down

-----------------------------------------------------------------------------
(* Environment *)

ProcessChanges(from, to) ==
    /\ stage \notin Down
    /\ \E s \in Slots(children) :
          /\ ChildAt(children, s).proc = from
          /\ children' = [children EXCEPT ![s[1]][s[2]].proc = to]
    /\ UNCHANGED << tasks, groups, shutdown, disk, stage >>
    /\ NoRequest

\* A running process exits with any result.
ProcessExit == \E result \in Exited : ProcessChanges("running", result)

\* A stopped process ends only if someone else kills it.
StoppedProcessKilled == ProcessChanges("stopped", "Killed")

\* A process that got SIGKILL dies.
KilledProcessExit == ProcessChanges("dying", "Killed")

\* Power loss, SIGKILL, or a panic such as the one for a log file that cannot be
\* created: memory and child handles are gone, the state file stays.
Crash ==
    /\ stage \notin Down
    /\ restarts < MaxRestarts
    /\ stage' = "Crashed"
    /\ NoChange
    /\ NoRequest

-----------------------------------------------------------------------------
(* Start-up *)

\* Mutant of RestoredStatus: tasks keep the status they crashed in.
RestoredStatusKept(status) == IF status = "Locked" THEN "Stashed" ELSE status

\* restore_state on a task's status: what ran counts as killed, since its handle is
\* lost (the process itself may go on), and an edit is over.
RestoredStatus(status) ==
    CASE status \in Active -> "Killed"
      [] status = "Locked" -> "Stashed"
      [] OTHER -> status

\* A task whose group is gone joins the default group; the reverse index is rebuilt.
RestoredTasks(ts, gs) ==
    [i \in DOMAIN ts |->
        [ts[i] EXCEPT
            !.status = RestoredStatus(@),
            !.group = IF @ \in DOMAIN gs THEN @ ELSE Default,
            !.dependents = {j \in DOMAIN ts : i \in ts[j].dependencies}]]

\* Mutant of RestoredGroups: groups come back as they were.
RestoredGroupsAsSaved(ts, gs) == gs

\* Groups with queued tasks are paused.
RestoredGroups(ts, gs) ==
    SetGroupStatus(gs,
        {g \in DOMAIN gs : \E i \in DOMAIN ts : ts[i].group = g /\ ts[i].status = "Queued"},
        "Paused")

Restart ==
    LET ts == RestoredTasks(disk.tasks, disk.groups)
        gs == RestoredGroups(ts, disk.groups)
    IN  /\ stage \in Down
        /\ restarts < MaxRestarts
        /\ restarts' = restarts + 1
        /\ tasks' = ts
        /\ groups' = gs
        /\ children' = [g \in DOMAIN gs |-> << >>]
        /\ shutdown' = "None"
        /\ disk' = Image(ts, gs)
        /\ stage' = "Free"
        /\ pending' = {}
        /\ response' = "None"
        /\ UNCHANGED requests

Init ==
    /\ tasks = << >>
    /\ groups = [g \in InitialGroups |-> [status |-> "Running", parallel_tasks |-> 1]]
    /\ children = [g \in InitialGroups |-> << >>]
    /\ shutdown = "None"
    /\ disk = Image(tasks, groups)
    /\ stage = "Free"
    /\ pending = {}
    /\ requests = 0
    /\ response = "None"
    /\ restarts = 0

-----------------------------------------------------------------------------
(* Next-state relation *)

WaitingStatus == IF Delays THEN {"Stashed", "Delayed"} ELSE {"Stashed"}
AddStatus == WaitingStatus \cup {"Queued"}

\* The id a new task would get is still in the lists of another one: ids of removed
\* last tasks are given out again, and a list may name a removed task.
IdStillNamed ==
    \E id \in TaskIds, i \in DOMAIN tasks :
        IsNextTaskId(id) /\ id \in tasks[i].dependencies \cup tasks[i].dependents

ClientAdd ==
    /\ IdStillNamed => "add_reused" \in Commands
    /\ \E name \in GroupNames, status \in AddStatus, deps \in SUBSET TaskIds,
          priority \in Priorities, immediate \in BOOLEAN :
             /\ immediate => status = "Queued" /\ "immediate" \in Commands
             /\ AddTask(name, status, deps, priority, immediate)

ClientEnqueue ==
    \E sel \in TaskSelection, status \in AddStatus \ {"Stashed"} : Enqueue(sel, status)

ClientStash == \E sel \in TaskSelection, status \in WaitingStatus : Stash(sel, status)

ClientKill == \E sel \in TaskSelection, signal \in Signals \cup {"Kill"} : Kill(sel, signal)

ClientPause == \E sel \in TaskSelection, wait \in BOOLEAN : Pause(sel, wait)

ClientStart ==
    \/ \E ids \in IdSets : StartTasks(ids)
    \/ \E sel \in TaskSelection : StartSelection(sel)

ClientRestart ==
    \E ids \in IdSets, status \in {"Queued", "Stashed"}, immediate \in BOOLEAN :
        \E priority \in [ids -> Priorities] :
          /\ immediate => status = "Queued" /\ "restart_immediate" \in Commands
          /\ RestartMultiple(ids, status, priority, immediate)

ClientEdit ==
    /\ "edit" \in Commands
    /\ \E ids \in {S \in IdSets : Cardinality(S) <= MaxEdited} :
        \/ EditRequest(ids)
        \/ EditRestore(ids)
        \/ \E edits \in [ids -> EditableTask] : Edit(edits)

\* Whether one of two tasks depends on the other.
Related(a, b) ==
    /\ {a, b} \subseteq DOMAIN tasks
    /\ a \in tasks[b].dependencies \/ b \in tasks[a].dependencies

ClientSwitch ==
    \E a, b \in TaskIds :
        /\ a <= b
        /\ Related(a, b) => "switch_related" \in Commands
        /\ Switch(a, b)

ClientRemove == \E ids \in IdSets : Remove(ids)

ClientClean ==
    \E successful_only \in BOOLEAN, names \in {GroupNames} \cup {{g} : g \in GroupNames} :
        Clean(successful_only, names)

ClientGroup ==
    \E name \in GroupNames :
        \/ \E n \in Parallelism : GroupAdd(name, n)
        \/ GroupRemove(name)

ClientParallel == \E name \in GroupNames, n \in Parallelism : SetParallelTasks(name, n)

ClientReset == \E sel \in TaskSelection : Reset(sel)

ClientShutdown == \E kind \in {"Graceful", "Emergency"} : Shutdown(kind)

StartStep == StartDone \/ \E id \in TaskIds : StartNext(id)

Next ==
    \/ HandleFinishedTasks \/ HandleShutdown \/ HandleGroupResets
    \/ EnqueueDelayedTasks \/ CheckFailedDependencies \/ SpawnNew
    \/ StartStep
    \/ ClientAdd \/ ClientEnqueue \/ ClientStash \/ ClientKill \/ ClientPause
    \/ ClientStart \/ ClientRestart \/ ClientEdit \/ ClientSwitch \/ ClientRemove
    \/ ClientClean \/ ClientGroup \/ ClientParallel \/ ClientReset \/ ClientShutdown
    \/ ProcessExit \/ StoppedProcessKilled \/ KilledProcessExit
    \/ Crash \/ Restart

Spec == Init /\ [][Next]_vars

\* The task handler's loop never ends, whoever holds the mutex goes on, and a
\* process that was sent SIGKILL dies.
FairSpec ==
    /\ Spec
    /\ WF_vars(TaskHandlerStep)
    /\ WF_vars(StartStep)
    /\ WF_vars(KilledProcessExit)

\* The same, for tasks whose commands end by themselves.
FairProcessesSpec == FairSpec /\ WF_vars(ProcessExit)

=============================================================================
