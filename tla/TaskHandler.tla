---------------------------- MODULE TaskHandler ----------------------------
(***************************************************************************)
(* The task handler: one iteration of its loop every 300ms, under the      *)
(* mutex, with one action per function it calls.                           *)
(*   pueue/src/daemon/task_handler.rs                                      *)
(*   pueue/src/daemon/process_handler/{spawn,finish}.rs                    *)
(*                                                                         *)
(* stage leads through an iteration:                                       *)
(*   Free -> Resets -> Enqueue -> FailedDeps -> Spawn -> Free              *)
(*   Free -> Shutdown -> Free or Exited                                    *)
(* No request is handled between these steps, but processes exit, and the  *)
(* machine may crash, at any of them.                                      *)
(***************************************************************************)
EXTENDS InternalState

NoRequest == UNCHANGED << pending, requests, response, restarts >>
NoChange == UNCHANGED << tasks, groups, children, shutdown, disk >>

-----------------------------------------------------------------------------
(* process_handler/finish.rs *)

\* Mutant of Finished: children that did not exit yet are not skipped.
FinishedAll == Slots(children)

Finished == {s \in Slots(children) : ChildAt(children, s).proc \in Exited}

\* Mutant of AfterFinished: the shutdown check is missing.
AfterFinishedUnchecked == "Resets"

\* What the loop does once the finished tasks are handled.
AfterFinished == IF shutdown' = "None" THEN "Resets" ELSE "Shutdown"

\* handle_finished_tasks gives every exited child's task the result of its exit,
\* frees the worker, pauses groups for the failed ones and saves the state.
HandleFinishedTasks ==
    LET exit == [s \in Finished |-> ChildAt(children, s)]
        failed == {s \in Finished : exit[s].proc \in {"Failed", "Errored"}}
    IN  /\ stage = "Free"
        /\ \/ Finished = {} /\ NoChange
           \/ /\ Finished # {}
              /\ SaveOrShutdown(
                    [i \in DOMAIN tasks |->
                        IF \E s \in Finished : exit[s].task = i
                        THEN [tasks[i] EXCEPT !.status =
                                exit[CHOOSE s \in Finished : exit[s].task = i].proc]
                        ELSE tasks[i]],
                    PausedOnFailure(groups, {tasks[exit[s].task].group : s \in failed}),
                    [g \in DOMAIN children |->
                        [w \in {w \in DOMAIN children[g] : << g, w >> \notin Finished} |->
                            children[g][w]]])
        /\ stage' = AfterFinished
        /\ NoRequest

-----------------------------------------------------------------------------
(* process_handler/spawn.rs *)

\* Mutant of FreeSlots: one task too many.
FreeSlotsOneMore(name) ==
    \/ groups[name].parallel_tasks = 0
    \/ Cardinality(DOMAIN children[name]) <= groups[name].parallel_tasks

\* Mutant of FreeSlots: one task too few.
FreeSlotsOneLess(name) ==
    \/ groups[name].parallel_tasks = 0
    \/ Cardinality(DOMAIN children[name]) + 1 < groups[name].parallel_tasks

FreeSlots(name) ==
    \/ groups[name].parallel_tasks = 0
    \/ Cardinality(DOMAIN children[name]) < groups[name].parallel_tasks

DependenciesSucceeded(id) ==
    \A d \in tasks[id].dependencies \cap DOMAIN tasks : tasks[d].status = "Success"

GroupAcceptsTasks(name) ==
    /\ name \in DOMAIN groups
    /\ groups[name].status = "Running"
    /\ name \in DOMAIN children
    /\ FreeSlots(name)

Startable ==
    {i \in DOMAIN tasks : /\ tasks[i].status = "Queued"
                          /\ GroupAcceptsTasks(tasks[i].group)
                          /\ DependenciesSucceeded(i)}

\* get_next_task_id: the highest priority first, then the lowest id.
IsNextTask(id) ==
    /\ id \in Startable
    /\ \A j \in Startable :
          \/ tasks[j].priority < tasks[id].priority
          \/ tasks[j].priority = tasks[id].priority /\ id <= j

Spawnable(id) == id \in DOMAIN tasks /\ tasks[id].status \in {"Queued", "Locked"}

\* spawn_process returns early for a task that is neither Queued nor Locked. It
\* never looks at shutdown.
SpawnProcess(id) ==
    \/ ~Spawnable(id) /\ NoChange
    \/ /\ Spawnable(id)
       /\ \E worker \in WorkerIds :
             /\ IsNextGroupWorker(tasks[id].group, worker)
             /\ SaveOrShutdown(SetStatus({id}, "Running"), groups,
                    AddChild(children, tasks[id].group, worker,
                             [task |-> id, proc |-> "running"]))
    \/ /\ Spawnable(id)
       /\ SpawnMayFail
       /\ SaveOrShutdown(SetStatus({id}, "FailedToSpawn"),
                         PausedOnFailure(groups, {tasks[id].group}), children)

\* Mutant of SpawnNew: the task it starts stays queued.
SpawnNewStillQueued ==
    /\ stage = "Spawn"
    /\ \/ /\ \E id \in TaskIds, worker \in WorkerIds :
                /\ IsNextTask(id)
                /\ IsNextGroupWorker(tasks[id].group, worker)
                /\ SaveOrShutdown(tasks, groups,
                       AddChild(children, tasks[id].group, worker,
                                [task |-> id, proc |-> "running"]))
          /\ UNCHANGED stage
       \/ /\ Startable = {}
          /\ NoChange
          /\ stage' = "Free"
    /\ NoRequest

\* spawn_new: one task per step until get_next_task_id finds none. An emergency
\* shutdown started on the way ends spawn_process, not this loop.
SpawnNew ==
    /\ stage = "Spawn"
    /\ \/ /\ \E id \in TaskIds : IsNextTask(id) /\ SpawnProcess(id)
          /\ UNCHANGED stage
       \/ /\ Startable = {}
          /\ NoChange
          /\ stage' = "Free"
    /\ NoRequest

-----------------------------------------------------------------------------
(* task_handler.rs *)

\* Mutant of HandleShutdown: it does not wait for the children.
HandleShutdownAtOnce ==
    /\ stage = "Shutdown"
    /\ stage' = "Exited"
    /\ NoChange
    /\ NoRequest

\* handle_shutdown: exit as soon as no child is left.
HandleShutdown ==
    /\ stage = "Shutdown"
    /\ stage' = IF HasActiveTasks THEN "Free" ELSE "Exited"
    /\ NoChange
    /\ NoRequest

\* The tasks a completed reset of the groups removes.
ResetTasks(reset) == {i \in DOMAIN tasks : tasks[i].group \in reset}

\* handle_group_resets drops the tasks of every group that is being reset and has
\* no child left, and lets the group run again. Dependency lists and the reverse
\* index of the other tasks stay as they are, and nothing is saved.
HandleGroupResets ==
    LET reset == {g \in DOMAIN groups :
                    groups[g].status = "Reset" /\ ~HasGroupActiveTasks(g)}
    IN  /\ stage = "Resets"
        /\ tasks' = [i \in DOMAIN tasks \ ResetTasks(reset) |-> tasks[i]]
        /\ groups' = SetGroupStatus(groups, reset, "Running")
        /\ stage' = "Enqueue"
        /\ UNCHANGED << children, shutdown, disk >>
        /\ NoRequest

\* enqueue_delayed_tasks enqueues the delayed tasks whose time has come.
EnqueueDelayedTasks ==
    /\ stage = "Enqueue"
    /\ \E due \in SUBSET {i \in DOMAIN tasks : tasks[i].status = "Delayed"} :
          \/ due = {} /\ NoChange
          \/ due # {} /\ SaveOrShutdown(SetStatus(due, "Queued"), groups, children)
    /\ stage' = "FailedDeps"
    /\ NoRequest

\* Mutant of HasFailedDependency: only a non-zero exit code counts as failed.
HasFailedDependencyExitCode(id) ==
    \E d \in tasks[id].dependencies \cap DOMAIN tasks : tasks[d].status = "Failed"

HasFailedDependency(id) ==
    \E d \in tasks[id].dependencies \cap DOMAIN tasks : HasFailed(tasks[d])

GroupIsPaused(name) == name \in DOMAIN groups /\ groups[name].status = "Paused"

\* check_failed_dependencies ends the queued tasks of groups that are not paused
\* that wait for a failed task. Nothing is saved.
CheckFailedDependencies ==
    /\ stage = "FailedDeps"
    /\ tasks' = SetStatus({i \in DOMAIN tasks : /\ tasks[i].status = "Queued"
                                                /\ HasFailedDependency(i)
                                                /\ ~GroupIsPaused(tasks[i].group)},
                          "DependencyFailed")
    /\ stage' = "Spawn"
    /\ UNCHANGED << groups, children, shutdown, disk >>
    /\ NoRequest

TaskHandlerStep ==
    \/ HandleFinishedTasks
    \/ HandleShutdown
    \/ HandleGroupResets
    \/ EnqueueDelayedTasks
    \/ CheckFailedDependencies
    \/ SpawnNew

=============================================================================
