-------------------------- MODULE DaemonProperties --------------------------
(***************************************************************************)
(* What the daemon must keep, never do, and finally do.                    *)
(***************************************************************************)
EXTENDS Daemon

-----------------------------------------------------------------------------
(* Invariants *)

\* Every variable has its type.
TypeOK ==
    /\ IsPartialFn(tasks, TaskIds, Task)
    /\ IsPartialFn(groups, GroupNames, Group)
    /\ DOMAIN children \subseteq GroupNames
    /\ \A g \in DOMAIN children : IsPartialFn(children[g], WorkerIds, Child)
    /\ shutdown \in {"None", "Graceful", "Emergency"}
    /\ IsPartialFn(disk.tasks, TaskIds, Task)
    /\ IsPartialFn(disk.groups, GroupNames, Group)
    /\ disk = Image(disk.tasks, disk.groups)
    /\ stage \in Stage
    /\ pending \subseteq TaskIds
    /\ requests \in 0 .. MaxRequests
    /\ response \in {"None", "Success", "Failure"}
    /\ restarts \in 0 .. MaxRestarts

\* The worker pools (children.rs) and the task list agree although requests, ticks
\* and start-up change them separately: every child belongs to a task that is
\* Running or Paused and sits in the pool of that task's group. Otherwise the
\* unwraps of handle_finished_tasks and of pause bring the daemon down.
ChildrenHaveTasks ==
    \A s \in Slots(children) :
        LET id == ChildAt(children, s).task
        IN  /\ id \in DOMAIN tasks
            /\ IsRunning(tasks[id])
            /\ tasks[id].group = s[1]

\* No task ever has two processes: spawn_process has no test for it, only the
\* statuses and the order of restart, start and finish prevent it.
OneChildPerTask ==
    \A s, t \in Slots(children) :
        ChildAt(children, s).task = ChildAt(children, t).task => s = t

\* A task that says it is Running or Paused has a child, so it will be finished.
ActiveTasksHaveChildren ==
    \A i \in DOMAIN tasks : IsRunning(tasks[i]) => HasChild(i)

\* Every group has a worker pool and every task a group: the `expect`s of
\* get_next_group_worker and add_child hold, and group.rs never reports the
\* desynchronisation it checks for.
PoolsMatchGroups ==
    /\ DOMAIN children = DOMAIN groups
    /\ Default \in DOMAIN groups
    /\ \A i \in DOMAIN tasks : tasks[i].group \in DOMAIN groups

Synchronized ==
    ChildrenHaveTasks /\ OneChildPerTask /\ ActiveTasksHaveChildren /\ PoolsMatchGroups

\* As long as users send no SIGSTOP or SIGCONT of their own, a stopped process
\* belongs to a Paused task and a running one to a Running task, so `start` can
\* resume whatever `pause` stopped.
ProcessMatchesStatus ==
    \A s \in Slots(children) :
        LET child == ChildAt(children, s)
        IN  /\ child.proc = "stopped" => child.task \in WithStatus({"Paused"})
            /\ child.proc = "running" => child.task \in WithStatus({"Running"})

\* As long as no task is force-started and no limit lowered, no group runs more
\* tasks than its parallel_tasks, across ticks, restarts and re-created groups.
WorkersWithinLimit ==
    \A g \in DOMAIN groups :
        groups[g].parallel_tasks # 0 =>
            Cardinality(DOMAIN children[g]) <= groups[g].parallel_tasks

\* The reverse dependency index (Task::dependents) lists exactly the tasks whose
\* dependencies name the task, among the tasks that exist.
DependentsIndexed ==
    \A i, d \in DOMAIN tasks : d \in tasks[i].dependencies <=> i \in tasks[d].dependents

\* No task waits for itself, directly or through others.
NoCircularDependencies ==
    \A i \in DOMAIN tasks : i \notin Reachable(Dependencies(tasks), i)

\* When the daemon has exited through handle_shutdown and every save worked, the
\* state file shows no task as running: all kills had been collected and saved.
CleanExitOnDisk ==
    stage = "Exited" =>
        \A i \in DOMAIN disk.tasks : ~IsRunning(disk.tasks[i])

\* A daemon that came back from a crash, at whatever step, runs nothing until a
\* client asks for something (state.rs: "to prevent unwanted execution"). Delayed tasks
\* are aside: their time may come after the restart.
NothingRunsUnasked ==
    restarts > 0 /\ response = "None" => ~HasActiveTasks

-----------------------------------------------------------------------------
(* Action properties *)

\* A task that an unfinished task depends on never disappears under it
\* (is_task_removable).
UnfinishedDependencyKept ==
    [][\A i \in DOMAIN tasks \cap DOMAIN tasks', d \in DOMAIN tasks \ DOMAIN tasks' :
          d \in tasks[i].dependencies => IsDone(tasks[i])]_vars

\* No process is started once a shutdown has begun.
NoSpawnDuringShutdown ==
    [][shutdown # "None" /\ restarts' = restarts =>
          AllTaskIds(children') \subseteq AllTaskIds(children)]_vars

\* A request that is answered with a failure changes no task, group or child,
\* neither in its handler nor in the starts that follow it.
FailureChangesNothing ==
    [][response' = "Failure" /\ (requests' # requests \/ stage = "Start") =>
          UNCHANGED << tasks, groups, children >>]_vars

Renamed(a, b, i) == CASE i = a -> b [] i = b -> a [] OTHER -> i

DependenciesFollow(a, b) ==
    \A i \in DOMAIN tasks :
        tasks'[Renamed(a, b, i)].dependencies =
            {Renamed(a, b, d) : d \in tasks[i].dependencies}

\* Two tasks that do not depend on each other swap ids: every dependency and the
\* reverse index follow them, although switch.rs rewrites only some of the lists.
SwitchRenames ==
    [][\A a, b \in TaskIds :
          /\ a < b /\ Switch(a, b) /\ response' = "Success"
          /\ ~Related(a, b) /\ DependentsIndexed
          => DependenciesFollow(a, b) /\ DependentsIndexed']_vars

-----------------------------------------------------------------------------
(* Liveness *)

\* Queued, its group running with a free slot, and nothing to wait for.
MayStart(i) ==
    /\ i \in WithStatus({"Queued"})
    /\ LET group == groups[tasks[i].group]
       IN  /\ group.status = "Running"
           /\ \/ group.parallel_tasks = 0
              \/ Cardinality(DOMAIN children[tasks[i].group]) < group.parallel_tasks
    /\ \A d \in tasks[i].dependencies :
          d \in DOMAIN tasks => tasks[d].status = "Success"

\* A task that may start does not wait for ever, as long as the daemon is not being
\* shut down: no loop step is skipped for it and no slot is lost.
StartableTasksStart ==
    \A i \in TaskIds :
        ~<>[](stage \notin Down /\ shutdown = "None" /\ MayStart(i))

\* A queued task of a running group does not wait for ever behind a failed one.
FailedDependenciesEnd ==
    \A i \in TaskIds :
        ~<>[](/\ stage \notin Down /\ shutdown = "None"
              /\ i \in WithStatus({"Queued"})
              /\ \E d \in tasks[i].dependencies : d \in DOMAIN tasks /\ HasFailed(tasks[d])
              /\ groups[tasks[i].group].status # "Paused")

\* A group that is being reset is emptied.
ResetsComplete ==
    \A g \in GroupNames :
        (g \in DOMAIN groups /\ groups[g].status = "Reset")
            ~> (TasksOfGroup(g) = {} \/ stage \in Down)

\* A shutdown that was begun ends the daemon.
ShutdownCompletes == (shutdown # "None") ~> (stage \in Down)

-----------------------------------------------------------------------------
(* Refinement *)

TaskPhase(i) ==
    CASE i \notin DOMAIN tasks -> "absent"
      [] i \in DOMAIN tasks /\ IsRunning(tasks[i]) -> "active"
      [] i \in DOMAIN tasks /\ IsDone(tasks[i]) -> "done"
      [] OTHER -> "waiting"

Lifecycle == INSTANCE TaskLifecycle WITH
    Ids <- TaskIds,
    phase <- [i \in TaskIds |-> TaskPhase(i)],
    processes <- AllTaskIds(children)

\* Between two starts of the daemon, its handlers, ticks and process exits together
\* keep the promises of TaskLifecycle.
ImplementsLifecycle == Lifecycle!Spec

=============================================================================
