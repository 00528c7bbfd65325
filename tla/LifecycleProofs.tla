--------------------------- MODULE LifecycleProofs ----------------------------
(***************************************************************************)
(* What clients may rely on: between two starts the daemon implements      *)
(* TaskLifecycle, requests that fail change nothing, and the state file    *)
(* holds what the next daemon may go on with (NothingRunsUnasked,          *)
(* CleanExitOnDisk).  Then the processes: how many there are, what they do *)
(* and when there are no more (WorkersWithinLimit, ProcessMatchesStatus    *)
(* and NoSpawnDuringShutdown).                                             *)
(***************************************************************************)
EXTENDS DaemonProofs, FiniteSetTheorems

-----------------------------------------------------------------------------
(***************************************************************************)
(* TaskLifecycle.  By Sync, the tasks with a process are those in phase    *)
(* "active", before and after every step. So a step of the daemon is a     *)
(* step of the abstract specification if it moves the phases of the tasks  *)
(* as one of its actions does (Promised), and processes follow.            *)
(***************************************************************************)

-----------------------------------------------------------------------------
(* Phases *)

StatusPhase(status) ==
    IF status \in Active THEN "active"
    ELSE IF status \in Results THEN "done" ELSE "waiting"

\* TaskPhase, of any task list.
PhaseOf(ts, i) == IF i \in DOMAIN ts THEN StatusPhase(ts[i].status) ELSE "absent"

SamePhases(ts) == \A i \in TaskIds : PhaseOf(ts, i) = PhaseOf(tasks, i)

\* From the tasks as they are to ts, S goes from a phase in from to the phase to.
Turn(ts, S, from, to) ==
    /\ S \subseteq TaskIds
    /\ \A i \in S : PhaseOf(tasks, i) \in from /\ PhaseOf(ts, i) = to
    /\ \A i \in TaskIds \ S : PhaseOf(ts, i) = PhaseOf(tasks, i)

\* The phases of ts are those after a step of TaskLifecycle, or after none.
Promised(ts) ==
    \/ SamePhases(ts)
    \/ \E i \in TaskIds : \/ Turn(ts, {i}, {"absent"}, "waiting")
                          \/ Turn(ts, {i}, {"waiting"}, "active")
    \/ \E S : \/ Turn(ts, S, {"active"}, "done")
              \/ Turn(ts, S, {"waiting"}, "done")
              \/ Turn(ts, S, {"done"}, "waiting")
              \/ Turn(ts, S, {"waiting", "done"}, "absent")

\* A task's phase follows from its status.
LEMMA PhaseCases ==
  ASSUME NEW ts, NEW i
  PROVE  /\ PhaseOf(ts, i) = "absent" <=> i \notin DOMAIN ts
         /\ PhaseOf(ts, i) = "active" <=> i \in DOMAIN ts /\ ts[i].status \in Active
         /\ PhaseOf(ts, i) = "done" <=> i \in DOMAIN ts /\ ts[i].status \in Results
         /\ PhaseOf(ts, i) = "waiting" <=>
               i \in DOMAIN ts /\ ts[i].status \notin Active \cup Results
  BY DEF PhaseOf, StatusPhase, Active, Results

\* The phases of the task list as it is are those of the refinement mapping.
LEMMA PhasesOfTasks ==
  /\ \A i : PhaseOf(tasks, i) = TaskPhase(i)
  /\ [i \in TaskIds |-> TaskPhase(i)] = [i \in TaskIds |-> PhaseOf(tasks, i)]
<1>1. ASSUME NEW i
      PROVE  PhaseOf(tasks, i) = TaskPhase(i)
  <2>1. i \notin DOMAIN tasks => TaskPhase(i) = "absent"
    BY DEF TaskPhase
  <2>2. i \in DOMAIN tasks /\ tasks[i].status \in Active => TaskPhase(i) = "active"
    BY DEF TaskPhase, IsRunning, IsDone, Active, Results
  <2>3. i \in DOMAIN tasks /\ tasks[i].status \in Results => TaskPhase(i) = "done"
    BY DEF TaskPhase, IsRunning, IsDone, Active, Results
  <2>4. i \in DOMAIN tasks /\ tasks[i].status \notin Active \cup Results =>
           TaskPhase(i) = "waiting"
    BY DEF TaskPhase, IsRunning, IsDone
  <2>5. QED
    BY <2>1, <2>2, <2>3, <2>4 DEF PhaseOf, StatusPhase
<1>2. QED
  BY <1>1

\* The tasks with a process are the active ones.
LEMMA ProcessesAreTheActive ==
  SyncInv => AllTaskIds(children) = {i \in TaskIds : PhaseOf(tasks, i) = "active"}
<1> SUFFICES ASSUME SyncInv
             PROVE  AllTaskIds(children) = {i \in TaskIds : PhaseOf(tasks, i) = "active"}
  OBVIOUS
<1>1. Synchronized
  BY SyncInvSynchronized
<1>2. DOMAIN tasks \subseteq TaskIds
  BY DEF SyncInv, StateType, TasksType, IsPartialFn
<1>3. ASSUME NEW i \in AllTaskIds(children)
      PROVE  i \in TaskIds /\ PhaseOf(tasks, i) = "active"
  <2>1. PICK s \in Slots(children) : ChildAt(children, s).task = i
    BY DEF AllTaskIds
  <2>2. i \in DOMAIN tasks /\ IsRunning(tasks[i])
    BY <1>1, <2>1 DEF Synchronized, ChildrenHaveTasks
  <2>3. QED
    BY <1>2, <2>2, PhaseCases DEF IsRunning
<1>4. ASSUME NEW i \in TaskIds, PhaseOf(tasks, i) = "active"
      PROVE  i \in AllTaskIds(children)
  <2>1. i \in DOMAIN tasks /\ IsRunning(tasks[i])
    BY <1>4, PhaseCases DEF IsRunning
  <2>2. QED
    BY <1>1, <2>1 DEF Synchronized, ActiveTasksHaveChildren, HasChild
<1>5. QED
  BY <1>3, <1>4

\* A step that moves the phases as TaskLifecycle does is a step of it.
LEMMA PromisedIsStep ==
  ASSUME SyncInv, SyncInv', Promised(tasks')
  PROVE  [Lifecycle!Next]_(Lifecycle!lvars)
<1> DEFINE phase == [i \in TaskIds |-> TaskPhase(i)]
           next == [i \in TaskIds |-> PhaseOf(tasks', i)]
           running(p) == {i \in TaskIds : p[i] = "active"}
<1>1. phase' = next
  <2>1. ([i \in TaskIds |-> TaskPhase(i)] = [i \in TaskIds |-> PhaseOf(tasks, i)])'
    BY PhasesOfTasks, PTL
  <2>2. QED
    BY <2>1
<1>2. /\ AllTaskIds(children) = running(phase)
      /\ AllTaskIds(children)' = running(next)
  <2>1. AllTaskIds(children) = running(phase)
    BY ProcessesAreTheActive, PhasesOfTasks
  <2>2. (AllTaskIds(children) = {i \in TaskIds : PhaseOf(tasks, i) = "active"})'
    BY ProcessesAreTheActive, PTL
  <2>3. QED
    BY <2>1, <2>2
<1>3. \A i \in TaskIds : phase[i] = PhaseOf(tasks, i) /\ next[i] = PhaseOf(tasks', i)
  BY PhasesOfTasks
<1>4. DOMAIN phase = TaskIds /\ DOMAIN next = TaskIds
  OBVIOUS
<1>5. CASE SamePhases(tasks')
  <2>1. next = phase
    BY <1>3, <1>5 DEF SamePhases
  <2>2. QED
    BY <1>1, <1>2, <2>1 DEF Lifecycle!lvars
<1>6. ASSUME NEW S, NEW from, NEW to, Turn(tasks', S, from, to)
      PROVE  Lifecycle!Move(S, from, to)
  <2>1. \A i \in S : phase[i] \in from
    BY <1>3, <1>6 DEF Turn
  <2>2. next = [i \in TaskIds |-> IF i \in S THEN to ELSE phase[i]]
    BY <1>3, <1>6 DEF Turn
  <2>3. QED
    BY <1>1, <2>1, <2>2 DEF Lifecycle!Move
<1>7. ASSUME NEW S, NEW from, NEW to, Turn(tasks', S, from, to)
      PROVE  /\ S \subseteq TaskIds
             /\ to = "active" => running(next) = running(phase) \cup S
             /\ to # "active" /\ from = {"active"} => running(next) = running(phase) \ S
             /\ to # "active" /\ "active" \notin from => running(next) = running(phase)
  BY <1>3, <1>7 DEF Turn
<1> HIDE DEF phase, next, running
<1>8. ASSUME NEW i \in TaskIds, Turn(tasks', {i}, {"absent"}, "waiting")
      PROVE  Lifecycle!Submit(i)
  BY <1>2, <1>6, <1>7, <1>8 DEF Lifecycle!Submit
<1>9. ASSUME NEW i \in TaskIds, Turn(tasks', {i}, {"waiting"}, "active")
      PROVE  Lifecycle!Launch(i)
  BY <1>2, <1>6, <1>7, <1>9 DEF Lifecycle!Launch
<1>10. ASSUME NEW S, S # {}, Turn(tasks', S, {"active"}, "done")
       PROVE  Lifecycle!Finish(S) /\ S \subseteq TaskIds
  BY <1>2, <1>6, <1>7, <1>10 DEF Lifecycle!Finish
<1>11. ASSUME NEW S, S # {}, Turn(tasks', S, {"waiting"}, "done")
       PROVE  Lifecycle!GiveUp(S) /\ S \subseteq TaskIds
  BY <1>2, <1>6, <1>7, <1>11 DEF Lifecycle!GiveUp
<1>12. ASSUME NEW S, S # {}, Turn(tasks', S, {"done"}, "waiting")
       PROVE  Lifecycle!Requeue(S) /\ S \subseteq TaskIds
  BY <1>2, <1>6, <1>7, <1>12 DEF Lifecycle!Requeue
<1>13. ASSUME NEW S, S # {}, Turn(tasks', S, {"waiting", "done"}, "absent")
       PROVE  Lifecycle!Discard(S) /\ S \subseteq TaskIds
  BY <1>2, <1>6, <1>7, <1>13 DEF Lifecycle!Discard
<1>14. \A from, to : Turn(tasks', {}, from, to) => SamePhases(tasks')
  BY DEF Turn, SamePhases
<1>15. QED
  BY <1>5, <1>8, <1>9, <1>10, <1>11, <1>12, <1>13, <1>14 DEF Promised, Lifecycle!Next

-----------------------------------------------------------------------------
(* The ways task lists change *)

\* Tasks that keep their status, or get one of the same phase.
LEMMA SameStatusPhases ==
  ASSUME NEW ts, DOMAIN ts = DOMAIN tasks,
         \A i \in DOMAIN tasks : StatusPhase(ts[i].status) = StatusPhase(tasks[i].status)
  PROVE  Promised(ts)
  BY DEF Promised, SamePhases, PhaseOf

\* Nothing changes.
LEMMA SameTasksPromised ==
  ASSUME UNCHANGED tasks
  PROVE  Promised(tasks')
  BY DEF Promised, SamePhases

\* change_status: the tasks with a new status go to its phase, the others stay.
LEMMA SetStatusTurn ==
  ASSUME StateType, NEW ids, ids \subseteq DOMAIN tasks, NEW status, NEW from,
         \A i \in ids : StatusPhase(tasks[i].status) \in from
  PROVE  Turn(SetStatus(ids, status), ids, from, StatusPhase(status))
<1>1. /\ DOMAIN SetStatus(ids, status) = DOMAIN tasks
      /\ \A i \in DOMAIN tasks : SetStatus(ids, status)[i].status =
                                     IF i \in ids THEN status ELSE tasks[i].status
  BY DEF SetStatus, StateType, TasksType, IsPartialFn, Task
<1>2. DOMAIN tasks \subseteq TaskIds
  BY DEF StateType, TasksType, IsPartialFn
<1>3. QED
  BY <1>1, <1>2 DEF Turn, PhaseOf

\* change_status within a phase.
LEMMA SetStatusSamePhases ==
  ASSUME StateType, NEW ids, NEW status,
         \A i \in ids \cap DOMAIN tasks : StatusPhase(tasks[i].status) = StatusPhase(status)
  PROVE  Promised(SetStatus(ids, status))
<1>1. /\ DOMAIN SetStatus(ids, status) = DOMAIN tasks
      /\ \A i \in DOMAIN tasks : SetStatus(ids, status)[i].status =
                                     IF i \in ids THEN status ELSE tasks[i].status
  BY DEF SetStatus, StateType, TasksType, IsPartialFn, Task
<1>2. QED
  BY <1>1, SameStatusPhases

\* The tasks without some that are not active.
LEMMA DiscardPromised ==
  ASSUME StateType, NEW ids, NEW ts, DOMAIN ts = DOMAIN tasks \ ids,
         \A i \in DOMAIN ts : ts[i].status = tasks[i].status,
         \A i \in ids \cap DOMAIN tasks : tasks[i].status \notin Active
  PROVE  Promised(ts)
<1>1. DOMAIN tasks \subseteq TaskIds
  BY DEF StateType, TasksType, IsPartialFn
<1>2. \A i \in ids \cap DOMAIN tasks : PhaseOf(tasks, i) \in {"waiting", "done"}
  BY DEF PhaseOf, StatusPhase
<1>3. Turn(ts, ids \cap DOMAIN tasks, {"waiting", "done"}, "absent")
  BY <1>1, <1>2 DEF Turn, PhaseOf
<1>4. QED
  BY <1>3 DEF Promised

\* The phases of the statuses requests give.
LEMMA StatusPhases ==
  /\ \A status \in Editable \cup {"Locked"} : StatusPhase(status) = "waiting"
  /\ \A status \in Active : StatusPhase(status) = "active"
  /\ \A status \in Results : StatusPhase(status) = "done"
  BY DEF StatusPhase, Editable, Active, Results

-----------------------------------------------------------------------------
(* The task handler *)

\* Tasks whose process has exited are done.
LEMMA HandleFinishedTasksPromised ==
  ASSUME StateType, Sync, HandleFinishedTasks
  PROVE  Promised(tasks')
<1>1. CASE Finished = {} /\ NoChange
  BY <1>1, SameTasksPromised DEF NoChange
<1>2. CASE Finished # {}
  <2> DEFINE exit == [s \in Finished |-> ChildAt(children, s)]
             over == {i \in DOMAIN tasks : \E s \in Finished : exit[s].task = i}
             ts == [i \in DOMAIN tasks |->
                        IF \E s \in Finished : exit[s].task = i
                        THEN [tasks[i] EXCEPT !.status =
                                exit[CHOOSE s \in Finished : exit[s].task = i].proc]
                        ELSE tasks[i]]
  <2>1. tasks' = ts
    BY <1>2 DEF HandleFinishedTasks, SaveOrShutdown
  <2>2. DOMAIN ts = DOMAIN tasks /\ DOMAIN tasks \subseteq TaskIds
    BY DEF StateType, TasksType, IsPartialFn
  <2>3. ASSUME NEW i \in over
        PROVE  ts[i].status \in Results /\ tasks[i].status \in Active
    <3>1. tasks[i] \in Task
      BY DEF StateType, TasksType, IsPartialFn
    <3>2. (CHOOSE s \in Finished : exit[s].task = i) \in Finished
      OBVIOUS
    <3>3. exit[CHOOSE s \in Finished : exit[s].task = i].proc \in Results
      BY <3>2 DEF Finished, Exited, Results
    <3>4. ts[i] = [tasks[i] EXCEPT !.status =
                      exit[CHOOSE s \in Finished : exit[s].task = i].proc]
      OBVIOUS
    <3>5. PICK s \in Finished : ChildAt(children, s).task = i
      OBVIOUS
    <3>6. s[1] \in DOMAIN children /\ s[2] \in DOMAIN children[s[1]]
      BY DEF Finished, Slots
    <3>7. tasks[i].status \in Active
      BY <3>5, <3>6 DEF ChildAt, Sync, InStep, Pooled
    <3> HIDE DEF exit, ts
    <3>8. QED
      BY <3>1, <3>3, <3>4, <3>7 DEF Task
  <2>4. \A i \in DOMAIN tasks \ over : ts[i] = tasks[i]
    OBVIOUS
  <2>5. over \subseteq DOMAIN tasks
    OBVIOUS
  <2> HIDE DEF ts, over, exit
  <2>6. Turn(ts, over, {"active"}, "done")
    BY <2>2, <2>3, <2>4, <2>5, StatusPhases DEF Turn, PhaseOf
  <2>7. QED
    BY <2>1, <2>6 DEF Promised
<1>3. QED
  BY <1>1, <1>2 DEF HandleFinishedTasks

\* A queued or locked task is launched, or given up when it cannot be spawned.
LEMMA SpawnProcessPromised ==
  ASSUME StateType, NEW id \in TaskIds, SpawnProcess(id)
  PROVE  Promised(tasks')
<1>1. CASE ~Spawnable(id) /\ NoChange
  BY <1>1, SameTasksPromised DEF NoChange
<1>2. CASE Spawnable(id)
  <2>1. StatusPhase(tasks[id].status) = "waiting" /\ {id} \subseteq DOMAIN tasks
    BY <1>2 DEF Spawnable, StatusPhase, Active, Results
  <2>2. Turn(SetStatus({id}, "Running"), {id}, {"waiting"}, "active")
    <3>1. StatusPhase("Running") = "active"
      BY DEF StatusPhase, Active
    <3>2. QED
      BY <2>1, <3>1, SetStatusTurn
  <2>3. Turn(SetStatus({id}, "FailedToSpawn"), {id}, {"waiting"}, "done")
    <3>1. StatusPhase("FailedToSpawn") = "done"
      BY DEF StatusPhase, Active, Results
    <3>2. QED
      BY <2>1, <3>1, SetStatusTurn
  <2>4. tasks' \in {SetStatus({id}, "Running"), SetStatus({id}, "FailedToSpawn")}
    BY <1>2 DEF SpawnProcess, SaveOrShutdown
  <2>5. QED
    BY <2>2, <2>3, <2>4 DEF Promised
<1>3. QED
  BY <1>1, <1>2 DEF SpawnProcess

\* The steps of an iteration: a completed reset discards tasks that have no process,
\* tasks behind failed ones are given up.
LEMMA TaskHandlerPromised ==
  ASSUME StateType, Sync, TaskHandlerStep
  PROVE  Promised(tasks')
<1>1. CASE HandleFinishedTasks
  BY <1>1, HandleFinishedTasksPromised
<1>2. CASE HandleShutdown
  BY <1>2, SameTasksPromised DEF HandleShutdown, NoChange
<1>3. CASE HandleGroupResets
  <2> DEFINE reset == {g \in DOMAIN groups :
                          groups[g].status = "Reset" /\ ~HasGroupActiveTasks(g)}
  <2>1. tasks' = [i \in DOMAIN tasks \ ResetTasks(reset) |-> tasks[i]]
    BY <1>3 DEF HandleGroupResets
  <2>2. \A i \in ResetTasks(reset) : tasks[i].status \notin Active
    <3> SUFFICES ASSUME NEW i \in DOMAIN tasks, tasks[i].status \in Active
                 PROVE  HasGroupActiveTasks(tasks[i].group)
      BY DEF ResetTasks
    <3>1. PICK g \in DOMAIN children : \E w \in DOMAIN children[g] : children[g][w].task = i
      BY DEF Sync, InStep, Owned
    <3>2. tasks[i].group = g
      BY <3>1 DEF Sync, InStep, Pooled
    <3>3. QED
      BY <3>1, <3>2 DEF HasGroupActiveTasks
  <2>3. QED
    BY <2>1, <2>2, DiscardPromised
<1>4. CASE EnqueueDelayedTasks
  <2>1. PICK due \in SUBSET {i \in DOMAIN tasks : tasks[i].status = "Delayed"} :
          \/ due = {} /\ NoChange
          \/ due # {} /\ SaveOrShutdown(SetStatus(due, "Queued"), groups, children)
    BY <1>4 DEF EnqueueDelayedTasks
  <2>2. Promised(SetStatus(due, "Queued"))
    <3>1. StatusPhase("Queued") = StatusPhase("Delayed")
      BY StatusPhases DEF Editable
    <3>2. QED
      BY <3>1, SetStatusSamePhases
  <2>3. QED
    BY <2>1, <2>2, SameTasksPromised DEF NoChange, SaveOrShutdown
<1>5. CASE CheckFailedDependencies
  <2> DEFINE ids == {i \in DOMAIN tasks : /\ tasks[i].status = "Queued"
                                          /\ HasFailedDependency(i)
                                          /\ ~GroupIsPaused(tasks[i].group)}
  <2>1. tasks' = SetStatus(ids, "DependencyFailed")
    BY <1>5 DEF CheckFailedDependencies
  <2>2. /\ StatusPhase("DependencyFailed") = "done"
        /\ StatusPhase("Queued") = "waiting"
    BY DEF StatusPhase, Active, Results
  <2>3. Turn(SetStatus(ids, "DependencyFailed"), ids, {"waiting"}, "done")
    <3>1. ids \subseteq DOMAIN tasks /\ \A i \in ids : tasks[i].status = "Queued"
      OBVIOUS
    <3> HIDE DEF ids
    <3>2. QED
      BY <2>2, <3>1, SetStatusTurn
  <2> HIDE DEF ids
  <2>4. QED
    BY <2>1, <2>3 DEF Promised
<1>6. CASE SpawnNew
  BY <1>6, SpawnProcessPromised, SameTasksPromised DEF SpawnNew, NoChange
<1>7. QED
  BY <1>1, <1>2, <1>3, <1>4, <1>5, <1>6 DEF TaskHandlerStep

-----------------------------------------------------------------------------
(* Requests *)

\* A new task waits.
LEMMA AddTaskPromised ==
  ASSUME StateType, ClientAdd
  PROVE  Promised(tasks')
<1>1. PICK name \in GroupNames, status \in AddStatus, deps \in SUBSET TaskIds,
           priority \in Priorities, immediate \in BOOLEAN :
             AddTask(name, status, deps, priority, immediate)
  BY DEF ClientAdd
<1>2. CASE Refuse
  BY <1>2, SameTasksPromised DEF Refuse, NoChange
<1>3. CASE ~Refuse
  <2>1. PICK id \in TaskIds :
          /\ IsNextTaskId(id)
          /\ tasks' = WithTask(id, NewTask(name, status, deps, priority))
    BY <1>1, <1>3 DEF AddTask, SaveOrFailure
  <2>2. id \notin DOMAIN tasks
    BY <2>1 DEF IsNextTaskId, TaskIds
  <2>3. StatusPhase(status) = "waiting"
    BY StatusPhases DEF AddStatus, WaitingStatus, Editable
  <2> DEFINE task == NewTask(name, status, deps, priority)
  <2>4. task.status = status
    BY DEF NewTask
  <2> HIDE DEF task
  <2>5. /\ DOMAIN tasks' = DOMAIN tasks \cup {id}
        /\ tasks'[id].status = status
        /\ \A i \in DOMAIN tasks : tasks'[i].status = tasks[i].status
    BY <2>1, <2>2, <2>4 DEF WithTask, StateType, TasksType, IsPartialFn, Task, task
  <2>6. Turn(tasks', {id}, {"absent"}, "waiting")
    BY <2>2, <2>3, <2>5 DEF Turn, PhaseOf
  <2>7. QED
    BY <2>6 DEF Promised
<1>4. QED
  BY <1>2, <1>3

\* Waiting tasks go on waiting when they are enqueued, stashed, locked and unlocked.
LEMMA EnqueueStashPromised ==
  ASSUME StateType, ClientEnqueue \/ ClientStash
  PROVE  Promised(tasks')
<1>1. PICK ids \in SUBSET WithStatus(Editable \cup {"Locked"}), status \in Editable :
          tasks' = SetStatus(ids, status)
  BY DEF ClientEnqueue, ClientStash, Enqueue, Stash, AddStatus, WaitingStatus, WithStatus,
         Editable
<1>2. \A i \in ids \cap DOMAIN tasks : StatusPhase(tasks[i].status) = StatusPhase(status)
  BY StatusPhases DEF WithStatus
<1>3. QED
  BY <1>1, <1>2, SetStatusSamePhases

\* Signals change no task, and pauses only between Running and Paused.
LEMMA KillPauseResetPromised ==
  ASSUME StateType, ClientKill \/ ClientPause \/ ClientReset
  PROVE  Promised(tasks')
<1>1. CASE ClientKill \/ ClientReset
  <2>1. UNCHANGED tasks
    BY <1>1 DEF ClientKill, ClientReset, Kill, Reset, Refuse, NoChange, SaveOrShutdown
  <2>2. QED
    BY <2>1, SameTasksPromised
<1>2. ASSUME NEW sel \in TaskSelection, NEW wait \in BOOLEAN, Pause(sel, wait)
      PROVE  Promised(tasks')
  <2> DEFINE paused == {i \in PausedBy(sel, wait) : HasChild(i)}
  <2>1. \A i \in paused \cap DOMAIN tasks : tasks[i].status \in Active
    <3>1. sel.kind \in {"TaskIds", "Group", "All"}
      BY DEF TaskSelection
    <3>2. QED
      BY <3>1 DEF PausedBy, WithStatus, Active
  <2>2. UNCHANGED tasks \/ tasks' = SetStatus(paused, "Paused")
    BY <1>2 DEF Pause, Refuse, NoChange, SaveOrShutdown
  <2> HIDE DEF paused
  <2>3. \A i \in paused \cap DOMAIN tasks : StatusPhase(tasks[i].status) = StatusPhase("Paused")
    BY <2>1, StatusPhases DEF Active
  <2>4. QED
    BY <2>2, <2>3, SetStatusSamePhases, SameTasksPromised
<1>3. QED
  BY <1>1, <1>2 DEF ClientPause

\* Resumed tasks stay active, and a start by id spawns one task after the other.
LEMMA StartPromised ==
  ASSUME StateType, ClientStart \/ StartStep
  PROVE  Promised(tasks')
<1>1. ASSUME NEW ids
      PROVE  Promised(SetStatus(Continued(ids), "Running"))
  <2>1. \A i \in Continued(ids) \cap DOMAIN tasks : tasks[i].status \in Active
    BY DEF Continued, WithStatus, Active
  <2>2. \A i \in Continued(ids) \cap DOMAIN tasks :
          StatusPhase(tasks[i].status) = StatusPhase("Running")
    BY <2>1, StatusPhases DEF Active
  <2>3. QED
    BY <2>2, SetStatusSamePhases
<1>2. ASSUME NEW ids, StartTasks(ids)
      PROVE  Promised(tasks')
  BY <1>2, SameTasksPromised DEF StartTasks, NoChange
<1>3. ASSUME NEW sel, StartSelection(sel)
      PROVE  Promised(tasks')
  BY <1>1, <1>3, SameTasksPromised
     DEF StartSelection, Refuse, NoChange, ResumeTasks, SaveOrShutdown
<1>4. ASSUME NEW id \in TaskIds, StartNext(id)
      PROVE  Promised(tasks')
  BY <1>1, <1>4, SpawnProcessPromised DEF StartNext
<1>5. CASE StartDone
  BY <1>5, SameTasksPromised DEF StartDone, SaveOrShutdown
<1>6. QED
  BY <1>2, <1>3, <1>4, <1>5 DEF ClientStart, StartStep

\* Only done tasks are put back.
LEMMA RestartPromised ==
  ASSUME StateType, ClientRestart
  PROVE  Promised(tasks')
<1>1. PICK ids \in IdSets, status \in {"Queued", "Stashed"}, immediate \in BOOLEAN :
        \E priority \in [ids -> Priorities] : RestartMultiple(ids, status, priority, immediate)
  BY DEF ClientRestart
<1>2. PICK priority : RestartMultiple(ids, status, priority, immediate)
  BY <1>1
<1>3. /\ DOMAIN tasks' = DOMAIN tasks
      /\ \A i \in DOMAIN tasks :
            tasks'[i].status = IF i \in Restarted(ids) THEN status ELSE tasks[i].status
  BY <1>2 DEF RestartMultiple, StateType, TasksType, IsPartialFn, Task
<1>4. \A i \in Restarted(ids) : i \in DOMAIN tasks /\ StatusPhase(tasks[i].status) = "done"
  BY StatusPhases DEF Restarted, WithStatus
<1>5. StatusPhase(status) = "waiting"
  BY StatusPhases DEF Editable
<1>6. DOMAIN tasks \subseteq TaskIds
  BY DEF StateType, TasksType, IsPartialFn
<1>7. Turn(tasks', Restarted(ids), {"done"}, "waiting")
  BY <1>3, <1>4, <1>5, <1>6 DEF Turn, PhaseOf
<1>8. QED
  BY <1>7 DEF Promised

\* Locking, unlocking and editing concern waiting tasks, which go on waiting.
LEMMA EditPromised ==
  ASSUME StateType, ClientEdit
  PROVE  Promised(tasks')
<1>1. ASSUME NEW ids
      PROVE  /\ DOMAIN Unlocked(ids) = DOMAIN tasks
             /\ \A i \in DOMAIN tasks :
                   StatusPhase(Unlocked(ids)[i].status) = StatusPhase(tasks[i].status)
  <2>1. ASSUME NEW i \in DOMAIN tasks
        PROVE  StatusPhase(Unlocked(ids)[i].status) = StatusPhase(tasks[i].status)
    <3>1. tasks[i] \in Task
      BY DEF StateType, TasksType, IsPartialFn
    <3>2. \/ Unlocked(ids)[i].status = tasks[i].status
          \/ tasks[i].status = "Locked" /\ Unlocked(ids)[i].status = tasks[i].previous
      BY <3>1 DEF Unlocked, Task
    <3>3. tasks[i].previous \in Editable
      BY <3>1 DEF Task
    <3>4. QED
      BY <3>2, <3>3, StatusPhases
  <2>2. QED
    BY <2>1 DEF Unlocked
<1>2. ASSUME NEW ids, EditRequest(ids)
      PROVE  Promised(tasks')
  <2>1. PICK locked \in SUBSET (ids \cap WithStatus(Editable)) :
          tasks' = [i \in DOMAIN tasks |->
              IF i \in locked
              THEN [tasks[i] EXCEPT !.status = "Locked", !.previous = tasks[i].status]
              ELSE tasks[i]]
    BY <1>2 DEF EditRequest
  <2>2. \A i \in locked : StatusPhase(tasks[i].status) = StatusPhase("Locked")
    BY StatusPhases DEF WithStatus
  <2>3. /\ DOMAIN tasks' = DOMAIN tasks
        /\ \A i \in DOMAIN tasks :
              tasks'[i].status = IF i \in locked THEN "Locked" ELSE tasks[i].status
    BY <2>1 DEF StateType, TasksType, IsPartialFn, Task
  <2>4. QED
    BY <2>2, <2>3, SameStatusPhases
<1>3. ASSUME NEW ids, EditRestore(ids)
      PROVE  Promised(tasks')
  BY <1>1, <1>3, SameStatusPhases DEF EditRestore
<1>4. ASSUME NEW edits, Edit(edits)
      PROVE  Promised(tasks')
  <2>1. CASE Refuse
    BY <2>1, SameTasksPromised DEF Refuse, NoChange
  <2>2. CASE ~Refuse
    <3> DEFINE edited == [i \in DOMAIN tasks |->
            IF i \in DOMAIN edits
            THEN [Unlocked({i})[i] EXCEPT !.dependencies = edits[i].dependencies,
                                          !.priority = edits[i].priority]
            ELSE tasks[i]]
          dropped(d) ==
            {i \in DOMAIN edits : d \in tasks[i].dependencies \ edits[i].dependencies}
          gained(d) ==
            {i \in DOMAIN edits : d \in edits[i].dependencies \ tasks[i].dependencies}
          ts == [d \in DOMAIN tasks |-> [edited[d] EXCEPT
                    !.dependents = (@ \ dropped(d)) \cup gained(d)]]
    <3>1. tasks' = ts
      BY <1>4, <2>2 DEF Edit, SaveOrFailure
    <3>2. ASSUME NEW i \in DOMAIN tasks
          PROVE  StatusPhase(ts[i].status) = StatusPhase(tasks[i].status)
      <4>1. tasks[i] \in Task /\ Unlocked({i})[i] \in Task
        BY UnlockedType DEF StateType, TasksType, IsPartialFn
      <4>2. edited[i].status \in {tasks[i].status, Unlocked({i})[i].status}
        BY <4>1 DEF Task
      <4>3. DOMAIN edited[i] = {"group", "status", "previous", "dependencies",
                                "dependents", "priority"}
        BY <4>1 DEF Task
      <4> HIDE DEF edited, dropped, gained
      <4>4. ts[i].status = edited[i].status
        BY <4>3
      <4>5. QED
        BY <1>1, <4>2, <4>4
    <3>3. DOMAIN ts = DOMAIN tasks
      OBVIOUS
    <3> HIDE DEF ts
    <3>4. QED
      BY <3>1, <3>2, <3>3, SameStatusPhases
  <2>3. QED
    BY <2>1, <2>2
<1>5. QED
  BY <1>2, <1>3, <1>4 DEF ClientEdit

\* A switch exchanges two waiting tasks.
LEMMA SwitchPromised ==
  ASSUME StateType, ClientSwitch
  PROVE  Promised(tasks')
<1>1. PICK a \in TaskIds, b \in TaskIds : Switch(a, b)
  BY DEF ClientSwitch
<1>2. CASE Refuse
  BY <1>2, SameTasksPromised DEF Refuse, NoChange
<1>3. CASE ~Refuse
  <2> DEFINE sigma(i) == CASE i = a -> b [] i = b -> a [] OTHER -> i
             renamed(S) == {sigma(i) : i \in S}
             swapped == [i \in DOMAIN tasks |-> tasks[sigma(i)]]
             deps == OnlyOne(tasks[a].dependencies, tasks[b].dependencies)
             dents == OnlyOne(tasks[a].dependents, tasks[b].dependents)
             ts == [i \in DOMAIN tasks |->
                     [swapped[i] EXCEPT
                        !.dependents = IF i \in deps THEN renamed(@) ELSE @,
                        !.dependencies = IF i \in dents THEN renamed(@) ELSE @]]
  <2>1. tasks' = ts
    BY <1>1, <1>3 DEF Switch, SaveOrFailure
  <2>2. /\ {a, b} \subseteq DOMAIN tasks
        /\ tasks[a].status \in Editable /\ tasks[b].status \in Editable
    BY <1>1, <1>3 DEF Switch, WithStatus
  <2>3. \A i \in DOMAIN tasks : /\ sigma(i) \in DOMAIN tasks
                                /\ i \in {a, b} => sigma(i) \in {a, b}
                                /\ i \notin {a, b} => sigma(i) = i
    BY <2>2
  <2>4. \A i \in DOMAIN tasks : swapped[i] = tasks[sigma(i)] /\ swapped[i] \in Task
    <3> HIDE DEF sigma
    <3> QED BY <2>3 DEF StateType, TasksType, IsPartialFn
  <2> HIDE DEF swapped, renamed, deps, dents, sigma
  <2>5. DOMAIN ts = DOMAIN tasks
    OBVIOUS
  <2>6. \A i \in DOMAIN tasks : ts[i].status = swapped[i].status
    BY <2>4 DEF Task
  <2> HIDE DEF ts
  <2>7. \A i \in DOMAIN tasks : StatusPhase(ts[i].status) = StatusPhase(tasks[i].status)
    BY <2>2, <2>3, <2>4, <2>6, StatusPhases
  <2>8. QED
    BY <2>1, <2>5, <2>7, SameStatusPhases
<1>4. QED
  BY <1>2, <1>3

\* remove and clean discard tasks that are not active.
LEMMA RemoveCleanPromised ==
  ASSUME StateType, ClientRemove \/ ClientClean
  PROVE  Promised(tasks')
<1>1. UNCHANGED tasks \/ \E ids \in SUBSET WithStatus(Status \ Active) : tasks' = Without(ids)
  <2>1. ASSUME NEW ids, Remove(ids)
        PROVE  UNCHANGED tasks \/ tasks' = Without(Removable(ids))
    BY <2>1 DEF Remove, SaveOrFailure, NoChange
  <2>2. \A ids : Removable(ids) \subseteq WithStatus(Status \ Active)
    BY DEF Removable
  <2>3. ASSUME NEW successful_only, NEW names, Clean(successful_only, names)
        PROVE  \E ids \in SUBSET WithStatus(Status \ Active) : tasks' = Without(ids)
    <3> DEFINE cleaned ==
          {i \in WithStatus(IF successful_only THEN {"Success"} ELSE Results) :
              tasks[i].group \in names /\ IsTaskRemovable(i, {})}
    <3>1. cleaned \subseteq WithStatus(Status \ Active)
      BY DEF WithStatus, Status, Results, Active
    <3>2. tasks' = Without(cleaned)
      BY <2>3 DEF Clean, SaveOrFailure
    <3>3. QED
      BY <3>1, <3>2
  <2>4. QED
    BY <2>1, <2>2, <2>3 DEF ClientRemove, ClientClean
<1>2. ASSUME NEW ids \in SUBSET WithStatus(Status \ Active)
      PROVE  Promised(Without(ids))
  <2>1. /\ DOMAIN Without(ids) = DOMAIN tasks \ ids
        /\ \A i \in DOMAIN tasks \ ids : Without(ids)[i].status = tasks[i].status
    BY DEF Without, StateType, TasksType, IsPartialFn, Task
  <2>2. \A i \in ids \cap DOMAIN tasks : tasks[i].status \notin Active
    BY DEF WithStatus
  <2>3. QED
    BY <2>1, <2>2, DiscardPromised
<1>3. QED
  BY <1>1, <1>2, SameTasksPromised

\* The other requests, exits and crashes leave the tasks alone.
LEMMA OtherStepsPromised ==
  ASSUME \/ ClientGroup \/ ClientParallel \/ ClientShutdown
         \/ ProcessExit \/ StoppedProcessKilled \/ KilledProcessExit
         \/ Crash \/ UNCHANGED vars
  PROVE  Promised(tasks')
<1>1. UNCHANGED tasks
  BY DEF ClientGroup, ClientParallel, ClientShutdown, GroupAdd, GroupRemove, SetParallelTasks,
         Shutdown, Refuse, NoChange, SaveOrFailure, ProcessExit, StoppedProcessKilled,
         KilledProcessExit, ProcessChanges, Crash, vars
<1>2. QED
  BY <1>1, SameTasksPromised

-----------------------------------------------------------------------------
(* The theorems *)

\* Every step but a start of the daemon moves the phases as TaskLifecycle allows.
LEMMA NextPromised ==
  SyncInv /\ [Next]_vars /\ ~Restart => Promised(tasks')
<1> SUFFICES ASSUME StateType, Sync, [Next]_vars, ~Restart
             PROVE  Promised(tasks')
  BY DEF SyncInv
<1>1. CASE TaskHandlerStep
  BY <1>1, TaskHandlerPromised
<1>2. CASE ClientAdd
  BY <1>2, AddTaskPromised
<1>3. CASE ClientEnqueue \/ ClientStash
  BY <1>3, EnqueueStashPromised
<1>4. CASE ClientKill \/ ClientPause \/ ClientReset
  BY <1>4, KillPauseResetPromised
<1>5. CASE ClientStart \/ StartStep
  BY <1>5, StartPromised
<1>6. CASE ClientRestart
  BY <1>6, RestartPromised
<1>7. CASE ClientEdit
  BY <1>7, EditPromised
<1>8. CASE ClientSwitch
  BY <1>8, SwitchPromised
<1>9. CASE ClientRemove \/ ClientClean
  BY <1>9, RemoveCleanPromised
<1>10. CASE \/ ClientGroup \/ ClientParallel \/ ClientShutdown
            \/ ProcessExit \/ StoppedProcessKilled \/ KilledProcessExit
            \/ Crash \/ UNCHANGED vars
  BY <1>10, OtherStepsPromised
<1>11. QED
  BY <1>1, <1>2, <1>3, <1>4, <1>5, <1>6, <1>7, <1>8, <1>9, <1>10 DEF Next, TaskHandlerStep

\* The daemon starts without tasks and processes.
LEMMA InitLifecycle == Init => Lifecycle!Init
<1> SUFFICES ASSUME Init
             PROVE  Lifecycle!Init
  OBVIOUS
<1>1. \A i : TaskPhase(i) = "absent"
  BY DEF Init, TaskPhase
<1>2. AllTaskIds(children) = {}
  BY DEF Init, AllTaskIds, Slots
<1>3. QED
  BY <1>1, <1>2 DEF Lifecycle!Init

\* Every step but a start of the daemon is a step of TaskLifecycle, or changes
\* neither phases nor processes.
LEMMA NextLifecycle ==
  SyncInv /\ [Next]_vars /\ ~Restart => [Lifecycle!Next]_(Lifecycle!lvars)
<1>1. SyncInv /\ [Next]_vars => SyncInv'
  BY NextSync
<1>2. QED
  BY <1>1, NextPromised, PromisedIsStep

\* From each start to the next, whatever clients, ticks and exits do and whatever
\* fails, every step is one that TaskLifecycle allows.
THEOREM LifecycleBetweenStarts ==
  Spec => Lifecycle!Init /\ [][~Restart => [Lifecycle!Next]_(Lifecycle!lvars)]_vars
<1>1. Init => Lifecycle!Init
  BY InitLifecycle
<1>2. SyncInv /\ [Next]_vars => SyncInv'
  BY NextSync
<1>3. SyncInv /\ [Next]_vars => (~Restart => [Lifecycle!Next]_(Lifecycle!lvars))
  BY NextLifecycle
<1>4. QED
  BY <1>1, <1>2, <1>3, InitSync, PTL DEF Spec

\* A daemon that is started once implements TaskLifecycle: its handlers, ticks and
\* process exits together keep what a client may rely on for each task.
THEOREM Implementation ==
  ASSUME MaxRestarts = 0
  PROVE  Spec => ImplementsLifecycle
<1>1. Init => Lifecycle!Init
  BY InitLifecycle
<1>2. SyncInv /\ [Next]_vars => SyncInv'
  BY NextSync
<1>3. SyncInv => ~Restart
  BY DEF SyncInv, ControlType, Restart
<1>4. SyncInv /\ [Next]_vars => [Lifecycle!Next]_(Lifecycle!lvars)
  BY <1>3, NextLifecycle
<1>5. QED
  BY <1>1, <1>2, <1>4, InitSync, PTL DEF Spec, ImplementsLifecycle, Lifecycle!Spec

\* A task counts as active exactly while it has a process, after a crash and a new
\* start too.
THEOREM ProcessesAlwaysActive == Spec => []Lifecycle!ProcessesAreActive
<1>1. SyncInv => Lifecycle!ProcessesAreActive
  BY ProcessesAreTheActive, PhasesOfTasks DEF Lifecycle!ProcessesAreActive
<1>2. QED
  BY <1>1, InitSync, NextSync, PTL DEF Spec


-----------------------------------------------------------------------------
(***************************************************************************)
(* If saving works, a request that fails changes nothing:                  *)
(* FailureChangesNothing.                                                  *)
(*                                                                         *)
(* A handler refuses before it changes anything, or its filter let no task *)
(* pass and it changes none, though it writes the list anew; group.rs      *)
(* finds no desynchronisation, by Sync; and starts follow only a request   *)
(* that was answered with success. An edit locks or unlocks some tasks and *)
(* then fails, and a restart starts immediately after a failure too: these *)
(* two requests are left out.                                              *)
(***************************************************************************)

\* Requests that fail when they have done a part of their work.
NoPartialRequests == Commands \cap {"edit", "restart_immediate"} = {}

\* The inductive invariant: starts go on after a success only.
AnswerInv == SyncInv /\ (stage = "Start" => response = "Success")

FailsIdle == response' = "Failure" => UNCHANGED << tasks, groups, children >>

\* Lists that are written anew without a change.
LEMMA SetStatusOfNone ==
  ASSUME StateType, NEW ids, ids \cap DOMAIN tasks = {}, NEW status
  PROVE  SetStatus(ids, status) = tasks
  BY DEF SetStatus, StateType, TasksType, IsPartialFn

LEMMA WithoutNone ==
  ASSUME StateType
  PROVE  Without({}) = tasks
<1>1. ASSUME NEW t \in Task
      PROVE  [t EXCEPT !.dependents = t.dependents \ {}] = t
  BY <1>1, SMT DEF Task
<1>2. \A i \in DOMAIN tasks : tasks[i] \in Task
  BY DEF StateType, TasksType, IsPartialFn
<1>3. \A i \in DOMAIN tasks : {j \in {} : j \in DOMAIN tasks /\ i \in tasks[j].dependencies} = {}
  OBVIOUS
<1>4. Without({}) = [i \in DOMAIN tasks |-> tasks[i]]
  BY <1>1, <1>2, <1>3 DEF Without
<1>5. QED
  BY <1>4 DEF StateType, TasksType, IsPartialFn

LEMMA RefuseFailsIdle ==
  ASSUME Refuse \/ NoChange
  PROVE  FailsIdle
  BY DEF Refuse, NoChange, FailsIdle

\* Saving that works answers what the handler meant to.
LEMMA SavedAnswer ==
  ASSUME ~SaveMayFail, NEW ts, NEW gs, NEW c, NEW answer, SaveOrFailure(ts, gs, c, answer)
  PROVE  tasks' = ts /\ groups' = gs /\ children' = c /\ response' = answer
  BY DEF SaveOrFailure

\* Handlers that end with a save and a success, or refuse.
LEMMA SavingFailsIdle ==
  ASSUME ~SaveMayFail,
         ClientAdd \/ ClientSwitch \/ ClientClean \/ ClientParallel
           \/ \E name, n : GroupAdd(name, n)
  PROVE  FailsIdle
<1>1. Refuse \/ response' = "Success"
  BY SavedAnswer DEF ClientAdd, AddTask, ClientSwitch, Switch, ClientClean, Clean,
     ClientParallel, SetParallelTasks, Return, GroupAdd
<1>2. QED
  BY <1>1, RefuseFailsIdle DEF FailsIdle

\* Handlers that signal children or set groups, or refuse, or panic.
LEMMA SignallingFailsIdle ==
  ASSUME ClientKill \/ ClientPause \/ ClientReset \/ ClientStart
  PROVE  FailsIdle
<1>1. NoChange \/ response' = "Success"
  BY DEF ClientKill, Kill, ClientPause, Pause, ClientReset, Reset, ClientStart, StartTasks,
     StartSelection, Return, Refuse
<1>2. QED
  BY <1>1, RefuseFailsIdle DEF FailsIdle

\* enqueue and stash fail only for ids of which none passes their filter.
LEMMA RelabelFailsIdle ==
  ASSUME StateType, ClientEnqueue \/ ClientStash
  PROVE  FailsIdle
<1>1. ASSUME NEW sel, NEW filter, NEW more, NEW status,
             tasks' = SetStatus(Selected(sel) \cap filter, status),
             UNCHANGED << groups, children >>,
             Return(AnswerSelection(sel, (Selected(sel) \cap filter) \cup more))
      PROVE  FailsIdle
  <2> SUFFICES ASSUME response' = "Failure"
               PROVE  UNCHANGED << tasks, groups, children >>
    BY DEF FailsIdle
  <2>1. /\ sel.kind = "TaskIds"
        /\ sel.ids \cap ((Selected(sel) \cap filter) \cup more) = {}
    BY <1>1 DEF Return, AnswerSelection, Answer
  <2>2. Selected(sel) = sel.ids \cap DOMAIN tasks
    BY <2>1 DEF Selected
  <2>3. Selected(sel) \cap filter = {}
    BY <2>1, <2>2
  <2>4. QED
    BY <1>1, <2>3, SetStatusOfNone
<1>2. ASSUME NEW sel, NEW status, Enqueue(sel, status)
      PROVE  FailsIdle
  BY <1>1, <1>2 DEF Enqueue
<1>3. ASSUME NEW sel, NEW status, Stash(sel, status)
      PROVE  FailsIdle
  BY <1>1, <1>3 DEF Stash
<1>4. QED
  BY <1>2, <1>3 DEF ClientEnqueue, ClientStash

\* restart fails only for ids of which none is done.
LEMMA RestartFailsIdle ==
  ASSUME StateType, ClientRestart
  PROVE  FailsIdle
<1> SUFFICES ASSUME response' = "Failure"
             PROVE  UNCHANGED << tasks, groups, children >>
  BY DEF FailsIdle
<1>1. PICK ids, status, priority, immediate :
        RestartMultiple(ids, status, priority, immediate)
  BY Zenon DEF ClientRestart
<1>2. Restarted(ids) = {}
  BY <1>1 DEF RestartMultiple, Answer, Restarted
<1>3. tasks' = [i \in DOMAIN tasks |-> tasks[i]]
  BY <1>1, <1>2 DEF RestartMultiple
<1>4. QED
  BY <1>1, <1>3 DEF RestartMultiple, StateType, TasksType, IsPartialFn

\* remove fails only if none of the given tasks may go.
LEMMA RemoveFailsIdle ==
  ASSUME ~SaveMayFail, StateType, ClientRemove
  PROVE  FailsIdle
<1>1. PICK ids : Remove(ids)
  BY DEF ClientRemove
<1>2. CASE NoChange
  BY <1>2, RefuseFailsIdle
<1>3. CASE ~NoChange
  <2> SUFFICES ASSUME response' = "Failure"
               PROVE  UNCHANGED << tasks, groups, children >>
    BY DEF FailsIdle
  <2>1. SaveOrFailure(Without(Removable(ids)), groups, children, Answer(ids, Removable(ids)))
    BY <1>1, <1>3 DEF Remove
  <2>2. /\ tasks' = Without(Removable(ids)) /\ UNCHANGED << groups, children >>
        /\ Answer(ids, Removable(ids)) = "Failure"
    BY <2>1, SavedAnswer
  <2>3. Removable(ids) \subseteq ids
    BY DEF Removable
  <2>4. Removable(ids) = {}
    BY <2>2, <2>3 DEF Answer
  <2>5. QED
    BY <2>2, <2>4, WithoutNone
<1>4. QED
  BY <1>2, <1>3

\* A group without tasks has an empty pool.
LEMMA GroupFailsIdle ==
  ASSUME ~SaveMayFail, Sync, ClientGroup
  PROVE  FailsIdle
<1>1. ASSUME NEW name, GroupRemove(name)
      PROVE  FailsIdle
  <2>1. CASE Refuse
    BY <2>1, RefuseFailsIdle
  <2>2. CASE ~Refuse
    <3>1. name \in DOMAIN groups /\ ~GroupInUse(name)
      BY <1>1, <2>2 DEF GroupRemove
    <3>2. name \in DOMAIN children
      BY <3>1 DEF Sync, InStep
    <3>3. ~HasGroupActiveTasks(name)
      BY <3>1, <3>2 DEF HasGroupActiveTasks, GroupInUse, TasksOfGroup, Sync, InStep, Pooled
    <3>4. response' = "Success"
      BY <1>1, <2>2, <3>2, <3>3, SavedAnswer DEF GroupRemove
    <3>5. QED
      BY <3>4 DEF FailsIdle
  <2>3. QED
    BY <2>1, <2>2
<1>2. QED
  BY <1>1, SavingFailsIdle DEF ClientGroup

\* The loop of start is entered after a success, and its steps leave the answer.
LEMMA NextAnswer ==
  ASSUME NoPartialRequests, ~SaveMayFail, AnswerInv, [Next]_vars
  PROVE  AnswerInv'
<1>1. SyncInv'
  BY NextSync DEF AnswerInv
<1>2. (stage = "Start" => response = "Success")
  BY DEF AnswerInv
<1>3. stage' = "Start" => response' = "Success"
  <2>1. CASE TaskHandlerStep
    BY <2>1 DEF TaskHandlerStep, HandleFinishedTasks, AfterFinished, HandleShutdown,
       HandleGroupResets, EnqueueDelayedTasks, CheckFailedDependencies, SpawnNew
  <2>2. CASE StartStep
    BY <1>2, <2>2 DEF StartStep, StartDone, StartNext
  <2>3. CASE ClientAdd
    BY <2>3 DEF ClientAdd, AddTask, Handle, Refuse, Return
  <2>4. CASE ClientEnqueue \/ ClientStash \/ ClientKill \/ ClientPause
    BY <2>4 DEF ClientEnqueue, ClientStash, ClientKill, ClientPause, Enqueue, Stash, Kill,
       Pause, Handle, Return, Refuse
  <2>5. CASE ClientStart
    BY <2>5 DEF ClientStart, StartTasks, StartSelection, Handle, Return, Refuse
  <2>6. CASE ClientRestart
    <3>1. PICK immediate : /\ immediate => "restart_immediate" \in Commands
                           /\ \E ids, status, priority :
                                 RestartMultiple(ids, status, priority, immediate)
      BY <2>6, Zenon DEF ClientRestart
    <3>2. ~immediate
      BY <3>1 DEF NoPartialRequests
    <3>3. QED
      BY <3>1, <3>2 DEF RestartMultiple, Handle
  <2>7. CASE ClientEdit \/ ClientSwitch \/ ClientRemove \/ ClientClean
    BY <2>7 DEF ClientEdit, ClientSwitch, ClientRemove, ClientClean, EditRequest,
       EditRestore, Edit, Switch, Remove, Clean, Handle, Return, Refuse
  <2>8. CASE ClientGroup \/ ClientParallel \/ ClientReset \/ ClientShutdown
    BY <2>8 DEF ClientGroup, ClientParallel, ClientReset, ClientShutdown, GroupAdd,
       GroupRemove, SetParallelTasks, Reset, Shutdown, Handle, Return, Refuse
  <2>9. CASE ProcessExit \/ StoppedProcessKilled \/ KilledProcessExit \/ Crash \/ Restart
               \/ UNCHANGED vars
    BY <1>2, <2>9 DEF ProcessExit, StoppedProcessKilled, KilledProcessExit, ProcessChanges,
       NoRequest, Crash, Restart, vars
  <2>10. QED
    BY <2>1, <2>2, <2>3, <2>4, <2>5, <2>6, <2>7, <2>8, <2>9 DEF Next, TaskHandlerStep
<1>4. QED
  BY <1>1, <1>3 DEF AnswerInv

\* As long as saving works, a client that is told of a failure finds everything as it
\* was, whichever request it sent but edit and restart --immediate.
THEOREM FailuresChangeNothing ==
  ASSUME NoPartialRequests, ~SaveMayFail
  PROVE  Spec => FailureChangesNothing
<1>1. Init => AnswerInv
  BY InitSync DEF Init, AnswerInv
<1>2. AnswerInv /\ [Next]_vars => AnswerInv'
  BY NextAnswer
<1>3. AnswerInv /\ [Next]_vars =>
        [response' = "Failure" /\ (requests' # requests \/ stage = "Start") =>
            UNCHANGED << tasks, groups, children >>]_vars
  <2> SUFFICES ASSUME AnswerInv, [Next]_vars, response' = "Failure",
                      requests' # requests \/ stage = "Start"
               PROVE  FailsIdle
    BY DEF FailsIdle
  <2>1. StateType /\ Sync /\ (stage = "Start" => response = "Success")
    BY DEF AnswerInv, SyncInv
  <2>2. CASE \/ TaskHandlerStep \/ StartStep \/ ClientShutdown
             \/ ProcessExit \/ StoppedProcessKilled \/ KilledProcessExit \/ Crash \/ Restart
             \/ UNCHANGED vars
    <3>1. /\ UNCHANGED requests
          /\ stage = "Start" => UNCHANGED response \/ Restart
      BY <2>2 DEF TaskHandlerStep, HandleFinishedTasks, HandleShutdown, HandleGroupResets,
         EnqueueDelayedTasks, CheckFailedDependencies, SpawnNew, StartStep, StartDone,
         StartNext, ClientShutdown, Shutdown, ProcessExit, StoppedProcessKilled,
         KilledProcessExit, ProcessChanges, NoRequest, Crash, Restart, vars
    <3>2. Restart => response' = "None"
      BY DEF Restart
    <3>3. QED
      BY <2>1, <3>1, <3>2
  <2>3. CASE ClientEdit
    BY <2>3 DEF ClientEdit, NoPartialRequests
  <2>4. QED
    BY <2>1, <2>2, <2>3, SavingFailsIdle, SignallingFailsIdle, RelabelFailsIdle,
       RestartFailsIdle, RemoveFailsIdle, GroupFailsIdle DEF Next, TaskHandlerStep
<1>4. QED
  BY <1>1, <1>2, <1>3, PTL DEF Spec, FailureChangesNothing

-----------------------------------------------------------------------------
(***************************************************************************)
(* Without delayed tasks, a daemon that was started again runs nothing     *)
(* until a client asks: NothingRunsUnasked.                                *)
(*                                                                         *)
(* Until the first request after a restart there is no child, and every    *)
(* group with a queued task is paused (Quiet). The iterations of the task  *)
(* handler keep that: with no child nothing finishes, the groups that a    *)
(* reset lets run again are not the paused ones, and spawn takes queued    *)
(* tasks of running groups only. A delayed task would be queued in a group *)
(* that runs, so there must be none, in the state file either (NoDelay).   *)
(***************************************************************************)

-----------------------------------------------------------------------------
(* No task is delayed *)

Undelayed(ts) ==
    \A i \in DOMAIN ts : ts[i].status # "Delayed" /\ ts[i].previous # "Delayed"

NoDelay == Undelayed(tasks) /\ Undelayed(disk.tasks)

\* The ways a handler ends: the tasks it leaves are those in memory, and those in
\* the file if they are saved.
LEMMA SaveOrShutdownUndelayed ==
  ASSUME NoDelay, NEW ts, NEW gs, NEW c, Undelayed(ts), SaveOrShutdown(ts, gs, c)
  PROVE  NoDelay'
  BY DEF NoDelay, SaveOrShutdown, InitiateShutdown, Image

LEMMA SaveOrFailureUndelayed ==
  ASSUME NoDelay, NEW ts, NEW gs, NEW c, NEW answer, Undelayed(ts),
         SaveOrFailure(ts, gs, c, answer)
  PROVE  NoDelay'
  BY DEF NoDelay, SaveOrFailure, Image

LEMMA SetStatusUndelayed ==
  ASSUME StateType, NoDelay, NEW ids, NEW status \in Status \ {"Delayed"}
  PROVE  Undelayed(SetStatus(ids, status))
<1>1. ASSUME NEW i \in DOMAIN tasks
      PROVE  [tasks[i] EXCEPT !.status = status].status = status
             /\ [tasks[i] EXCEPT !.status = status].previous = tasks[i].previous
  BY DEF StateType, TasksType, IsPartialFn, Task
<1>2. QED
  BY <1>1 DEF NoDelay, Undelayed, SetStatus

LEMMA SpawnProcessUndelayed ==
  ASSUME StateType, NoDelay, NEW id, SpawnProcess(id)
  PROVE  NoDelay'
<1>1. /\ Undelayed(SetStatus({id}, "Running"))
      /\ Undelayed(SetStatus({id}, "FailedToSpawn"))
  BY SetStatusUndelayed DEF Status, Active, Results, Editable
<1>2. CASE NoChange
  BY <1>2 DEF NoChange, NoDelay
<1>3. CASE ~NoChange
  <2>1. \/ \E worker \in WorkerIds :
              SaveOrShutdown(SetStatus({id}, "Running"), groups,
                             AddChild(children, tasks[id].group, worker,
                                      [task |-> id, proc |-> "running"]))
        \/ SaveOrShutdown(SetStatus({id}, "FailedToSpawn"),
                          PausedOnFailure(groups, {tasks[id].group}), children)
    BY <1>3 DEF SpawnProcess
  <2>2. QED
    BY <2>1, <1>1, SaveOrShutdownUndelayed
<1>4. QED
  BY <1>2, <1>3

\* One iteration of the task handler.
LEMMA TaskHandlerUndelayed ==
  ASSUME StateType, NoDelay, TaskHandlerStep
  PROVE  NoDelay'
<1>1. CASE HandleFinishedTasks
  <2> DEFINE exit == [s \in Finished |-> ChildAt(children, s)]
             ended(i) == CHOOSE s \in Finished : exit[s].task = i
             ts == [i \in DOMAIN tasks |->
                      IF \E s \in Finished : exit[s].task = i
                      THEN [tasks[i] EXCEPT !.status = exit[ended(i)].proc]
                      ELSE tasks[i]]
  <2>1. ASSUME NEW i \in DOMAIN tasks
        PROVE  ts[i].status # "Delayed" /\ ts[i].previous # "Delayed"
    <3>1. tasks[i] \in Task /\ tasks[i].status # "Delayed" /\ tasks[i].previous # "Delayed"
      BY DEF StateType, TasksType, IsPartialFn, NoDelay, Undelayed
    <3>2. CASE \E s \in Finished : exit[s].task = i
      <4>1. ended(i) \in Finished
        BY <3>2
      <4>2. exit[ended(i)].proc \in Exited
        BY <4>1 DEF Finished
      <4> HIDE DEF exit, ended
      <4>3. ts[i] = [tasks[i] EXCEPT !.status = exit[ended(i)].proc]
        BY <3>2
      <4>4. QED
        BY <3>1, <4>2, <4>3 DEF Task, Exited
    <3>3. CASE ~\E s \in Finished : exit[s].task = i
      BY <3>1, <3>3
    <3>4. QED
      BY <3>2, <3>3
  <2>2. Undelayed(ts)
    BY <2>1 DEF Undelayed
  <2>3. NoChange \/ \E gs, c : SaveOrShutdown(ts, gs, c)
    BY <1>1 DEF HandleFinishedTasks
  <2> HIDE DEF ts
  <2>4. QED
    BY <2>2, <2>3, SaveOrShutdownUndelayed DEF NoChange, NoDelay
<1>2. CASE HandleShutdown
  BY <1>2 DEF HandleShutdown, NoChange, NoDelay
<1>3. CASE HandleGroupResets
  BY <1>3 DEF HandleGroupResets, NoDelay, Undelayed
<1>4. CASE EnqueueDelayedTasks
  <2>1. \A due : Undelayed(SetStatus(due, "Queued"))
    BY SetStatusUndelayed DEF Status, Editable
  <2>2. QED
    BY <1>4, <2>1, SaveOrShutdownUndelayed DEF EnqueueDelayedTasks, NoChange, NoDelay
<1>5. CASE CheckFailedDependencies
  <2>1. \A ids : Undelayed(SetStatus(ids, "DependencyFailed"))
    BY SetStatusUndelayed DEF Status, Results
  <2>2. QED
    BY <1>5, <2>1 DEF CheckFailedDependencies, NoDelay
<1>6. CASE SpawnNew
  BY <1>6, SpawnProcessUndelayed DEF SpawnNew, NoChange, NoDelay
<1>7. QED
  BY <1>1, <1>2, <1>3, <1>4, <1>5, <1>6 DEF TaskHandlerStep

-----------------------------------------------------------------------------
(* Requests *)

\* A request that changes nothing, or only the tasks in memory.
LEMMA UnsavedUndelayed ==
  ASSUME NoDelay, UNCHANGED disk, UNCHANGED tasks \/ Undelayed(tasks')
  PROVE  NoDelay'
  BY DEF NoDelay

LEMMA WaitingUndelayed ==
  ASSUME ~Delays
  PROVE  WaitingStatus = {"Stashed"} /\ AddStatus = {"Stashed", "Queued"}
  BY DEF WaitingStatus, AddStatus

LEMMA AddTaskUndelayed ==
  ASSUME ~Delays, StateType, NoDelay, ClientAdd
  PROVE  NoDelay'
<1>1. PICK name \in GroupNames, status \in {"Stashed", "Queued"}, deps \in SUBSET TaskIds,
           priority \in Priorities, immediate \in BOOLEAN :
             AddTask(name, status, deps, priority, immediate)
  BY WaitingUndelayed DEF ClientAdd
<1>2. CASE Refuse
  BY <1>2 DEF Refuse, NoChange, NoDelay
<1>3. CASE ~Refuse
  <2> DEFINE task == NewTask(name, status, deps, priority)
  <2>1. PICK id \in TaskIds : SaveOrFailure(WithTask(id, task), groups, children, "Success")
    BY <1>1, <1>3 DEF AddTask
  <2>2. task.status # "Delayed" /\ task.previous # "Delayed"
    BY DEF NewTask
  <2>3. ASSUME NEW i \in DOMAIN WithTask(id, task)
        PROVE  /\ WithTask(id, task)[i].status # "Delayed"
               /\ WithTask(id, task)[i].previous # "Delayed"
    <3> HIDE DEF task
    <3>1. CASE i = id
      BY <3>1, <2>2 DEF WithTask
    <3>2. CASE i # id
      <4>1. i \in DOMAIN tasks /\ tasks[i] \in Task
        BY <3>2 DEF WithTask, StateType, TasksType, IsPartialFn
      <4>2. \/ WithTask(id, task)[i] = tasks[i]
            \/ WithTask(id, task)[i] = [tasks[i] EXCEPT !.dependents = @ \cup {id}]
        BY <3>2, <4>1 DEF WithTask
      <4>3. QED
        BY <4>1, <4>2 DEF NoDelay, Undelayed, Task
    <3>3. QED
      BY <3>1, <3>2
  <2>4. QED
    BY <2>1, <2>3, SaveOrFailureUndelayed DEF Undelayed
<1>4. QED
  BY <1>2, <1>3

LEMMA EnqueueStashUndelayed ==
  ASSUME ~Delays, StateType, NoDelay, ClientEnqueue \/ ClientStash
  PROVE  NoDelay'
<1>1. \A ids : Undelayed(SetStatus(ids, "Queued")) /\ Undelayed(SetStatus(ids, "Stashed"))
  BY SetStatusUndelayed DEF Status, Editable
<1>2. UNCHANGED disk
  BY DEF ClientEnqueue, ClientStash, Enqueue, Stash, Unsaved
<1>3. \E ids : tasks' = SetStatus(ids, "Queued") \/ tasks' = SetStatus(ids, "Stashed")
  BY WaitingUndelayed DEF ClientEnqueue, ClientStash, Enqueue, Stash
<1>4. QED
  BY <1>1, <1>2, <1>3, UnsavedUndelayed

\* kill, pause, reset, shutdown and the two ways to start.
LEMMA SignallingUndelayed ==
  ASSUME StateType, NoDelay,
         ClientKill \/ ClientPause \/ ClientReset \/ ClientStart \/ StartStep \/ ClientShutdown
  PROVE  NoDelay'
<1>1. \A ids : Undelayed(SetStatus(ids, "Paused")) /\ Undelayed(SetStatus(ids, "Running"))
  BY SetStatusUndelayed DEF Status, Active, Editable
<1>2. CASE ClientKill
  <2>1. NoChange \/ \E gs, c : SaveOrShutdown(tasks, gs, c)
    BY <1>2 DEF ClientKill, Kill, Refuse
  <2>2. QED
    BY <2>1, SaveOrShutdownUndelayed DEF NoChange, NoDelay
<1>3. CASE ClientPause
  <2>1. NoChange \/ \E ids, gs, c : SaveOrShutdown(SetStatus(ids, "Paused"), gs, c)
    BY <1>3 DEF ClientPause, Pause, Refuse
  <2>2. QED
    BY <2>1, <1>1, SaveOrShutdownUndelayed DEF NoChange, NoDelay
<1>4. CASE ClientReset
  <2>1. NoChange \/ \E gs, c : SaveOrShutdown(tasks, gs, c)
    BY <1>4 DEF ClientReset, Reset, Refuse
  <2>2. QED
    BY <2>1, SaveOrShutdownUndelayed DEF NoChange, NoDelay
<1>5. CASE ClientStart
  <2>1. NoChange \/ \E ids, gs, c : SaveOrShutdown(SetStatus(ids, "Running"), gs, c)
    BY <1>5 DEF ClientStart, StartTasks, StartSelection, ResumeTasks, Refuse
  <2>2. QED
    BY <2>1, <1>1, SaveOrShutdownUndelayed DEF NoChange, NoDelay
<1>6. CASE StartStep
  <2>1. CASE StartDone
    BY <2>1, SaveOrShutdownUndelayed DEF StartDone, NoDelay
  <2>2. ASSUME NEW id, StartNext(id)
        PROVE  NoDelay'
    BY <2>2, <1>1, SpawnProcessUndelayed, UnsavedUndelayed DEF StartNext
  <2>3. QED
    BY <1>6, <2>1, <2>2 DEF StartStep
<1>7. CASE ClientShutdown
  BY <1>7 DEF ClientShutdown, Shutdown, InitiateShutdown, Image, NoDelay
<1>8. QED
  BY <1>2, <1>3, <1>4, <1>5, <1>6, <1>7

LEMMA RestartMultipleUndelayed ==
  ASSUME StateType, NoDelay, ClientRestart
  PROVE  NoDelay'
<1>1. PICK status \in {"Queued", "Stashed"} :
        \E ids, priority, immediate : RestartMultiple(ids, status, priority, immediate)
  BY Zenon DEF ClientRestart
<1>2. ASSUME NEW i \in DOMAIN tasks
      PROVE  tasks'[i].status # "Delayed" /\ tasks'[i].previous # "Delayed"
  <2>1. tasks[i] \in Task /\ tasks[i].status # "Delayed" /\ tasks[i].previous # "Delayed"
    BY DEF StateType, TasksType, IsPartialFn, NoDelay, Undelayed
  <2>2. \/ tasks'[i] = tasks[i]
        \/ \E p : tasks'[i] = [tasks[i] EXCEPT !.status = status, !.priority = p]
    BY <1>1 DEF RestartMultiple
  <2>3. QED
    BY <2>1, <2>2 DEF Task
<1>3. DOMAIN tasks' = DOMAIN tasks /\ UNCHANGED disk
  BY <1>1 DEF RestartMultiple, Unsaved
<1>4. QED
  BY <1>2, <1>3, UnsavedUndelayed DEF Undelayed

LEMMA EditUndelayed ==
  ASSUME StateType, NoDelay, ClientEdit
  PROVE  NoDelay'
<1>1. ASSUME NEW ids, NEW i \in DOMAIN tasks
      PROVE  /\ Unlocked(ids)[i] \in Task
             /\ Unlocked(ids)[i].status # "Delayed"
             /\ Unlocked(ids)[i].previous # "Delayed"
  <2>1. tasks[i] \in Task /\ tasks[i].status # "Delayed" /\ tasks[i].previous # "Delayed"
    BY DEF StateType, TasksType, IsPartialFn, NoDelay, Undelayed
  <2>2. \/ Unlocked(ids)[i] = tasks[i]
        \/ Unlocked(ids)[i] = [tasks[i] EXCEPT !.status = tasks[i].previous]
    BY DEF Unlocked
  <2>3. QED
    BY <2>1, <2>2 DEF Task, Status
<1>2. ASSUME NEW ids, EditRequest(ids)
      PROVE  NoDelay'
  <2>1. PICK locked \in SUBSET (ids \cap WithStatus(Editable)) :
          tasks' = [i \in DOMAIN tasks |->
              IF i \in locked
              THEN [tasks[i] EXCEPT !.status = "Locked", !.previous = tasks[i].status]
              ELSE tasks[i]]
    BY <1>2 DEF EditRequest
  <2>2. ASSUME NEW i \in DOMAIN tasks
        PROVE  tasks'[i].status # "Delayed" /\ tasks'[i].previous # "Delayed"
    <3>1. tasks[i] \in Task /\ tasks[i].status # "Delayed" /\ tasks[i].previous # "Delayed"
      BY DEF StateType, TasksType, IsPartialFn, NoDelay, Undelayed
    <3>2. \/ tasks'[i] = tasks[i]
          \/ tasks'[i] = [tasks[i] EXCEPT !.status = "Locked", !.previous = tasks[i].status]
      BY <2>1
    <3>3. QED
      BY <3>1, <3>2 DEF Task
  <2>3. QED
    BY <1>2, <2>1, <2>2, UnsavedUndelayed DEF EditRequest, Unsaved, Undelayed
<1>3. ASSUME NEW ids, EditRestore(ids)
      PROVE  NoDelay'
  <2>1. Undelayed(Unlocked(ids))
    BY <1>1 DEF Undelayed, Unlocked
  <2>2. QED
    BY <1>3, <2>1, UnsavedUndelayed DEF EditRestore, Unsaved
<1>4. ASSUME NEW edits, Edit(edits)
      PROVE  NoDelay'
  <2>1. CASE Refuse
    BY <2>1 DEF Refuse, NoChange, NoDelay
  <2>2. CASE ~Refuse
    <3> DEFINE edited == [i \in DOMAIN tasks |->
            IF i \in DOMAIN edits
            THEN [Unlocked({i})[i] EXCEPT !.dependencies = edits[i].dependencies,
                                          !.priority = edits[i].priority]
            ELSE tasks[i]]
          dropped(d) ==
            {i \in DOMAIN edits : d \in tasks[i].dependencies \ edits[i].dependencies}
          gained(d) ==
            {i \in DOMAIN edits : d \in edits[i].dependencies \ tasks[i].dependencies}
          ts == [d \in DOMAIN tasks |->
                   [edited[d] EXCEPT !.dependents = (@ \ dropped(d)) \cup gained(d)]]
    <3>1. SaveOrFailure(ts, groups, children, "Success")
      BY <1>4, <2>2 DEF Edit
    <3>2. ASSUME NEW i \in DOMAIN tasks
          PROVE  /\ DOMAIN edited[i] = {"group", "status", "previous", "dependencies",
                                        "dependents", "priority"}
                 /\ edited[i].status # "Delayed"
                 /\ edited[i].previous # "Delayed"
      <4>1. /\ tasks[i] \in Task /\ Unlocked({i})[i] \in Task
            /\ tasks[i].status # "Delayed" /\ tasks[i].previous # "Delayed"
            /\ Unlocked({i})[i].status # "Delayed" /\ Unlocked({i})[i].previous # "Delayed"
        BY <1>1 DEF StateType, TasksType, IsPartialFn, NoDelay, Undelayed
      <4>2. QED
        BY <4>1 DEF Task
    <3>3. ASSUME NEW i \in DOMAIN tasks
          PROVE  ts[i].status # "Delayed" /\ ts[i].previous # "Delayed"
      <4>1. /\ DOMAIN edited[i] = {"group", "status", "previous", "dependencies",
                                   "dependents", "priority"}
            /\ edited[i].status # "Delayed" /\ edited[i].previous # "Delayed"
        BY <3>2
      <4> HIDE DEF edited, dropped, gained
      <4>2. QED
        BY <4>1
    <3>4. DOMAIN ts = DOMAIN tasks
      OBVIOUS
    <3> HIDE DEF ts
    <3>5. QED
      BY <3>1, <3>3, <3>4, SaveOrFailureUndelayed DEF Undelayed
  <2>3. QED
    BY <2>1, <2>2
<1>5. QED
  BY <1>2, <1>3, <1>4 DEF ClientEdit

LEMMA SwitchUndelayed ==
  ASSUME StateType, NoDelay, ClientSwitch
  PROVE  NoDelay'
<1>1. PICK a \in TaskIds, b \in TaskIds : Switch(a, b)
  BY DEF ClientSwitch
<1>2. CASE Refuse
  BY <1>2 DEF Refuse, NoChange, NoDelay
<1>3. CASE ~Refuse
  <2> DEFINE sigma(i) == CASE i = a -> b [] i = b -> a [] OTHER -> i
             renamed(S) == {sigma(i) : i \in S}
             swapped == [i \in DOMAIN tasks |-> tasks[sigma(i)]]
             uniqueDependencies == OnlyOne(tasks[a].dependencies, tasks[b].dependencies)
             uniqueDependents == OnlyOne(tasks[a].dependents, tasks[b].dependents)
             ts == [i \in DOMAIN tasks |->
                [swapped[i] EXCEPT
                    !.dependents = IF i \in uniqueDependencies THEN renamed(@) ELSE @,
                    !.dependencies = IF i \in uniqueDependents THEN renamed(@) ELSE @]]
  <2>1. /\ {a, b} \subseteq DOMAIN tasks
        /\ SaveOrFailure(ts, groups, children, "Success")
    BY <1>1, <1>3 DEF Switch, WithStatus
  <2>2. ASSUME NEW i \in DOMAIN tasks
        PROVE  /\ DOMAIN swapped[i] = {"group", "status", "previous", "dependencies",
                                       "dependents", "priority"}
               /\ swapped[i].status # "Delayed" /\ swapped[i].previous # "Delayed"
    <3>1. sigma(i) \in DOMAIN tasks
      BY <2>1
    <3> HIDE DEF sigma
    <3>2. swapped[i] = tasks[sigma(i)] /\ tasks[sigma(i)] \in Task
      BY <3>1 DEF StateType, TasksType, IsPartialFn
    <3>3. tasks[sigma(i)].status # "Delayed" /\ tasks[sigma(i)].previous # "Delayed"
      BY <3>1 DEF NoDelay, Undelayed
    <3>4. QED
      BY <3>2, <3>3 DEF Task
  <2>3. ASSUME NEW i \in DOMAIN tasks
        PROVE  ts[i].status # "Delayed" /\ ts[i].previous # "Delayed"
    <3>1. /\ DOMAIN swapped[i] = {"group", "status", "previous", "dependencies",
                                  "dependents", "priority"}
          /\ swapped[i].status # "Delayed" /\ swapped[i].previous # "Delayed"
      BY <2>2
    <3> HIDE DEF swapped, renamed, uniqueDependencies, uniqueDependents
    <3>2. QED
      BY <3>1
  <2>4. DOMAIN ts = DOMAIN tasks
    OBVIOUS
  <2> HIDE DEF ts
  <2>5. QED
    BY <2>1, <2>3, <2>4, SaveOrFailureUndelayed DEF Undelayed
<1>4. QED
  BY <1>2, <1>3

LEMMA RemoveCleanUndelayed ==
  ASSUME StateType, NoDelay, ClientRemove \/ ClientClean
  PROVE  NoDelay'
<1>1. ASSUME NEW ids
      PROVE  Undelayed(Without(ids))
  <2>1. ASSUME NEW i \in DOMAIN tasks \ ids
        PROVE  Without(ids)[i].status # "Delayed" /\ Without(ids)[i].previous # "Delayed"
    <3>1. /\ tasks[i] \in Task
          /\ tasks[i].status # "Delayed" /\ tasks[i].previous # "Delayed"
      BY DEF StateType, TasksType, IsPartialFn, NoDelay, Undelayed
    <3>2. QED
      BY <3>1 DEF Without, Task
  <2>2. QED
    BY <2>1 DEF Undelayed, Without
<1>2. NoChange \/ \E ids, answer : SaveOrFailure(Without(ids), groups, children, answer)
  BY DEF ClientRemove, ClientClean, Remove, Clean
<1>3. QED
  BY <1>1, <1>2, SaveOrFailureUndelayed DEF NoChange, NoDelay

\* Groups, limits, and what is not a request but leaves the tasks alone.
LEMMA OthersUndelayed ==
  ASSUME NoDelay,
         ClientGroup \/ ClientParallel \/ ProcessExit \/ StoppedProcessKilled
           \/ KilledProcessExit \/ Crash \/ UNCHANGED vars
  PROVE  NoDelay'
<1>1. CASE ClientGroup
  BY <1>1 DEF ClientGroup, GroupAdd, GroupRemove, SaveOrFailure, InitiateShutdown, Image,
              Refuse, NoChange, NoDelay
<1>2. CASE ClientParallel
  BY <1>2 DEF ClientParallel, SetParallelTasks, Refuse, NoChange, Unsaved, NoDelay
<1>3. CASE ProcessExit \/ StoppedProcessKilled \/ KilledProcessExit \/ Crash
  BY <1>3 DEF ProcessExit, StoppedProcessKilled, KilledProcessExit, ProcessChanges, Crash,
              NoChange, NoDelay
<1>4. QED
  BY <1>1, <1>2, <1>3 DEF vars, NoDelay

\* A start of the daemon makes no task delayed.
LEMMA RestartedUndelayed ==
  ASSUME StateType, NoDelay, Restart
  PROVE  NoDelay'
<1> DEFINE ts == RestoredTasks(disk.tasks, disk.groups)
<1>1. ASSUME NEW i \in DOMAIN ts
      PROVE  ts[i].status # "Delayed" /\ ts[i].previous # "Delayed"
  <2>1. /\ i \in DOMAIN disk.tasks
        /\ disk.tasks[i] \in Task
        /\ disk.tasks[i].status # "Delayed" /\ disk.tasks[i].previous # "Delayed"
    BY DEF RestoredTasks, StateType, DiskType, TasksType, IsPartialFn, NoDelay, Undelayed
  <2>2. /\ ts[i].status = RestoredStatus(disk.tasks[i].status)
        /\ ts[i].previous = disk.tasks[i].previous
    BY <2>1 DEF RestoredTasks, Task
  <2>3. QED
    BY <2>1, <2>2 DEF RestoredStatus
<1>2. tasks' = ts /\ disk'.tasks = ts
  BY DEF Restart, Image
<1> HIDE DEF ts
<1>3. QED
  BY <1>1, <1>2 DEF NoDelay, Undelayed

LEMMA NextUndelayed ==
  ASSUME ~Delays, StateType, NoDelay, [Next]_vars
  PROVE  NoDelay'
<1>1. CASE TaskHandlerStep
  BY <1>1, TaskHandlerUndelayed
<1>2. CASE ClientAdd
  BY <1>2, AddTaskUndelayed
<1>3. CASE ClientEnqueue \/ ClientStash
  BY <1>3, EnqueueStashUndelayed
<1>4. CASE ClientKill \/ ClientPause \/ ClientReset \/ ClientStart \/ StartStep
             \/ ClientShutdown
  BY <1>4, SignallingUndelayed
<1>5. CASE ClientRestart
  BY <1>5, RestartMultipleUndelayed
<1>6. CASE ClientEdit
  BY <1>6, EditUndelayed
<1>7. CASE ClientSwitch
  BY <1>7, SwitchUndelayed
<1>8. CASE ClientRemove \/ ClientClean
  BY <1>8, RemoveCleanUndelayed
<1>9. CASE ClientGroup \/ ClientParallel \/ ProcessExit \/ StoppedProcessKilled
             \/ KilledProcessExit \/ Crash \/ UNCHANGED vars
  BY <1>9, OthersUndelayed
<1>10. CASE Restart
  BY <1>10, RestartedUndelayed
<1>11. QED
  BY <1>1, <1>2, <1>3, <1>4, <1>5, <1>6, <1>7, <1>8, <1>9, <1>10
     DEF Next, TaskHandlerStep

-----------------------------------------------------------------------------
(* Until the first request nothing can start *)

Idle(c) == \A g \in DOMAIN c : DOMAIN c[g] = {}

\* Queued tasks wait in paused groups.
Waiting(ts, gs) ==
    \A i \in DOMAIN ts : ts[i].status = "Queued" => gs[ts[i].group].status = "Paused"

Quiet ==
    restarts > 0 /\ response = "None" =>
        Idle(children) /\ stage # "Start" /\ Waiting(tasks, groups)

\* How a request may end while the first answer is still to come.
Answered == response' \in {"Success", "Failure"}
Panics == NoChange /\ stage' = "Panicked" /\ UNCHANGED << response, restarts >>

\* With no child, nothing finishes and no signal does anything.
LEMMA IdleFacts ==
  ASSUME Idle(children)
  PROVE  Slots(children) = {} /\ Finished = {}
  BY DEF Idle, Slots, Finished

\* The daemon comes up with empty pools and pauses the groups of queued tasks.
LEMMA RestartQuiet ==
  ASSUME StateType, Sync, Restart
  PROVE  Quiet'
<1> DEFINE ts == RestoredTasks(disk.tasks, disk.groups)
           gs == RestoredGroups(ts, disk.groups)
<1>1. /\ tasks' = ts /\ groups' = gs /\ stage' = "Free"
      /\ children' = [g \in DOMAIN gs |-> << >>]
  BY DEF Restart
<1>2. Idle(children')
  BY <1>1 DEF Idle
<1>3. ASSUME NEW i \in DOMAIN ts, ts[i].status = "Queued"
      PROVE  gs[ts[i].group].status = "Paused"
  <2>1. ts[i].group \in DOMAIN disk.groups
    <3>1. i \in DOMAIN disk.tasks /\ disk.tasks[i] \in Task
      BY DEF RestoredTasks, StateType, DiskType, TasksType, IsPartialFn
    <3>2. QED
      BY <3>1 DEF RestoredTasks, Task, Sync, Grouped
  <2>2. disk.groups[ts[i].group] \in Group
    BY <2>1 DEF StateType, DiskType, GroupsType, IsPartialFn
  <2> HIDE DEF ts
  <2>3. gs[ts[i].group] = [disk.groups[ts[i].group] EXCEPT !.status = "Paused"]
    BY <1>3, <2>1 DEF RestoredGroups, SetGroupStatus
  <2>4. QED
    BY <2>2, <2>3 DEF Group
<1> HIDE DEF ts, gs
<1>4. QED
  BY <1>1, <1>2, <1>3 DEF Quiet, Waiting

\* An iteration of the task handler finds nothing to finish, enqueue or start.
LEMMA TaskHandlerQuiet ==
  ASSUME StateType, Sync, NoDelay, Quiet, TaskHandlerStep
  PROVE  Quiet'
<1>1. stage' # "Start" \/ UNCHANGED stage
  BY DEF TaskHandlerStep, HandleFinishedTasks, HandleShutdown, HandleGroupResets,
         EnqueueDelayedTasks, CheckFailedDependencies, SpawnNew, NoRequest, AfterFinished
<1>2. UNCHANGED << restarts, response >>
  BY DEF TaskHandlerStep, HandleFinishedTasks, HandleShutdown, HandleGroupResets,
         EnqueueDelayedTasks, CheckFailedDependencies, SpawnNew, NoRequest
<1> SUFFICES ASSUME restarts > 0, response = "None"
             PROVE  Idle(children') /\ Waiting(tasks', groups')
  BY <1>1, <1>2 DEF Quiet
<1>3. Idle(children) /\ Waiting(tasks, groups)
  BY DEF Quiet
<1>4. ASSUME NEW i \in DOMAIN tasks
      PROVE  /\ tasks[i] \in Task
             /\ tasks[i].group \in DOMAIN groups
             /\ groups[tasks[i].group] \in Group
  BY DEF StateType, TasksType, GroupsType, IsPartialFn, Sync, InStep, Grouped
<1>5. CASE NoChange
  BY <1>3, <1>5 DEF NoChange
<1>6. CASE HandleFinishedTasks
  BY <1>3, <1>5, <1>6, IdleFacts DEF HandleFinishedTasks
<1>7. CASE HandleShutdown
  BY <1>5, <1>7 DEF HandleShutdown
<1>8. CASE HandleGroupResets
  <2> DEFINE reset == {g \in DOMAIN groups :
                         groups[g].status = "Reset" /\ ~HasGroupActiveTasks(g)}
  <2>1. /\ tasks' = [i \in DOMAIN tasks \ ResetTasks(reset) |-> tasks[i]]
        /\ groups' = SetGroupStatus(groups, reset, "Running")
        /\ UNCHANGED children
    BY <1>8 DEF HandleGroupResets
  <2>2. ASSUME NEW i \in DOMAIN tasks', tasks'[i].status = "Queued"
        PROVE  groups'[tasks'[i].group].status = "Paused"
    <3>1. i \in DOMAIN tasks /\ tasks'[i] = tasks[i]
      BY <2>1
    <3>2. groups[tasks[i].group].status = "Paused"
      BY <1>3, <2>2, <3>1 DEF Waiting
    <3>3. QED
      BY <1>4, <2>1, <3>1, <3>2 DEF SetGroupStatus
  <2>3. QED
    BY <1>3, <2>1, <2>2 DEF Waiting
<1>9. CASE EnqueueDelayedTasks
  <2>1. {i \in DOMAIN tasks : tasks[i].status = "Delayed"} = {}
    BY DEF NoDelay, Undelayed
  <2>2. NoChange
    BY <1>9, <2>1 DEF EnqueueDelayedTasks
  <2>3. QED
    BY <1>5, <2>2
<1>10. CASE CheckFailedDependencies
  <2>1. PICK ids : /\ tasks' = SetStatus(ids, "DependencyFailed")
                   /\ UNCHANGED << groups, children >>
    BY <1>10 DEF CheckFailedDependencies
  <2>2. ASSUME NEW i \in DOMAIN tasks, tasks'[i].status = "Queued"
        PROVE  tasks'[i] = tasks[i]
    <3>1. [tasks[i] EXCEPT !.status = "DependencyFailed"].status = "DependencyFailed"
      BY <1>4 DEF Task
    <3>2. QED
      BY <2>1, <2>2, <3>1 DEF SetStatus
  <2>3. DOMAIN tasks' = DOMAIN tasks
    BY <2>1 DEF SetStatus
  <2>4. QED
    BY <1>3, <2>1, <2>2, <2>3 DEF Waiting
<1>11. CASE SpawnNew
  <2>1. Startable = {}
    <3> SUFFICES ASSUME NEW i \in Startable
                 PROVE  FALSE
      OBVIOUS
    <3>1. QED
      BY <1>3 DEF Startable, GroupAcceptsTasks, Waiting
  <2>2. NoChange
    BY <1>11, <2>1 DEF SpawnNew, IsNextTask
  <2>3. QED
    BY <1>5, <2>2
<1>12. QED
  BY <1>6, <1>7, <1>8, <1>9, <1>10, <1>11 DEF TaskHandlerStep

\* A request is answered, or panics before it changed anything.
LEMMA RequestQuiet ==
  ASSUME Quiet,
         ClientAdd \/ ClientEnqueue \/ ClientStash \/ ClientKill \/ ClientPause
           \/ ClientStart \/ ClientRestart \/ ClientEdit \/ ClientSwitch
           \/ ClientRemove \/ ClientClean \/ ClientGroup \/ ClientParallel
           \/ ClientReset
  PROVE  Quiet'
<1>1. Answered \/ Panics
  <2>1. CASE ClientAdd
    BY <2>1 DEF ClientAdd, AddTask, Refuse, Return, SaveOrFailure, Answered
  <2>2. CASE ClientEnqueue \/ ClientStash
    BY <2>2 DEF ClientEnqueue, ClientStash, Enqueue, Stash, Return, AnswerSelection, Answer,
                Answered
  <2>3. CASE ClientKill \/ ClientReset
    BY <2>3 DEF ClientKill, ClientReset, Kill, Reset, Refuse, Return, Answered
  <2>4. CASE ClientPause
    BY <2>4 DEF ClientPause, Pause, Refuse, Return, Handle, Answered, Panics
  <2>5. CASE ClientStart
    BY <2>5 DEF ClientStart, StartTasks, StartSelection, Refuse, Return, Answered
  <2>6. CASE ClientRestart
    BY <2>6, Zenon DEF ClientRestart, RestartMultiple, Answer, Answered
  <2>7. CASE ClientEdit
    BY <2>7 DEF ClientEdit, EditRequest, EditRestore, Edit, Refuse, Return, SaveOrFailure,
                Answered
  <2>8. CASE ClientSwitch
    BY <2>8 DEF ClientSwitch, Switch, Refuse, Return, SaveOrFailure, Answered
  <2>9. CASE ClientRemove \/ ClientClean
    BY <2>9 DEF ClientRemove, ClientClean, Remove, Clean, SaveOrFailure, Answer, Handle,
                Answered, Panics
  <2>10. CASE ClientGroup \/ ClientParallel
    BY <2>10 DEF ClientGroup, ClientParallel, GroupAdd, GroupRemove, SetParallelTasks,
                 Refuse, Return, SaveOrFailure, Answered
  <2>11. QED
    BY <2>1, <2>2, <2>3, <2>4, <2>5, <2>6, <2>7, <2>8, <2>9, <2>10
<1>2. QED
  BY <1>1 DEF Answered, Panics, NoChange, Quiet

\* A shutdown, an exit, a crash, and the loop of a start that was not asked for.
LEMMA OthersQuiet ==
  ASSUME StateType, Quiet,
         ClientShutdown \/ StartStep \/ ProcessExit \/ StoppedProcessKilled
           \/ KilledProcessExit \/ Crash \/ UNCHANGED vars
  PROVE  Quiet'
<1>1. CASE ClientShutdown
  <2>1. \A ids, signal : Idle(children) => Idle(SignalChildren(children, ids, signal))
    BY DEF Idle, SignalChildren
  <2>2. QED
    BY <1>1, <2>1 DEF ClientShutdown, Shutdown, InitiateShutdown, NoRequest, Quiet
<1>2. CASE StartStep
  BY <1>2 DEF StartStep, StartDone, StartNext, NoRequest, Quiet
<1>3. CASE ProcessExit \/ StoppedProcessKilled \/ KilledProcessExit
  <2>1. NoRequest /\ Slots(children) # {}
    BY <1>3 DEF ProcessExit, StoppedProcessKilled, KilledProcessExit, ProcessChanges
  <2>2. QED
    BY <2>1, IdleFacts DEF NoRequest, Quiet
<1>4. CASE Crash
  BY <1>4 DEF Crash, NoChange, NoRequest, Quiet
<1>5. CASE UNCHANGED vars
  BY <1>5 DEF vars, Quiet
<1>6. QED
  BY <1>1, <1>2, <1>3, <1>4, <1>5

-----------------------------------------------------------------------------
(* The theorem *)

QuietInv == SyncInv /\ NoDelay /\ Quiet

LEMMA InitQuiet == Init => QuietInv
<1>1. Init => NoDelay /\ Quiet
  BY DEF Init, NoDelay, Undelayed, Image, Quiet
<1>2. QED
  BY <1>1, InitSync DEF QuietInv

LEMMA NextQuiet ==
  ASSUME ~Delays, QuietInv, [Next]_vars
  PROVE  QuietInv'
<1>1. SyncInv'
  BY NextSync DEF QuietInv
<1>2. StateType /\ Sync /\ NoDelay /\ Quiet
  BY DEF QuietInv, SyncInv
<1>3. NoDelay'
  BY <1>2, NextUndelayed
<1>4. Quiet'
  <2>1. CASE TaskHandlerStep
    BY <1>2, <2>1, TaskHandlerQuiet
  <2>2. CASE Restart
    BY <1>2, <2>2, RestartQuiet
  <2>3. CASE ~TaskHandlerStep /\ ~Restart
    BY <1>2, <2>3, RequestQuiet, OthersQuiet DEF Next, TaskHandlerStep
  <2>4. QED
    BY <2>1, <2>2, <2>3
<1>5. QED
  BY <1>1, <1>3, <1>4 DEF QuietInv

\* If no task is ever delayed, a daemon that was started again runs nothing until
\* a client asks for something, wherever it crashed and whatever the file holds.
THEOREM NothingRunsAfterRestart ==
  ASSUME ~Delays
  PROVE  Spec => []NothingRunsUnasked
<1>1. QuietInv => NothingRunsUnasked
  BY IdleFacts DEF QuietInv, Quiet, NothingRunsUnasked, HasActiveTasks
<1>2. QuietInv /\ [Next]_vars => QuietInv'
  BY NextQuiet
<1>3. QED
  BY InitQuiet, <1>1, <1>2, PTL DEF Spec

-----------------------------------------------------------------------------
(***************************************************************************)
(* If every save works, the state file of a daemon that exited through     *)
(* handle_shutdown shows no task as running: CleanExitOnDisk.              *)
(*                                                                         *)
(* Not every change is saved, so the file may be behind; but it is never   *)
(* behind about an end: a task that runs according to the file has a       *)
(* child (Recorded), because the one step that takes children away saves   *)
(* what it leaves. The daemon exits only when no child is left (Stopped).  *)
(***************************************************************************)

-----------------------------------------------------------------------------
(* The invariant *)

Owner(i, c) == \E g \in DOMAIN c : \E w \in DOMAIN c[g] : c[g][w].task = i

Recorded ==
    \A i \in DOMAIN disk.tasks : disk.tasks[i].status \in Active => Owner(i, children)

Stopped == stage = "Exited" => \A g \in DOMAIN children : DOMAIN children[g] = {}

ExitInv == SyncInv /\ Recorded /\ Stopped

-----------------------------------------------------------------------------
(* What a step may do to the file and the pools *)

SavedStep == disk' = Image(tasks', groups')
KeptStep == UNCHANGED disk /\ SameChildren(children, children')

\* A step that saves is recorded because active tasks have children; one that does
\* not must leave the children where they are.
LEMMA SavedOrKeptRecorded ==
  ASSUME Recorded, Sync', SavedStep \/ KeptStep
  PROVE  Recorded'
<1>1. CASE SavedStep
  BY <1>1 DEF SavedStep, Image, Sync, InStep, Owned, Owner, Recorded
<1>2. CASE KeptStep
  BY <1>2 DEF KeptStep, SameChildren, Owner, Recorded
<1>3. QED
  BY <1>1, <1>2

LEMMA UnchangedKept ==
  ASSUME UNCHANGED << disk, children >>
  PROVE  KeptStep
  BY DEF KeptStep, SameChildren

LEMMA NoChangeKept ==
  ASSUME NoChange
  PROVE  KeptStep
  BY UnchangedKept DEF NoChange

\* The two ways a handler saves, when saving cannot fail.
LEMMA SaveOrShutdownSaved ==
  ASSUME ~SaveMayFail, NEW ts, NEW gs, NEW c, SaveOrShutdown(ts, gs, c)
  PROVE  SavedStep
  BY DEF SaveOrShutdown, SavedStep

LEMMA SaveOrFailureSaved ==
  ASSUME ~SaveMayFail, NEW ts, NEW gs, NEW c, NEW answer, SaveOrFailure(ts, gs, c, answer)
  PROVE  SavedStep
  BY DEF SaveOrFailure, SavedStep

\* A shutdown saves, unless there is one already.
LEMMA InitiateShutdownSavedOrKept ==
  ASSUME ~SaveMayFail, NEW kind, InitiateShutdown(kind, tasks, groups, children),
         UNCHANGED << tasks, groups >>
  PROVE  SavedStep \/ KeptStep
  BY UnchangedKept DEF InitiateShutdown, SavedStep

-----------------------------------------------------------------------------
(* The steps *)

LEMMA TaskHandlerSavedOrKept ==
  ASSUME ~SaveMayFail, TaskHandlerStep
  PROVE  SavedStep \/ KeptStep
<1>1. ASSUME NEW id, SpawnProcess(id)
      PROVE  SavedStep \/ KeptStep
  BY <1>1, NoChangeKept, SaveOrShutdownSaved DEF SpawnProcess
<1>2. CASE HandleFinishedTasks
  BY <1>2, NoChangeKept, SaveOrShutdownSaved DEF HandleFinishedTasks
<1>3. CASE HandleShutdown
  BY <1>3, NoChangeKept DEF HandleShutdown
<1>4. CASE HandleGroupResets \/ CheckFailedDependencies
  BY <1>4, UnchangedKept DEF HandleGroupResets, CheckFailedDependencies
<1>5. CASE EnqueueDelayedTasks
  BY <1>5, NoChangeKept, SaveOrShutdownSaved DEF EnqueueDelayedTasks
<1>6. CASE SpawnNew
  BY <1>1, <1>6, NoChangeKept DEF SpawnNew
<1>7. QED
  BY <1>2, <1>3, <1>4, <1>5, <1>6 DEF TaskHandlerStep

LEMMA RequestSavedOrKept ==
  ASSUME ~SaveMayFail, StateType,
         ClientAdd \/ ClientEnqueue \/ ClientStash \/ ClientKill \/ ClientPause
           \/ ClientStart \/ StartStep \/ ClientRestart \/ ClientEdit \/ ClientSwitch
           \/ ClientRemove \/ ClientClean \/ ClientGroup \/ ClientParallel
           \/ ClientReset \/ ClientShutdown
  PROVE  SavedStep \/ KeptStep
<1>1. Refuse => KeptStep
  BY NoChangeKept DEF Refuse
<1>2. CASE ClientAdd
  BY <1>1, <1>2, SaveOrFailureSaved DEF ClientAdd, AddTask
<1>3. CASE ClientEnqueue \/ ClientStash
  BY <1>3, UnchangedKept DEF ClientEnqueue, ClientStash, Enqueue, Stash, Unsaved
<1>4. CASE ClientKill \/ ClientReset
  BY <1>1, <1>4, SaveOrShutdownSaved DEF ClientKill, ClientReset, Kill, Reset
<1>5. CASE ClientPause
  BY <1>1, <1>5, NoChangeKept, SaveOrShutdownSaved DEF ClientPause, Pause
<1>6. CASE ClientStart
  BY <1>1, <1>6, NoChangeKept, SaveOrShutdownSaved
     DEF ClientStart, StartTasks, StartSelection, ResumeTasks
<1>7. CASE StartStep
  <2>1. CASE StartDone
    BY <2>1, SaveOrShutdownSaved DEF StartDone
  <2>2. ASSUME NEW id, StartNext(id)
        PROVE  SavedStep \/ KeptStep
    <3>1. CASE SpawnProcess(id)
      BY <3>1, NoChangeKept, SaveOrShutdownSaved DEF SpawnProcess
    <3>2. CASE /\ children' = SignalChildren(children, Continued({id}), "Cont")
               /\ UNCHANGED << groups, shutdown, disk >>
      BY <3>2, SignalChildrenSame DEF StateType, KeptStep
    <3>3. QED
      BY <2>2, <3>1, <3>2 DEF StartNext
  <2>3. QED
    BY <1>7, <2>1, <2>2 DEF StartStep
<1>8. CASE ClientRestart
  <2>1. UNCHANGED << disk, children >>
    BY <1>8, Zenon DEF ClientRestart, RestartMultiple, Unsaved
  <2>2. QED
    BY <2>1, UnchangedKept
<1>9. CASE ClientEdit
  BY <1>1, <1>9, UnchangedKept, SaveOrFailureSaved
     DEF ClientEdit, EditRequest, EditRestore, Edit, Unsaved
<1>10. CASE ClientSwitch
  BY <1>1, <1>10, SaveOrFailureSaved DEF ClientSwitch, Switch
<1>11. CASE ClientRemove \/ ClientClean
  BY <1>11, NoChangeKept, SaveOrFailureSaved DEF ClientRemove, ClientClean, Remove, Clean
<1>12. CASE ClientGroup
  BY <1>1, <1>12, SaveOrFailureSaved, InitiateShutdownSavedOrKept
     DEF ClientGroup, GroupAdd, GroupRemove
<1>13. CASE ClientParallel
  BY <1>1, <1>13, UnchangedKept DEF ClientParallel, SetParallelTasks, Unsaved
<1>14. CASE ClientShutdown
  BY <1>14, InitiateShutdownSavedOrKept DEF ClientShutdown, Shutdown
<1>15. QED
  BY <1>2, <1>3, <1>4, <1>5, <1>6, <1>7, <1>8, <1>9, <1>10, <1>11, <1>12, <1>13, <1>14

LEMMA EnvironmentSavedOrKept ==
  ASSUME StateType,
         ProcessExit \/ StoppedProcessKilled \/ KilledProcessExit \/ Crash \/ Restart
           \/ UNCHANGED vars
  PROVE  SavedStep \/ KeptStep
<1>1. ASSUME NEW from, NEW to, ProcessChanges(from, to)
      PROVE  KeptStep
  <2>1. PICK s \in Slots(children) :
          children' = [children EXCEPT ![s[1]][s[2]].proc = to]
    BY <1>1 DEF ProcessChanges
  <2>2. s[1] \in DOMAIN children /\ s[2] \in DOMAIN children[s[1]]
    BY DEF Slots
  <2>3. SameChildren(children, children')
    BY <2>1, <2>2 DEF SameChildren, StateType, ChildrenType, IsPartialFn, Child
  <2>4. QED
    BY <1>1, <2>3 DEF ProcessChanges, KeptStep
<1>2. CASE Crash
  BY <1>2, NoChangeKept DEF Crash
<1>3. CASE Restart
  BY <1>3 DEF Restart, SavedStep
<1>4. CASE UNCHANGED vars
  BY <1>4, UnchangedKept DEF vars
<1>5. QED
  BY <1>1, <1>2, <1>3, <1>4 DEF ProcessExit, StoppedProcessKilled, KilledProcessExit

\* handle_shutdown is the only way to exit, and an exited daemon takes no step.
LEMMA NextStopped ==
  ASSUME StateType, Stopped, [Next]_vars
  PROVE  Stopped'
<1>1. CASE HandleShutdown
  <2>1. ASSUME NEW g \in DOMAIN children, NEW w \in DOMAIN children[g]
        PROVE  << g, w >> \in Slots(children)
    BY DEF Slots, StateType, ChildrenType, IsPartialFn
  <2>2. QED
    BY <1>1, <2>1 DEF HandleShutdown, HasActiveTasks, NoChange, Stopped
<1>2. CASE UNCHANGED vars
  BY <1>2 DEF vars, Stopped
<1>3. CASE ~HandleShutdown /\ ~UNCHANGED vars
  <2>1. stage' # "Exited"
    <3>1. CASE TaskHandlerStep \/ StartStep
      BY <1>3, <3>1 DEF TaskHandlerStep, HandleFinishedTasks, AfterFinished,
         HandleGroupResets, EnqueueDelayedTasks, CheckFailedDependencies, SpawnNew,
         StartStep, StartDone, StartNext
    <3>2. CASE ClientAdd \/ ClientEnqueue \/ ClientStash \/ ClientKill \/ ClientPause
                 \/ ClientStart
      BY <3>2 DEF ClientAdd, ClientEnqueue, ClientStash, ClientKill, ClientPause, ClientStart,
         AddTask, Enqueue, Stash, Kill, Pause, StartTasks, StartSelection, Handle, Return,
         Refuse
    <3>3. CASE ClientRestart
      BY <3>3, Zenon DEF ClientRestart, RestartMultiple, Handle
    <3>4. CASE ClientEdit \/ ClientSwitch \/ ClientRemove \/ ClientClean
      BY <3>4 DEF ClientEdit, ClientSwitch, ClientRemove, ClientClean, EditRequest,
         EditRestore, Edit, Switch, Remove, Clean, Handle, Return, Refuse
    <3>5. CASE ClientGroup \/ ClientParallel \/ ClientReset \/ ClientShutdown
      BY <3>5 DEF ClientGroup, ClientParallel, ClientReset, ClientShutdown, GroupAdd,
         GroupRemove, SetParallelTasks, Reset, Shutdown, Handle, Return, Refuse
    <3>6. CASE ProcessExit \/ StoppedProcessKilled \/ KilledProcessExit \/ Crash \/ Restart
      BY <3>6 DEF ProcessExit, StoppedProcessKilled, KilledProcessExit, ProcessChanges,
         Crash, Restart, Down
    <3>7. QED
      BY <1>3, <3>1, <3>2, <3>3, <3>4, <3>5, <3>6 DEF Next, TaskHandlerStep
  <2>2. QED
    BY <2>1 DEF Stopped
<1>4. QED
  BY <1>1, <1>2, <1>3

-----------------------------------------------------------------------------
(* The theorem *)

LEMMA InitExit == Init => ExitInv
<1>1. Init => Recorded /\ Stopped
  BY DEF Init, Recorded, Stopped, Image
<1>2. QED
  BY <1>1, InitSync DEF ExitInv

LEMMA NextExit ==
  ASSUME ~SaveMayFail, ExitInv, [Next]_vars
  PROVE  ExitInv'
<1>1. SyncInv'
  BY NextSync DEF ExitInv
<1>2. StateType /\ Recorded /\ Stopped
  BY DEF ExitInv, SyncInv
<1>3. SavedStep \/ KeptStep
  BY <1>2, TaskHandlerSavedOrKept, RequestSavedOrKept, EnvironmentSavedOrKept
     DEF Next, TaskHandlerStep
<1>4. Recorded'
  BY <1>1, <1>2, <1>3, SavedOrKeptRecorded DEF SyncInv
<1>5. QED
  BY <1>1, <1>2, <1>4, NextStopped DEF ExitInv

\* Whatever clients asked for and however the shutdown came about, a daemon that
\* exited by itself and whose saves worked left no task Running or Paused in its file.
THEOREM ExitsClean ==
  ASSUME ~SaveMayFail
  PROVE  Spec => []CleanExitOnDisk
<1>1. ExitInv => CleanExitOnDisk
  BY DEF ExitInv, Recorded, Stopped, Owner, CleanExitOnDisk, IsRunning
<1>2. ExitInv /\ [Next]_vars => ExitInv'
  BY NextExit
<1>3. QED
  BY InitExit, <1>1, <1>2, PTL DEF Spec

-----------------------------------------------------------------------------
(***************************************************************************)
(* If clients neither start tasks themselves nor change limits, no group   *)
(* ever runs more tasks than its parallel_tasks: WorkersWithinLimit.       *)
(*                                                                         *)
(* One step adds a child, spawn_new, to a group with a free slot. Every    *)
(* other step leaves each group its limit and at most the workers it had,  *)
(* or an empty pool (Shrinks). The loop of `start`, the other one that     *)
(* spawns, is never entered (stage # "Start").                             *)
(***************************************************************************)

\* No request starts a task by its id.
NoForcedStarts == Commands \cap {"start", "immediate", "restart_immediate"} = {}

\* No request starts a task past the limit or lowers one.
NoForcing == NoForcedStarts /\ "parallel" \notin Commands

\* The inductive invariant.
LimitInv == SyncInv /\ WorkersWithinLimit /\ stage # "Start"

-----------------------------------------------------------------------------
(* Steps that add no child *)

SameLimits(gs) ==
    /\ DOMAIN gs = DOMAIN groups
    /\ \A g \in DOMAIN groups : gs[g].parallel_tasks = groups[g].parallel_tasks

Shrinks(gs, c) ==
    /\ DOMAIN c = DOMAIN gs
    /\ \A g \in DOMAIN gs :
          \/ DOMAIN c[g] = {}
          \/ /\ g \in DOMAIN groups
             /\ gs[g].parallel_tasks = groups[g].parallel_tasks
             /\ DOMAIN c[g] \subseteq DOMAIN children[g]

\* Pools are finite: their workers are numbered from a bounded range.
LEMMA FinitePools ==
  ASSUME StateType, NEW g \in DOMAIN children
  PROVE  IsFiniteSet(DOMAIN children[g]) /\ Cardinality(DOMAIN children[g]) \in Nat
<1>1. DOMAIN children[g] \in SUBSET WorkerIds
  BY DEF StateType, ChildrenType, IsPartialFn
<1>2. IsFiniteSet(WorkerIds)
  BY FS_Interval, BoundsAssumption DEF WorkerIds
<1>3. QED
  BY <1>1, <1>2, FS_Subset, FS_CardinalityType

LEMMA ShrinksWithin ==
  ASSUME StateType, StateType', Sync, WorkersWithinLimit, Shrinks(groups', children')
  PROVE  WorkersWithinLimit'
<1> SUFFICES ASSUME NEW g \in DOMAIN groups', groups'[g].parallel_tasks # 0
             PROVE  Cardinality(DOMAIN children'[g]) <= groups'[g].parallel_tasks
  BY DEF WorkersWithinLimit
<1>1. groups'[g].parallel_tasks \in Nat
  BY SettingsAssumption DEF StateType, GroupsType, IsPartialFn, Group
<1>2. CASE DOMAIN children'[g] = {}
  BY <1>1, <1>2, FS_EmptySet
<1>3. CASE /\ g \in DOMAIN groups
           /\ groups'[g].parallel_tasks = groups[g].parallel_tasks
           /\ DOMAIN children'[g] \subseteq DOMAIN children[g]
  <2>1. g \in DOMAIN children
    BY <1>3 DEF Sync, InStep
  <2>2. /\ IsFiniteSet(DOMAIN children[g])
        /\ Cardinality(DOMAIN children[g]) \in Nat
    BY <2>1, FinitePools
  <2>3. Cardinality(DOMAIN children[g]) <= groups'[g].parallel_tasks
    BY <1>3 DEF WorkersWithinLimit
  <2>4. /\ Cardinality(DOMAIN children'[g]) <= Cardinality(DOMAIN children[g])
        /\ IsFiniteSet(DOMAIN children'[g])
    BY <1>3, <2>2, FS_Subset
  <2>5. Cardinality(DOMAIN children'[g]) \in Nat
    BY <2>4, FS_CardinalityType
  <2>6. QED
    BY <1>1, <2>2, <2>3, <2>4, <2>5
<1>4. QED
  BY <1>2, <1>3 DEF Shrinks

\* Groups change their status in several ways, and keep their limit in all of them.
LEMMA SetGroupStatusSameLimits ==
  ASSUME GroupsType(groups), NEW names, NEW status
  PROVE  SameLimits(SetGroupStatus(groups, names, status))
  BY DEF GroupsType, IsPartialFn, Group, SetGroupStatus, SameLimits

LEMMA PausedOnFailureSameLimits ==
  ASSUME GroupsType(groups), NEW failed
  PROVE  SameLimits(PausedOnFailure(groups, failed))
  BY SetGroupStatusSameLimits DEF PausedOnFailure, SameLimits

\* Signals move no child.
LEMMA SignalChildrenShrinks ==
  ASSUME Sync, NEW gs, SameLimits(gs), NEW ids, NEW signal
  PROVE  Shrinks(gs, SignalChildren(children, ids, signal))
  BY DEF Sync, InStep, SameLimits, SignalChildren, Shrinks

LEMMA SameShrinks ==
  ASSUME Sync, NEW gs, SameLimits(gs)
  PROVE  Shrinks(gs, children)
  BY DEF Sync, InStep, SameLimits, Shrinks

\* The ways a handler ends: a failing save only signals the children it leaves.
LEMMA SaveOrShutdownShrinks ==
  ASSUME NEW ts, NEW gs, NEW c, Shrinks(gs, c), SaveOrShutdown(ts, gs, c)
  PROVE  Shrinks(groups', children')
<1>1. Shrinks(gs, SignalChildren(c, AllTaskIds(c), "Kill"))
  BY DEF Shrinks, SignalChildren
<1>2. groups' = gs /\ children' \in {c, SignalChildren(c, AllTaskIds(c), "Kill")}
  BY DEF SaveOrShutdown, InitiateShutdown
<1>3. QED
  BY <1>1, <1>2

LEMMA UnchangedShrinks ==
  ASSUME Sync, UNCHANGED << groups, children >>
  PROVE  Shrinks(groups', children')
  BY DEF Sync, InStep, Shrinks

LEMMA InitiateShutdownShrinks ==
  ASSUME Sync, NEW kind, InitiateShutdown(kind, tasks, groups, children), UNCHANGED groups
  PROVE  Shrinks(groups', children')
  BY SignalChildrenShrinks, SameShrinks DEF InitiateShutdown, SameLimits

-----------------------------------------------------------------------------
(* The task handler *)

\* spawn_process puts one child into the task's pool, which has a slot for it.
LEMMA SpawnWithin ==
  ASSUME StateType, StateType', Sync, WorkersWithinLimit, NEW id \in Startable,
         SpawnProcess(id)
  PROVE  WorkersWithinLimit'
<1> DEFINE name == tasks[id].group
<1>1. /\ id \in DOMAIN tasks /\ name \in DOMAIN groups /\ name \in DOMAIN children
      /\ FreeSlots(name)
  BY DEF Startable, GroupAcceptsTasks
<1>2. CASE NoChange
  BY <1>2, UnchangedShrinks, ShrinksWithin DEF NoChange
<1>3. CASE SaveOrShutdown(SetStatus({id}, "FailedToSpawn"),
                          PausedOnFailure(groups, {name}), children)
  BY <1>3, PausedOnFailureSameLimits, SameShrinks, SaveOrShutdownShrinks, ShrinksWithin
     DEF StateType
<1>4. ASSUME NEW worker \in WorkerIds, NEW child,
             SaveOrShutdown(SetStatus({id}, "Running"), groups,
                            AddChild(children, name, worker, child))
      PROVE  WorkersWithinLimit'
  <2> DEFINE c == AddChild(children, name, worker, child)
  <2> HIDE DEF name
  <2>1. /\ DOMAIN c = DOMAIN children
        /\ \A g \in DOMAIN children :
              DOMAIN c[g] = DOMAIN children[g] \cup IF g = name THEN {worker} ELSE {}
    BY <1>1 DEF AddChild
  <2>2. /\ groups' = groups
        /\ children' \in {c, SignalChildren(c, AllTaskIds(c), "Kill")}
    BY <1>4 DEF SaveOrShutdown, InitiateShutdown
  <2> HIDE DEF c
  <2>3. \A g \in DOMAIN children :
          DOMAIN children'[g] = DOMAIN children[g] \cup IF g = name THEN {worker} ELSE {}
    BY <2>1, <2>2 DEF SignalChildren
  <2>4. ASSUME NEW g \in DOMAIN groups', groups'[g].parallel_tasks # 0
        PROVE  Cardinality(DOMAIN children'[g]) <= groups'[g].parallel_tasks
    <3>1. g \in DOMAIN groups /\ g \in DOMAIN children
      BY <2>2 DEF Sync, InStep
    <3>2. groups[g].parallel_tasks \in Nat
      BY <3>1, SettingsAssumption DEF StateType, GroupsType, IsPartialFn, Group
    <3>3. CASE g # name
      BY <2>2, <2>3, <2>4, <3>1, <3>3 DEF WorkersWithinLimit
    <3>4. CASE g = name
      <4>1. DOMAIN children'[g] = DOMAIN children[g] \cup {worker}
        BY <2>3, <3>1, <3>4
      <4>2. Cardinality(DOMAIN children[g]) < groups[g].parallel_tasks
        BY <1>1, <2>2, <2>4, <3>4 DEF FreeSlots
      <4>3. /\ IsFiniteSet(DOMAIN children[g])
            /\ Cardinality(DOMAIN children[g]) \in Nat
        BY <3>1, FinitePools
      <4>4. Cardinality(DOMAIN children[g] \cup {worker})
              <= Cardinality(DOMAIN children[g]) + 1
        BY SMTT(30), <4>3, FS_AddElement
      <4>5. Cardinality(DOMAIN children[g] \cup {worker}) \in Nat
        BY <4>3, FS_AddElement, FS_CardinalityType
      <4>6. QED
        BY <2>2, <3>2, <4>1, <4>2, <4>3, <4>4, <4>5
    <3>5. QED
      BY <3>3, <3>4
  <2>5. QED
    BY <2>4 DEF WorkersWithinLimit
<1>5. QED
  BY <1>2, <1>3, <1>4 DEF SpawnProcess

LEMMA TaskHandlerWithin ==
  ASSUME StateType, StateType', Sync, WorkersWithinLimit, TaskHandlerStep
  PROVE  WorkersWithinLimit'
<1>1. CASE HandleFinishedTasks
  <2>1. CASE NoChange
    BY <2>1, UnchangedShrinks, ShrinksWithin DEF NoChange
  <2>2. CASE ~NoChange
    <3> DEFINE c == [g \in DOMAIN children |->
                      [w \in {w \in DOMAIN children[g] : << g, w >> \notin Finished} |->
                          children[g][w]]]
    <3>1. PICK ts, failed : SaveOrShutdown(ts, PausedOnFailure(groups, failed), c)
      BY <1>1, <2>2 DEF HandleFinishedTasks
    <3>2. SameLimits(PausedOnFailure(groups, failed))
      BY PausedOnFailureSameLimits DEF StateType
    <3>3. Shrinks(PausedOnFailure(groups, failed), c)
      BY <3>2 DEF Sync, InStep, SameLimits, Shrinks
    <3> HIDE DEF c
    <3>4. QED
      BY <3>1, <3>3, SaveOrShutdownShrinks, ShrinksWithin
  <2>3. QED
    BY <2>1, <2>2
<1>2. CASE HandleShutdown \/ CheckFailedDependencies
  <2>1. UNCHANGED << groups, children >>
    BY <1>2 DEF HandleShutdown, CheckFailedDependencies, NoChange
  <2>2. QED
    BY <2>1, UnchangedShrinks, ShrinksWithin
<1>3. CASE HandleGroupResets
  <2>1. PICK reset : groups' = SetGroupStatus(groups, reset, "Running") /\ UNCHANGED children
    BY <1>3 DEF HandleGroupResets
  <2>2. SameLimits(groups')
    BY <2>1, SetGroupStatusSameLimits DEF StateType
  <2>3. QED
    BY <2>1, <2>2, SameShrinks, ShrinksWithin
<1>4. CASE EnqueueDelayedTasks
  <2>1. Shrinks(groups, children)
    BY SameShrinks DEF SameLimits
  <2>2. Shrinks(groups', children')
    BY <1>4, <2>1, UnchangedShrinks, SaveOrShutdownShrinks DEF EnqueueDelayedTasks, NoChange
  <2>3. QED
    BY <2>2, ShrinksWithin
<1>5. CASE SpawnNew
  <2>1. NoChange \/ \E id \in Startable : SpawnProcess(id)
    BY <1>5 DEF SpawnNew, IsNextTask
  <2>2. QED
    BY <2>1, SpawnWithin, UnchangedShrinks, ShrinksWithin DEF NoChange
<1>6. QED
  BY <1>1, <1>2, <1>3, <1>4, <1>5 DEF TaskHandlerStep

-----------------------------------------------------------------------------
(* Requests, processes and start-up *)

LEMMA RefuseShrinks ==
  ASSUME Sync, Refuse
  PROVE  Shrinks(groups', children')
  BY UnchangedShrinks DEF Refuse, NoChange

LEMMA SaveOrFailureShrinks ==
  ASSUME NEW ts, NEW gs, NEW c, NEW answer, Shrinks(gs, c), SaveOrFailure(ts, gs, c, answer)
  PROVE  Shrinks(groups', children')
  BY DEF SaveOrFailure

\* Requests that change tasks only.
LEMMA TaskRequestShrinks ==
  ASSUME Sync, ClientAdd \/ ClientEnqueue \/ ClientStash \/ ClientRestart \/ ClientEdit
                 \/ ClientSwitch \/ ClientRemove \/ ClientClean
  PROVE  Shrinks(groups', children')
<1>1. \A ts, answer : SaveOrFailure(ts, groups, children, answer) =>
                        UNCHANGED << groups, children >>
  BY DEF SaveOrFailure
<1>2. Refuse => UNCHANGED << groups, children >>
  BY DEF Refuse, NoChange
<1>3. UNCHANGED << groups, children >>
  <2>1. CASE ClientAdd
    BY <1>1, <1>2, <2>1 DEF ClientAdd, AddTask
  <2>2. CASE ClientEnqueue \/ ClientStash
    BY <2>2 DEF ClientEnqueue, ClientStash, Enqueue, Stash
  <2>3. CASE ClientRestart
    BY <2>3, Zenon DEF ClientRestart, RestartMultiple
  <2>4. CASE ClientEdit
    BY <1>1, <1>2, <2>4 DEF ClientEdit, EditRequest, EditRestore, Edit
  <2>5. CASE ClientSwitch
    BY <1>1, <1>2, <2>5 DEF ClientSwitch, Switch
  <2>6. CASE ClientRemove \/ ClientClean
    BY <1>1, <2>6 DEF ClientRemove, ClientClean, Remove, Clean, NoChange
  <2>7. QED
    BY <2>1, <2>2, <2>3, <2>4, <2>5, <2>6
<1>4. QED
  BY <1>3, UnchangedShrinks

\* Requests that signal children and set the status of groups.
LEMMA SignallingShrinks ==
  ASSUME StateType, Sync,
         ClientKill \/ ClientPause \/ ClientReset \/ ClientShutdown
           \/ \E sel : StartSelection(sel)
  PROVE  Shrinks(groups', children')
<1>1. ASSUME NEW ts, NEW names, NEW status, NEW ids, NEW signal,
             SaveOrShutdown(ts, SetGroupStatus(groups, names, status),
                            SignalChildren(children, ids, signal))
      PROVE  Shrinks(groups', children')
  <2>1. SameLimits(SetGroupStatus(groups, names, status))
    BY SetGroupStatusSameLimits DEF StateType
  <2>2. QED
    BY <1>1, <2>1, SignalChildrenShrinks, SaveOrShutdownShrinks
<1>2. CASE ClientKill \/ ClientReset
  BY <1>1, <1>2, RefuseShrinks DEF ClientKill, ClientReset, Kill, Reset
<1>3. CASE ClientPause
  BY <1>1, <1>3, RefuseShrinks, UnchangedShrinks DEF ClientPause, Pause, NoChange
<1>4. CASE ClientShutdown
  BY <1>4, InitiateShutdownShrinks DEF ClientShutdown, Shutdown
<1>5. CASE \E sel : StartSelection(sel)
  BY <1>1, <1>5, RefuseShrinks DEF StartSelection, ResumeTasks
<1>6. QED
  BY <1>2, <1>3, <1>4, <1>5

\* A new group has no worker, a removed one takes its pool along.
LEMMA GroupShrinks ==
  ASSUME Sync, ClientGroup
  PROVE  Shrinks(groups', children')
<1>1. ASSUME NEW name, NEW n, GroupAdd(name, n)
      PROVE  Shrinks(groups', children')
  <2> DEFINE gs == [g \in DOMAIN groups \cup {name} |->
                      IF g = name THEN [status |-> "Running", parallel_tasks |-> n]
                                  ELSE groups[g]]
  <2>1. CASE Refuse
    BY <2>1, RefuseShrinks
  <2>2. CASE ~Refuse
    <3>1. /\ name \notin DOMAIN groups
          /\ SaveOrFailure(tasks, gs, NewPool(name), "Success")
      BY <1>1, <2>2 DEF GroupAdd
    <3>2. Shrinks(gs, NewPool(name))
      BY <3>1 DEF Sync, InStep, NewPool, Shrinks
    <3> HIDE DEF gs
    <3>3. QED
      BY <3>1, <3>2, SaveOrFailureShrinks
  <2>3. QED
    BY <2>1, <2>2
<1>2. ASSUME NEW name, GroupRemove(name)
      PROVE  Shrinks(groups', children')
  <2> DEFINE gs == [g \in DOMAIN groups \ {name} |-> groups[g]]
             c == [g \in DOMAIN children \ {name} |-> children[g]]
  <2>1. \/ Refuse
        \/ SaveOrFailure(tasks, gs, c, "Success")
        \/ InitiateShutdown("Emergency", tasks, groups, children) /\ UNCHANGED groups
    BY <1>2 DEF GroupRemove
  <2>2. Shrinks(gs, c)
    BY DEF Sync, InStep, Shrinks
  <2> HIDE DEF gs, c
  <2>3. QED
    BY <2>1, <2>2, RefuseShrinks, SaveOrFailureShrinks, InitiateShutdownShrinks
<1>3. QED
  BY <1>1, <1>2 DEF ClientGroup

\* Exits move no child, and a restored daemon has none.
LEMMA EnvironmentShrinks ==
  ASSUME StateType, Sync,
         ProcessExit \/ StoppedProcessKilled \/ KilledProcessExit \/ Crash \/ Restart
           \/ UNCHANGED vars
  PROVE  Shrinks(groups', children')
<1>1. ASSUME NEW from, NEW to, ProcessChanges(from, to)
      PROVE  Shrinks(groups', children')
  <2>1. PICK s \in Slots(children) :
          children' = [children EXCEPT ![s[1]][s[2]].proc = to]
    BY <1>1 DEF ProcessChanges
  <2>2. /\ DOMAIN children' = DOMAIN children
        /\ \A g \in DOMAIN children : DOMAIN children'[g] = DOMAIN children[g]
    BY <2>1
  <2>3. QED
    BY <1>1, <2>2 DEF ProcessChanges, Sync, InStep, Shrinks
<1>2. CASE Crash
  BY <1>2, UnchangedShrinks DEF Crash, NoChange
<1>3. CASE Restart
  BY <1>3 DEF Restart, Shrinks
<1>4. CASE UNCHANGED vars
  BY <1>4, UnchangedShrinks DEF vars
<1>5. QED
  BY <1>1, <1>2, <1>3, <1>4 DEF ProcessExit, StoppedProcessKilled, KilledProcessExit

-----------------------------------------------------------------------------
(* The theorem *)

\* Without the requests that force a start, nothing enters its loop.
LEMMA NeverStarting ==
  ASSUME NoForcedStarts, stage # "Start", [Next]_vars
  PROVE  stage' # "Start" /\ ~StartStep /\ ~\E ids : StartTasks(ids)
<1>1. ~StartStep
  BY DEF StartStep, StartDone, StartNext
<1>2. ~\E ids : StartTasks(ids)
  BY DEF NoForcedStarts, StartTasks, Handle
<1>3. stage' # "Start"
  <2>1. CASE TaskHandlerStep
    BY <2>1 DEF TaskHandlerStep, HandleFinishedTasks, AfterFinished, HandleShutdown,
       HandleGroupResets, EnqueueDelayedTasks, CheckFailedDependencies, SpawnNew
  <2>2. CASE ClientAdd
    <3>1. PICK immediate : /\ immediate => "immediate" \in Commands
                           /\ \E name, status, deps, priority :
                                 AddTask(name, status, deps, priority, immediate)
      BY <2>2 DEF ClientAdd
    <3>2. ~immediate
      BY <3>1 DEF NoForcedStarts
    <3>3. QED
      BY <3>1, <3>2 DEF AddTask, Refuse, Return
  <2>3. CASE ClientEnqueue \/ ClientStash \/ ClientKill \/ ClientPause
    BY <2>3 DEF ClientEnqueue, ClientStash, ClientKill, ClientPause, Enqueue, Stash, Kill,
       Pause, Return, Refuse
  <2>4. CASE ClientStart
    BY <1>2, <2>4 DEF ClientStart, StartSelection, Return, Refuse
  <2>5. CASE ClientRestart
    <3>1. PICK immediate : /\ immediate => "restart_immediate" \in Commands
                           /\ \E ids, status, priority :
                                 RestartMultiple(ids, status, priority, immediate)
      BY <2>5, Zenon DEF ClientRestart
    <3>2. ~immediate
      BY <3>1 DEF NoForcedStarts
    <3>3. QED
      BY <3>1, <3>2 DEF RestartMultiple
  <2>6. CASE ClientEdit \/ ClientSwitch \/ ClientRemove \/ ClientClean
    BY <2>6 DEF ClientEdit, ClientSwitch, ClientRemove, ClientClean, EditRequest,
       EditRestore, Edit, Switch, Remove, Clean, Return, Refuse
  <2>7. CASE ClientGroup \/ ClientParallel \/ ClientReset \/ ClientShutdown
    BY <2>7 DEF ClientGroup, ClientParallel, ClientReset, ClientShutdown, GroupAdd,
       GroupRemove, SetParallelTasks, Reset, Shutdown, Return, Refuse
  <2>8. CASE ProcessExit \/ StoppedProcessKilled \/ KilledProcessExit \/ Crash \/ Restart
               \/ UNCHANGED vars
    BY <2>8 DEF ProcessExit, StoppedProcessKilled, KilledProcessExit, ProcessChanges, Crash,
       Restart, vars
  <2>9. QED
    BY <1>1, <1>2, <2>1, <2>2, <2>3, <2>4, <2>5, <2>6, <2>7, <2>8 DEF Next, TaskHandlerStep
<1>4. QED
  BY <1>1, <1>2, <1>3

LEMMA InitLimit == Init => LimitInv
<1> SUFFICES ASSUME Init
             PROVE  LimitInv
  OBVIOUS
<1>1. \A g \in DOMAIN groups : DOMAIN children[g] = {} /\ groups[g].parallel_tasks = 1
  BY DEF Init
<1>2. \A g \in DOMAIN groups : Cardinality(DOMAIN children[g]) <= 1
  BY <1>1, FS_EmptySet
<1>3. WorkersWithinLimit
  BY <1>1, <1>2 DEF WorkersWithinLimit
<1>4. QED
  BY <1>3, InitSync DEF Init, LimitInv

LEMMA NextLimit ==
  ASSUME NoForcing, LimitInv, [Next]_vars
  PROVE  LimitInv'
<1>1. StateType /\ Sync /\ WorkersWithinLimit /\ stage # "Start"
  BY DEF LimitInv, SyncInv
<1>2. SyncInv' /\ StateType'
  BY NextSync DEF LimitInv, SyncInv
<1>3. stage' # "Start" /\ ~StartStep /\ ~ClientParallel /\ ~\E ids : StartTasks(ids)
  BY <1>1, NeverStarting DEF NoForcing, ClientParallel, SetParallelTasks, Handle
<1>4. WorkersWithinLimit'
  <2>1. CASE TaskHandlerStep
    BY <1>1, <1>2, <2>1, TaskHandlerWithin
  <2>2. CASE ~TaskHandlerStep
    <3>1. Shrinks(groups', children')
      BY <1>1, <1>3, <2>2, TaskRequestShrinks, SignallingShrinks, GroupShrinks,
         EnvironmentShrinks DEF Next, TaskHandlerStep, ClientStart
    <3>2. QED
      BY <1>1, <1>2, <3>1, ShrinksWithin
  <2>3. QED
    BY <2>1, <2>2
<1>5. QED
  BY <1>2, <1>3, <1>4 DEF LimitInv

\* If clients force no start and change no limit, no group ever has more workers than
\* its parallel_tasks: across iterations, restarts, resets and re-created groups.
THEOREM LimitsHold ==
  ASSUME NoForcing
  PROVE  Spec => []WorkersWithinLimit
<1>1. LimitInv => WorkersWithinLimit
  BY DEF LimitInv
<1>2. LimitInv /\ [Next]_vars => LimitInv'
  BY NextLimit
<1>3. QED
  BY InitLimit, <1>1, <1>2, PTL DEF Spec

-----------------------------------------------------------------------------
(***************************************************************************)
(* If users send no SIGSTOP or SIGCONT of their own, the status of a task  *)
(* says whether its process runs or is stopped: ProcessMatchesStatus.      *)
(*                                                                         *)
(* pause, continue and spawn change a status and its process together. All *)
(* other steps leave a task its status or make it inactive (OldOrIdle),    *)
(* leave a child as it is or end it (Calm), and never make inactive a task *)
(* that has a child, which Sync says of the state they lead to.            *)
(***************************************************************************)

NoForeignSignals == Signals \cap {"Stop", "Cont"} = {}

-----------------------------------------------------------------------------
(* The invariant, as a predicate of what a handler leaves *)

Matched(ts, c) ==
    \A g \in DOMAIN c : \A w \in DOMAIN c[g] :
        /\ c[g][w].proc = "stopped" => ts[c[g][w].task].status = "Paused"
        /\ c[g][w].proc = "running" => ts[c[g][w].task].status = "Running"

\* The inductive invariant.
SignalInv == SyncInv /\ Matched(tasks, children)

\* In a synchronized state the predicate is the invariant of the runs.
LEMMA MatchedIsProcessMatchesStatus ==
  ASSUME Sync, Matched(tasks, children)
  PROVE  ProcessMatchesStatus
<1> SUFFICES ASSUME NEW s \in Slots(children)
             PROVE  /\ ChildAt(children, s).proc = "stopped" =>
                          ChildAt(children, s).task \in WithStatus({"Paused"})
                    /\ ChildAt(children, s).proc = "running" =>
                          ChildAt(children, s).task \in WithStatus({"Running"})
  BY DEF ProcessMatchesStatus
<1>1. /\ s[1] \in DOMAIN children
      /\ s[2] \in DOMAIN children[s[1]]
      /\ ChildAt(children, s) = children[s[1]][s[2]]
  BY DEF Slots, ChildAt
<1>2. children[s[1]][s[2]].task \in DOMAIN tasks
  BY <1>1 DEF Sync, InStep, Pooled
<1>3. QED
  BY <1>1, <1>2 DEF Matched, WithStatus

-----------------------------------------------------------------------------
(* Steps that stop or continue nothing *)

OldOrIdle(ts) ==
    \A i \in DOMAIN ts :
        \/ ts[i].status \notin Active
        \/ i \in DOMAIN tasks /\ ts[i].status = tasks[i].status

Calm(c) ==
    \A g \in DOMAIN c : \A w \in DOMAIN c[g] :
        \/ c[g][w].proc \notin {"running", "stopped"}
        \/ /\ g \in DOMAIN children /\ w \in DOMAIN children[g]
           /\ c[g][w].task = children[g][w].task
           /\ c[g][w].proc = children[g][w].proc

LEMMA CalmMatched ==
  ASSUME Matched(tasks, children), Sync', OldOrIdle(tasks'), Calm(children')
  PROVE  Matched(tasks', children')
<1> SUFFICES ASSUME NEW g \in DOMAIN children', NEW w \in DOMAIN children'[g],
                    children'[g][w].proc \in {"running", "stopped"}
             PROVE  tasks'[children'[g][w].task].status
                      = IF children'[g][w].proc = "running" THEN "Running" ELSE "Paused"
  BY DEF Matched
<1>1. /\ g \in DOMAIN children /\ w \in DOMAIN children[g]
      /\ children'[g][w].task = children[g][w].task
      /\ children'[g][w].proc = children[g][w].proc
  BY DEF Calm
<1>2. /\ children'[g][w].task \in DOMAIN tasks'
      /\ tasks'[children'[g][w].task].status \in Active
  BY DEF Sync, InStep, Pooled
<1>3. tasks'[children'[g][w].task].status = tasks[children'[g][w].task].status
  BY <1>2 DEF OldOrIdle
<1>4. QED
  BY <1>1, <1>3 DEF Matched

LEMMA SameOldOrIdle == OldOrIdle(tasks)
  BY DEF OldOrIdle

LEMMA SameCalm == Calm(children)
  BY DEF Calm

\* A request that changes no process and makes no task active.
LEMMA TasksMatched ==
  ASSUME Matched(tasks, children), Sync', UNCHANGED children,
         UNCHANGED tasks \/ OldOrIdle(tasks')
  PROVE  Matched(tasks', children')
<1>1. OldOrIdle(tasks') /\ Calm(children')
  BY SameOldOrIdle, SameCalm
<1>2. QED
  BY <1>1, CalmMatched

LEMMA SetStatusOldOrIdle ==
  ASSUME StateType, NEW ids, NEW status, status \notin Active
  PROVE  OldOrIdle(SetStatus(ids, status))
  BY DEF StateType, TasksType, IsPartialFn, Task, SetStatus, OldOrIdle

\* SIGKILL, SIGINT and SIGTERM stop and continue nothing.
LEMMA SignalChildrenCalm ==
  ASSUME StateType, NEW ids, NEW signal, signal \notin {"Stop", "Cont"}
  PROVE  Calm(SignalChildren(children, ids, signal))
<1> SUFFICES ASSUME NEW g \in DOMAIN children, NEW w \in DOMAIN children[g]
             PROVE  \/ SignalChildren(children, ids, signal)[g][w].proc = "dying"
                    \/ /\ SignalChildren(children, ids, signal)[g][w].task
                             = children[g][w].task
                       /\ SignalChildren(children, ids, signal)[g][w].proc
                             = children[g][w].proc
  BY DEF Calm, SignalChildren
<1>1. children[g][w] \in Child
  BY DEF StateType, ChildrenType, IsPartialFn
<1>2. Signalled(children[g][w].proc, signal) \in {children[g][w].proc, "dying"}
  BY DEF Signalled
<1>3. QED
  BY <1>1, <1>2 DEF SignalChildren, Child

\* A failing save only kills.
LEMMA SignalChildrenKilled ==
  ASSUME NEW c, ChildrenType(c), NEW ids, NEW g \in DOMAIN c, NEW w \in DOMAIN c[g]
  PROVE  LET d == SignalChildren(c, ids, "Kill")
         IN  /\ d[g][w].task = c[g][w].task
             /\ d[g][w].proc \notin {"running", "stopped"} \/ d[g][w].proc = c[g][w].proc
<1>1. c[g][w] \in Child
  BY DEF ChildrenType, IsPartialFn
<1>2. Signalled(c[g][w].proc, "Kill") \in {c[g][w].proc, "dying"}
  BY DEF Signalled
<1>3. QED
  BY <1>1, <1>2 DEF SignalChildren, Child

LEMMA KilledMatched ==
  ASSUME NEW ts, NEW c, ChildrenType(c), Matched(ts, c), NEW ids
  PROVE  Matched(ts, SignalChildren(c, ids, "Kill"))
<1> DEFINE d == SignalChildren(c, ids, "Kill")
<1>1. \A g \in DOMAIN c : \A w \in DOMAIN c[g] :
        /\ d[g][w].task = c[g][w].task
        /\ d[g][w].proc \notin {"running", "stopped"} \/ d[g][w].proc = c[g][w].proc
  BY SignalChildrenKilled
<1>2. DOMAIN d = DOMAIN c /\ \A g \in DOMAIN c : DOMAIN d[g] = DOMAIN c[g]
  BY DEF SignalChildren
<1> HIDE DEF d
<1>3. Matched(ts, d)
  BY <1>1, <1>2 DEF Matched
<1>4. QED
  BY <1>3 DEF d

LEMMA SaveOrShutdownMatched ==
  ASSUME NEW ts, NEW gs, NEW c, ChildrenType(c), Matched(ts, c), SaveOrShutdown(ts, gs, c)
  PROVE  Matched(tasks', children')
<1>1. Matched(ts, SignalChildren(c, AllTaskIds(c), "Kill"))
  BY KilledMatched
<1>2. tasks' = ts /\ children' \in {c, SignalChildren(c, AllTaskIds(c), "Kill")}
  BY DEF SaveOrShutdown, InitiateShutdown
<1>3. QED
  BY <1>1, <1>2

LEMMA SaveOrShutdownCalm ==
  ASSUME StateType, NEW ts, NEW gs, NEW c, ChildrenType(c), Calm(c), SaveOrShutdown(ts, gs, c)
  PROVE  Calm(children')
<1> DEFINE d == SignalChildren(c, AllTaskIds(c), "Kill")
<1>1. \A g \in DOMAIN c : \A w \in DOMAIN c[g] :
        /\ d[g][w].task = c[g][w].task
        /\ d[g][w].proc \notin {"running", "stopped"} \/ d[g][w].proc = c[g][w].proc
  BY SignalChildrenKilled
<1>2. DOMAIN d = DOMAIN c /\ \A g \in DOMAIN c : DOMAIN d[g] = DOMAIN c[g]
  BY DEF SignalChildren
<1> HIDE DEF d
<1>3. Calm(d)
  BY <1>1, <1>2 DEF Calm
<1>4. children' \in {c, d}
  BY DEF SaveOrShutdown, InitiateShutdown, d
<1>5. QED
  BY <1>3, <1>4

-----------------------------------------------------------------------------
(* The task handler *)

\* Finishing tasks makes them inactive and takes their children away.
LEMMA HandleFinishedTasksMatched ==
  ASSUME StateType, Sync', Matched(tasks, children), HandleFinishedTasks
  PROVE  Matched(tasks', children')
<1>1. CASE NoChange
  BY <1>1 DEF NoChange
<1>2. CASE ~NoChange
  <2> DEFINE exit == [s \in Finished |-> ChildAt(children, s)]
             ended(i) == CHOOSE s \in Finished : exit[s].task = i
             ts == [i \in DOMAIN tasks |->
                      IF \E s \in Finished : exit[s].task = i
                      THEN [tasks[i] EXCEPT !.status = exit[ended(i)].proc]
                      ELSE tasks[i]]
             c == [g \in DOMAIN children |->
                      [w \in {w \in DOMAIN children[g] : << g, w >> \notin Finished} |->
                          children[g][w]]]
  <2>1. PICK gs : SaveOrShutdown(ts, gs, c)
    BY <1>2 DEF HandleFinishedTasks
  <2>2. ASSUME NEW i \in DOMAIN tasks
        PROVE  ts[i].status \notin Active \/ ts[i].status = tasks[i].status
    <3>1. tasks[i] \in Task
      BY DEF StateType, TasksType, IsPartialFn
    <3>2. CASE \E s \in Finished : exit[s].task = i
      <4>1. ended(i) \in Finished
        BY <3>2
      <4>2. exit[ended(i)].proc \in Exited
        BY <4>1 DEF Finished
      <4> HIDE DEF exit, ended
      <4>3. ts[i] = [tasks[i] EXCEPT !.status = exit[ended(i)].proc]
        BY <3>2
      <4>4. QED
        BY <3>1, <4>2, <4>3 DEF Task, Exited, Active
    <3>3. CASE ~\E s \in Finished : exit[s].task = i
      BY <3>3
    <3>4. QED
      BY <3>2, <3>3
  <2>3. OldOrIdle(ts)
    BY <2>2 DEF OldOrIdle
  <2>4. ChildrenType(c) /\ Calm(c)
    BY DEF StateType, ChildrenType, IsPartialFn, Calm
  <2>5. tasks' = ts
    BY <2>1 DEF SaveOrShutdown
  <2> HIDE DEF ts, c
  <2>6. QED
    BY <2>1, <2>3, <2>4, <2>5, SaveOrShutdownCalm, CalmMatched
<1>3. QED
  BY <1>1, <1>2

\* A new child runs, and its task is Running; the task had no other child.
LEMMA SpawnProcessMatched ==
  ASSUME StateType, Sync, Sync', Matched(tasks, children), NEW id \in TaskIds,
         SpawnProcess(id)
  PROVE  Matched(tasks', children')
<1>1. CASE NoChange
  BY <1>1 DEF NoChange
<1>2. ASSUME NEW gs, SaveOrShutdown(SetStatus({id}, "FailedToSpawn"), gs, children)
      PROVE  Matched(tasks', children')
  <2>1. OldOrIdle(tasks')
    BY <1>2, SetStatusOldOrIdle DEF Active, SaveOrShutdown
  <2>2. Calm(children')
    BY <1>2, SameCalm, SaveOrShutdownCalm DEF StateType
  <2>3. QED
    BY <2>1, <2>2, CalmMatched
<1>3. ASSUME Spawnable(id), NEW worker \in WorkerIds,
             IsNextGroupWorker(tasks[id].group, worker),
             SaveOrShutdown(SetStatus({id}, "Running"), groups,
                    AddChild(children, tasks[id].group, worker,
                             [task |-> id, proc |-> "running"]))
      PROVE  Matched(tasks', children')
  <2> DEFINE child == [task |-> id, proc |-> "running"]
             name == tasks[id].group
             ts == SetStatus({id}, "Running")
             c == AddChild(children, name, worker, child)
  <2>1. /\ id \in DOMAIN tasks /\ tasks[id].status \notin Active
        /\ tasks[id] \in Task
    BY <1>3 DEF Spawnable, Active, StateType, TasksType, IsPartialFn
  <2>2. name \in DOMAIN children
    BY <2>1 DEF Sync, InStep, Grouped
  <2>3. child \in Child /\ child.task = id /\ child.proc = "running"
    BY DEF Child, Alive
  <2>4. /\ DOMAIN c = DOMAIN children
        /\ \A g \in DOMAIN children : g # name => c[g] = children[g]
        /\ DOMAIN c[name] = DOMAIN children[name] \cup {worker}
        /\ c[name][worker] = child
        /\ \A w \in DOMAIN children[name] : w # worker => c[name][w] = children[name][w]
    <3> HIDE DEF child, name
    <3> QED BY <2>2 DEF AddChild
  <2>5. /\ DOMAIN ts = DOMAIN tasks
        /\ \A i \in DOMAIN tasks : i # id => ts[i] = tasks[i]
        /\ ts[id].status = "Running"
    BY <2>1 DEF SetStatus, Task
  <2>6. ChildrenType(c)
    <3> HIDE DEF child
    <3> QED BY <2>3 DEF StateType, ChildrenType, IsPartialFn, AddChild
  <2>7. \A g \in DOMAIN children : \A w \in DOMAIN children[g] :
            children[g][w].task \in DOMAIN tasks \ {id}
    BY <2>1 DEF Sync, InStep, Pooled
  <2>8. SaveOrShutdown(ts, groups, c)
    BY <1>3
  <2> HIDE DEF child, ts, c
  <2>9. ASSUME NEW g \in DOMAIN c, NEW w \in DOMAIN c[g]
        PROVE  /\ c[g][w].proc = "stopped" => ts[c[g][w].task].status = "Paused"
               /\ c[g][w].proc = "running" => ts[c[g][w].task].status = "Running"
    <3>1. CASE g = name /\ w = worker
      BY <2>3, <2>4, <2>5, <3>1
    <3>2. CASE ~(g = name /\ w = worker)
      <4>1. g \in DOMAIN children /\ w \in DOMAIN children[g] /\ c[g][w] = children[g][w]
        BY <2>4, <3>2
      <4>2. ts[c[g][w].task] = tasks[c[g][w].task]
        BY <2>5, <2>7, <4>1
      <4>3. QED
        BY <4>1, <4>2 DEF Matched
    <3>3. QED
      BY <3>1, <3>2
  <2>10. Matched(ts, c)
    BY <2>9 DEF Matched
  <2>11. QED
    BY <2>6, <2>8, <2>10, SaveOrShutdownMatched
<1>4. QED
  BY <1>1, <1>2, <1>3 DEF SpawnProcess

LEMMA TaskHandlerMatched ==
  ASSUME StateType, Sync, Sync', Matched(tasks, children), TaskHandlerStep
  PROVE  Matched(tasks', children')
<1>1. CASE HandleFinishedTasks
  BY <1>1, HandleFinishedTasksMatched
<1>2. CASE HandleShutdown
  BY <1>2 DEF HandleShutdown, NoChange
<1>3. CASE HandleGroupResets
  <2>1. OldOrIdle(tasks') /\ UNCHANGED children
    BY <1>3 DEF HandleGroupResets, OldOrIdle
  <2>2. QED
    BY <2>1, TasksMatched
<1>4. CASE EnqueueDelayedTasks
  <2>1. CASE NoChange
    BY <2>1 DEF NoChange
  <2>2. ASSUME NEW due, SaveOrShutdown(SetStatus(due, "Queued"), groups, children)
        PROVE  Matched(tasks', children')
    <3>1. OldOrIdle(tasks')
      BY <2>2, SetStatusOldOrIdle DEF Active, SaveOrShutdown
    <3>2. Calm(children')
      BY <2>2, SameCalm, SaveOrShutdownCalm DEF StateType
    <3>3. QED
      BY <3>1, <3>2, CalmMatched
  <2>3. QED
    BY <1>4, <2>1, <2>2 DEF EnqueueDelayedTasks
<1>5. CASE CheckFailedDependencies
  <2>1. OldOrIdle(tasks') /\ UNCHANGED children
    BY <1>5, SetStatusOldOrIdle DEF CheckFailedDependencies, Active
  <2>2. QED
    BY <2>1, TasksMatched
<1>6. CASE SpawnNew
  BY <1>6, SpawnProcessMatched DEF SpawnNew, NoChange
<1>7. QED
  BY <1>1, <1>2, <1>3, <1>4, <1>5, <1>6 DEF TaskHandlerStep

-----------------------------------------------------------------------------
(* Requests *)

\* Requests that touch no process: they make no task active.
LEMMA TaskRequestMatched ==
  ASSUME StateType, Sync', Matched(tasks, children),
         ClientAdd \/ ClientEnqueue \/ ClientStash \/ ClientRestart
           \/ ClientRemove \/ ClientClean \/ ClientParallel
  PROVE  Matched(tasks', children')
<1>1. \A ts, answer : SaveOrFailure(ts, groups, children, answer) =>
                        tasks' = ts /\ UNCHANGED children
  BY DEF SaveOrFailure
<1>2. Refuse => UNCHANGED << tasks, children >>
  BY DEF Refuse, NoChange
<1>3. ASSUME NEW ids
      PROVE  OldOrIdle(Without(ids))
  BY DEF Without, StateType, TasksType, IsPartialFn, Task, OldOrIdle
<1>4. UNCHANGED children /\ (UNCHANGED tasks \/ OldOrIdle(tasks'))
  <2>1. CASE ClientAdd
    <3>1. PICK status \in AddStatus : \E name, deps, priority, immediate :
            AddTask(name, status, deps, priority, immediate)
      BY <2>1, Zenon DEF ClientAdd
    <3>2. PICK name, deps, priority, immediate :
            AddTask(name, status, deps, priority, immediate)
      BY <3>1
    <3> DEFINE task == NewTask(name, status, deps, priority)
    <3>3. \/ Refuse
          \/ \E id \in TaskIds :
                SaveOrFailure(WithTask(id, task), groups, children, "Success")
      BY <3>2 DEF AddTask
    <3>4. task.status \notin Active
      BY DEF NewTask, AddStatus, WaitingStatus, Active
    <3> HIDE DEF task
    <3>5. ASSUME NEW id
          PROVE  OldOrIdle(WithTask(id, task))
      BY <3>4 DEF WithTask, StateType, TasksType, IsPartialFn, Task, OldOrIdle
    <3>6. QED
      BY <1>1, <1>2, <3>3, <3>5
  <2>2. CASE ClientEnqueue \/ ClientStash
    <3>1. PICK status \in AddStatus :
            \E ids : tasks' = SetStatus(ids, status) /\ UNCHANGED children
      BY <2>2, Zenon DEF ClientEnqueue, ClientStash, Enqueue, Stash, AddStatus
    <3>2. status \notin Active
      BY DEF AddStatus, WaitingStatus, Active
    <3>3. QED
      BY <3>1, <3>2, SetStatusOldOrIdle
  <2>3. CASE ClientRestart
    <3>1. PICK status \in {"Queued", "Stashed"} :
            \E ids, priority, immediate : RestartMultiple(ids, status, priority, immediate)
      BY <2>3, Zenon DEF ClientRestart
    <3>2. PICK ids, priority, immediate : RestartMultiple(ids, status, priority, immediate)
      BY <3>1
    <3>3. ASSUME NEW i \in DOMAIN tasks
          PROVE  tasks'[i].status \in {status, tasks[i].status}
      <4>1. tasks[i] \in Task
        BY DEF StateType, TasksType, IsPartialFn
      <4>2. \/ tasks'[i] = tasks[i]
            \/ \E p : tasks'[i] = [tasks[i] EXCEPT !.status = status, !.priority = p]
        BY <3>2 DEF RestartMultiple
      <4>3. QED
        BY <4>1, <4>2 DEF Task
    <3>4. DOMAIN tasks' = DOMAIN tasks /\ UNCHANGED children
      BY <3>2 DEF RestartMultiple
    <3>5. QED
      BY <3>3, <3>4 DEF OldOrIdle, Active
  <2>4. CASE ClientRemove \/ ClientClean
    <3>1. NoChange \/ \E ids, answer : SaveOrFailure(Without(ids), groups, children, answer)
      BY <2>4 DEF ClientRemove, ClientClean, Remove, Clean
    <3>2. QED
      BY <1>1, <1>3, <3>1 DEF NoChange
  <2>5. CASE ClientParallel
    BY <1>2, <2>5 DEF ClientParallel, SetParallelTasks
  <2>6. QED
    BY <2>1, <2>2, <2>3, <2>4, <2>5
<1>5. QED
  BY <1>4, TasksMatched

\* An edit locks and unlocks tasks that are not active.
LEMMA EditMatched ==
  ASSUME StateType, Sync', Matched(tasks, children), ClientEdit
  PROVE  Matched(tasks', children')
<1>1. ASSUME NEW ids, NEW i \in DOMAIN tasks
      PROVE  /\ Unlocked(ids)[i] \in Task
             /\ \/ Unlocked(ids)[i].status \notin Active
                \/ Unlocked(ids)[i].status = tasks[i].status
  <2>1. tasks[i] \in Task
    BY DEF StateType, TasksType, IsPartialFn
  <2>2. \/ Unlocked(ids)[i] = tasks[i]
        \/ Unlocked(ids)[i] = [tasks[i] EXCEPT !.status = tasks[i].previous]
    BY DEF Unlocked
  <2>3. QED
    BY <2>1, <2>2 DEF Task, Status, Editable, Active
<1>2. ASSUME NEW ids, EditRequest(ids)
      PROVE  UNCHANGED children /\ OldOrIdle(tasks')
  <2>1. PICK locked :
          tasks' = [i \in DOMAIN tasks |->
              IF i \in locked
              THEN [tasks[i] EXCEPT !.status = "Locked", !.previous = tasks[i].status]
              ELSE tasks[i]]
    BY <1>2 DEF EditRequest
  <2>2. ASSUME NEW i \in DOMAIN tasks
        PROVE  tasks'[i].status \in {"Locked", tasks[i].status}
    <3>1. tasks[i] \in Task
      BY DEF StateType, TasksType, IsPartialFn
    <3>2. \/ tasks'[i] = tasks[i]
          \/ tasks'[i] = [tasks[i] EXCEPT !.status = "Locked", !.previous = tasks[i].status]
      BY <2>1
    <3>3. QED
      BY <3>1, <3>2 DEF Task
  <2>3. DOMAIN tasks' = DOMAIN tasks
    BY <2>1
  <2>4. QED
    BY <1>2, <2>2, <2>3 DEF EditRequest, OldOrIdle, Active
<1>3. ASSUME NEW ids, EditRestore(ids)
      PROVE  UNCHANGED children /\ OldOrIdle(tasks')
  <2>1. OldOrIdle(Unlocked(ids))
    BY <1>1 DEF Unlocked, OldOrIdle
  <2>2. QED
    BY <1>3, <2>1 DEF EditRestore
<1>4. ASSUME NEW edits, Edit(edits), ~Refuse
      PROVE  UNCHANGED children /\ OldOrIdle(tasks')
  <2> DEFINE edited == [i \in DOMAIN tasks |->
          IF i \in DOMAIN edits
          THEN [Unlocked({i})[i] EXCEPT !.dependencies = edits[i].dependencies,
                                        !.priority = edits[i].priority]
          ELSE tasks[i]]
        dropped(d) ==
          {i \in DOMAIN edits : d \in tasks[i].dependencies \ edits[i].dependencies}
        gained(d) ==
          {i \in DOMAIN edits : d \in edits[i].dependencies \ tasks[i].dependencies}
        ts == [d \in DOMAIN tasks |->
                 [edited[d] EXCEPT !.dependents = (@ \ dropped(d)) \cup gained(d)]]
  <2>1. tasks' = ts /\ UNCHANGED children
    BY <1>4 DEF Edit, SaveOrFailure
  <2>2. ASSUME NEW i \in DOMAIN tasks
        PROVE  /\ DOMAIN edited[i] = {"group", "status", "previous", "dependencies",
                                      "dependents", "priority"}
               /\ edited[i].status \notin Active \/ edited[i].status = tasks[i].status
    <3>1. /\ tasks[i] \in Task /\ Unlocked({i})[i] \in Task
          /\ \/ Unlocked({i})[i].status \notin Active
             \/ Unlocked({i})[i].status = tasks[i].status
      BY <1>1 DEF StateType, TasksType, IsPartialFn
    <3>2. QED
      BY <3>1 DEF Task
  <2>3. ASSUME NEW i \in DOMAIN tasks
        PROVE  ts[i].status \notin Active \/ ts[i].status = tasks[i].status
    <3>1. /\ DOMAIN edited[i] = {"group", "status", "previous", "dependencies",
                                 "dependents", "priority"}
          /\ edited[i].status \notin Active \/ edited[i].status = tasks[i].status
      BY <2>2
    <3> HIDE DEF edited, dropped, gained
    <3>2. QED
      BY <3>1
  <2>4. DOMAIN ts = DOMAIN tasks
    OBVIOUS
  <2> HIDE DEF ts
  <2>5. QED
    BY <2>1, <2>3, <2>4 DEF OldOrIdle
<1>5. CASE Refuse
  BY <1>5 DEF Refuse, NoChange
<1>6. QED
  BY <1>2, <1>3, <1>4, <1>5, TasksMatched DEF ClientEdit

\* switch exchanges two tasks of which neither is active.
LEMMA SwitchMatched ==
  ASSUME StateType, Sync', Matched(tasks, children), ClientSwitch
  PROVE  Matched(tasks', children')
<1>1. PICK a \in TaskIds, b \in TaskIds : Switch(a, b)
  BY DEF ClientSwitch
<1>2. CASE Refuse
  BY <1>2 DEF Refuse, NoChange
<1>3. CASE ~Refuse
  <2> DEFINE sigma(i) == CASE i = a -> b [] i = b -> a [] OTHER -> i
             renamed(S) == {sigma(i) : i \in S}
             swapped == [i \in DOMAIN tasks |-> tasks[sigma(i)]]
             uniqueDependencies == OnlyOne(tasks[a].dependencies, tasks[b].dependencies)
             uniqueDependents == OnlyOne(tasks[a].dependents, tasks[b].dependents)
             ts == [i \in DOMAIN tasks |->
                [swapped[i] EXCEPT
                    !.dependents = IF i \in uniqueDependencies THEN renamed(@) ELSE @,
                    !.dependencies = IF i \in uniqueDependents THEN renamed(@) ELSE @]]
  <2>1. /\ {a, b} \subseteq DOMAIN tasks
        /\ tasks[a].status \notin Active /\ tasks[b].status \notin Active
        /\ tasks' = ts /\ UNCHANGED children
    BY <1>1, <1>3 DEF Switch, WithStatus, Editable, Active, SaveOrFailure
  <2>2. ASSUME NEW i \in DOMAIN tasks
        PROVE  /\ swapped[i] \in Task
               /\ swapped[i].status \notin Active \/ swapped[i].status = tasks[i].status
    <3>1. /\ sigma(i) \in DOMAIN tasks
          /\ i \notin {a, b} => sigma(i) = i
          /\ i \in {a, b} => sigma(i) \in {a, b}
      BY <2>1
    <3> HIDE DEF sigma
    <3>2. swapped[i] = tasks[sigma(i)] /\ tasks[sigma(i)] \in Task
      BY <3>1 DEF StateType, TasksType, IsPartialFn
    <3>3. QED
      BY <2>1, <3>1, <3>2
  <2>3. ASSUME NEW i \in DOMAIN tasks
        PROVE  ts[i].status \notin Active \/ ts[i].status = tasks[i].status
    <3>1. /\ DOMAIN swapped[i] = {"group", "status", "previous", "dependencies",
                                  "dependents", "priority"}
          /\ swapped[i].status \notin Active \/ swapped[i].status = tasks[i].status
      BY <2>2 DEF Task
    <3> HIDE DEF swapped, renamed, uniqueDependencies, uniqueDependents
    <3>2. QED
      BY <3>1
  <2>4. DOMAIN ts = DOMAIN tasks
    OBVIOUS
  <2> HIDE DEF ts
  <2>5. QED
    BY <2>1, <2>3, <2>4, TasksMatched DEF OldOrIdle
<1>4. QED
  BY <1>2, <1>3

\* A handler that signals children and saves, whatever it does to groups.
LEMMA SignallingMatched ==
  ASSUME StateType, NEW ts, NEW gs, NEW ids, NEW signal,
         SaveOrShutdown(ts, gs, SignalChildren(children, ids, signal)),
         Matched(ts, SignalChildren(children, ids, signal))
  PROVE  Matched(tasks', children')
<1>1. ChildrenType(SignalChildren(children, ids, signal))
  BY SignalChildrenType DEF StateType
<1>2. QED
  BY <1>1, SaveOrShutdownMatched

\* Signals that stop and continue nothing.
LEMMA HarmlessMatched ==
  ASSUME StateType, Sync', Matched(tasks, children), NEW gs, NEW ids, NEW signal,
         signal \notin {"Stop", "Cont"},
         SaveOrShutdown(tasks, gs, SignalChildren(children, ids, signal))
  PROVE  Matched(tasks', children')
<1>1. ChildrenType(SignalChildren(children, ids, signal))
  BY SignalChildrenType DEF StateType
<1>2. Calm(SignalChildren(children, ids, signal))
  BY SignalChildrenCalm
<1>3. Calm(children') /\ OldOrIdle(tasks')
  BY <1>1, <1>2, SaveOrShutdownCalm, SameOldOrIdle DEF SaveOrShutdown
<1>4. QED
  BY <1>3, CalmMatched

LEMMA InitiateShutdownMatched ==
  ASSUME StateType, Matched(tasks, children), NEW kind,
         InitiateShutdown(kind, tasks, groups, children), UNCHANGED tasks
  PROVE  Matched(tasks', children')
<1>1. Matched(tasks, SignalChildren(children, AllTaskIds(children), "Kill"))
  BY KilledMatched DEF StateType
<1>2. QED
  BY <1>1 DEF InitiateShutdown

\* A child of the given tasks is stopped or continued together with its task.
LEMMA StopMatched ==
  ASSUME StateType, Sync, Matched(tasks, children), NEW ids
  PROVE  Matched(SetStatus(ids, "Paused"), SignalChildren(children, ids, "Stop"))
<1> DEFINE ts == SetStatus(ids, "Paused")
           c == SignalChildren(children, ids, "Stop")
<1>1. ASSUME NEW g \in DOMAIN children, NEW w \in DOMAIN children[g]
      PROVE  /\ c[g][w].proc = "stopped" => ts[c[g][w].task].status = "Paused"
             /\ c[g][w].proc = "running" => ts[c[g][w].task].status = "Running"
  <2>1. /\ children[g][w] \in Child
        /\ children[g][w].task \in DOMAIN tasks
        /\ tasks[children[g][w].task] \in Task
    BY DEF StateType, ChildrenType, TasksType, IsPartialFn, Sync, InStep, Pooled
  <2>2. CASE children[g][w].task \in ids
    <3>1. /\ c[g][w] = [children[g][w] EXCEPT
                            !.proc = Signalled(children[g][w].proc, "Stop")]
          /\ ts[children[g][w].task] = [tasks[children[g][w].task] EXCEPT !.status = "Paused"]
      BY <2>1, <2>2 DEF SignalChildren, SetStatus
    <3>2. Signalled(children[g][w].proc, "Stop") # "running"
      BY DEF Signalled
    <3> HIDE DEF ts, c
    <3>3. QED
      BY <2>1, <3>1, <3>2 DEF Child, Task
  <2>3. CASE children[g][w].task \notin ids
    <3>1. c[g][w] = children[g][w] /\ ts[children[g][w].task] = tasks[children[g][w].task]
      BY <2>1, <2>3 DEF SignalChildren, SetStatus
    <3> HIDE DEF ts, c
    <3>2. QED
      BY <3>1 DEF Matched
  <2>4. QED
    BY <2>2, <2>3
<1>2. DOMAIN c = DOMAIN children /\ \A g \in DOMAIN children : DOMAIN c[g] = DOMAIN children[g]
  BY DEF SignalChildren
<1> HIDE DEF ts, c
<1>3. Matched(ts, c)
  BY <1>1, <1>2 DEF Matched
<1>4. QED
  BY <1>3 DEF ts, c

LEMMA ContinueMatched ==
  ASSUME StateType, Sync, Matched(tasks, children), NEW ids
  PROVE  Matched(SetStatus(ids, "Running"), SignalChildren(children, ids, "Cont"))
<1> DEFINE ts == SetStatus(ids, "Running")
           c == SignalChildren(children, ids, "Cont")
<1>1. ASSUME NEW g \in DOMAIN children, NEW w \in DOMAIN children[g]
      PROVE  /\ c[g][w].proc = "stopped" => ts[c[g][w].task].status = "Paused"
             /\ c[g][w].proc = "running" => ts[c[g][w].task].status = "Running"
  <2>1. /\ children[g][w] \in Child
        /\ children[g][w].task \in DOMAIN tasks
        /\ tasks[children[g][w].task] \in Task
    BY DEF StateType, ChildrenType, TasksType, IsPartialFn, Sync, InStep, Pooled
  <2>2. CASE children[g][w].task \in ids
    <3>1. /\ c[g][w] = [children[g][w] EXCEPT
                            !.proc = Signalled(children[g][w].proc, "Cont")]
          /\ ts[children[g][w].task] = [tasks[children[g][w].task] EXCEPT !.status = "Running"]
      BY <2>1, <2>2 DEF SignalChildren, SetStatus
    <3>2. Signalled(children[g][w].proc, "Cont") # "stopped"
      BY DEF Signalled
    <3> HIDE DEF ts, c
    <3>3. QED
      BY <2>1, <3>1, <3>2 DEF Child, Task
  <2>3. CASE children[g][w].task \notin ids
    <3>1. c[g][w] = children[g][w] /\ ts[children[g][w].task] = tasks[children[g][w].task]
      BY <2>1, <2>3 DEF SignalChildren, SetStatus
    <3> HIDE DEF ts, c
    <3>2. QED
      BY <3>1 DEF Matched
  <2>4. QED
    BY <2>2, <2>3
<1>2. DOMAIN c = DOMAIN children /\ \A g \in DOMAIN children : DOMAIN c[g] = DOMAIN children[g]
  BY DEF SignalChildren
<1> HIDE DEF ts, c
<1>3. Matched(ts, c)
  BY <1>1, <1>2 DEF Matched
<1>4. QED
  BY <1>3 DEF ts, c

LEMMA SignalRequestMatched ==
  ASSUME NoForeignSignals, StateType, Sync, Sync', Matched(tasks, children),
         ClientKill \/ ClientPause \/ ClientReset \/ ClientShutdown \/ ClientStart
           \/ StartStep
  PROVE  Matched(tasks', children')
<1>1. CASE NoChange
  BY <1>1 DEF NoChange
<1>2. CASE ClientKill
  <2>1. PICK signal \in Signals \cup {"Kill"} : \E sel : Kill(sel, signal)
    BY <1>2 DEF ClientKill
  <2>2. signal \notin {"Stop", "Cont"}
    BY DEF NoForeignSignals
  <2>3. QED
    BY <1>1, <2>1, <2>2, HarmlessMatched DEF Kill, Refuse
<1>3. CASE ClientPause
  <2>1. NoChange \/ \E ids, gs : SaveOrShutdown(SetStatus(ids, "Paused"), gs,
                                             SignalChildren(children, ids, "Stop"))
    BY <1>3 DEF ClientPause, Pause, Refuse
  <2>2. QED
    BY <1>1, <2>1, StopMatched, SignallingMatched
<1>4. CASE ClientReset
  BY <1>1, <1>4, HarmlessMatched DEF ClientReset, Reset, Refuse
<1>5. CASE ClientShutdown
  BY <1>5, InitiateShutdownMatched DEF ClientShutdown, Shutdown
<1>6. CASE ClientStart
  <2>1. NoChange \/ \E ids, gs : SaveOrShutdown(SetStatus(ids, "Running"), gs,
                                             SignalChildren(children, ids, "Cont"))
    BY <1>6 DEF ClientStart, StartTasks, StartSelection, ResumeTasks, Refuse
  <2>2. QED
    BY <1>1, <2>1, ContinueMatched, SignallingMatched
<1>7. CASE StartStep
  <2>1. CASE StartDone
    BY <2>1, SaveOrShutdownMatched DEF StartDone, StateType
  <2>2. ASSUME NEW id \in TaskIds, StartNext(id)
        PROVE  Matched(tasks', children')
    BY <2>2, ContinueMatched, SpawnProcessMatched DEF StartNext
  <2>3. QED
    BY <1>7, <2>1, <2>2 DEF StartStep
<1>8. QED
  BY <1>2, <1>3, <1>4, <1>5, <1>6, <1>7

\* Groups come and go with empty pools.
LEMMA GroupMatched ==
  ASSUME StateType, Sync', Matched(tasks, children), ClientGroup
  PROVE  Matched(tasks', children')
<1>1. CASE NoChange
  BY <1>1 DEF NoChange
<1>2. ASSUME NEW name, NEW n, GroupAdd(name, n), ~Refuse
      PROVE  Calm(children') /\ UNCHANGED tasks
  BY <1>2 DEF GroupAdd, SaveOrFailure, NewPool, Calm
<1>3. ASSUME NEW name, GroupRemove(name), ~Refuse
      PROVE  /\ UNCHANGED tasks
             /\ \/ Calm(children')
                \/ InitiateShutdown("Emergency", tasks, groups, children)
  BY <1>3 DEF GroupRemove, SaveOrFailure, Calm
<1>4. QED
  BY <1>1, <1>2, <1>3, SameOldOrIdle, CalmMatched, InitiateShutdownMatched
     DEF ClientGroup, Refuse

\* A process that exits neither runs nor is stopped; a restored daemon has no child.
LEMMA EnvironmentMatched ==
  ASSUME StateType, Sync', Matched(tasks, children),
         ProcessExit \/ StoppedProcessKilled \/ KilledProcessExit \/ Crash \/ Restart
           \/ UNCHANGED vars
  PROVE  Matched(tasks', children')
<1>1. ASSUME NEW from, NEW to \in Exited, ProcessChanges(from, to)
      PROVE  Matched(tasks', children')
  <2>1. PICK s \in Slots(children) :
          children' = [children EXCEPT ![s[1]][s[2]].proc = to]
    BY <1>1 DEF ProcessChanges
  <2>2. s[1] \in DOMAIN children /\ s[2] \in DOMAIN children[s[1]]
    BY DEF Slots
  <2>3. \A g \in DOMAIN children : \A w \in DOMAIN children[g] : children[g][w] \in Child
    BY DEF StateType, ChildrenType, IsPartialFn
  <2>4. Calm(children')
    BY <2>1, <2>2, <2>3 DEF Calm, Child, Exited
  <2>5. QED
    BY <1>1, <2>4, SameOldOrIdle, CalmMatched DEF ProcessChanges
<1>2. CASE Crash
  BY <1>2 DEF Crash, NoChange
<1>3. CASE Restart
  BY <1>3 DEF Restart, Matched
<1>4. CASE UNCHANGED vars
  BY <1>4 DEF vars
<1>5. QED
  BY <1>1, <1>2, <1>3, <1>4 DEF ProcessExit, StoppedProcessKilled, KilledProcessExit, Exited

-----------------------------------------------------------------------------
(* The theorem *)

LEMMA InitSignal == Init => SignalInv
<1>1. Init => Matched(tasks, children)
  BY DEF Init, Matched
<1>2. QED
  BY <1>1, InitSync DEF SignalInv

LEMMA NextSignal ==
  ASSUME NoForeignSignals, SignalInv, [Next]_vars
  PROVE  SignalInv'
<1>1. StateType /\ Sync /\ Matched(tasks, children)
  BY DEF SignalInv, SyncInv
<1>2. SyncInv' /\ Sync'
  BY NextSync DEF SignalInv, SyncInv
<1>3. Matched(tasks', children')
  BY <1>1, <1>2, TaskHandlerMatched, TaskRequestMatched, EditMatched, SwitchMatched,
     SignalRequestMatched, GroupMatched, EnvironmentMatched DEF Next, TaskHandlerStep
<1>4. QED
  BY <1>2, <1>3 DEF SignalInv

\* Without signals of the users' own, a stopped process is that of a Paused task and a
\* running one that of a Running task, so what pause stopped start can resume.
THEOREM StatusTellsProcess ==
  ASSUME NoForeignSignals
  PROVE  Spec => []ProcessMatchesStatus
<1>1. SignalInv => ProcessMatchesStatus
  BY MatchedIsProcessMatchesStatus DEF SignalInv, SyncInv
<1>2. SignalInv /\ [Next]_vars => SignalInv'
  BY NextSignal
<1>3. QED
  BY InitSignal, <1>1, <1>2, PTL DEF Spec


-----------------------------------------------------------------------------
(***************************************************************************)
(* If saving works and no client forces a start, no process is started     *)
(* once a shutdown has begun: NoSpawnDuringShutdown.                       *)
(*                                                                         *)
(* A shutdown begins where no iteration of the loop is under way, and      *)
(* handle_finished_tasks then leads to handle_shutdown only (Stopping), so    *)
(* the steps left are requests, exits and those two, and none of them adds *)
(* a child (Loses). A save that fails in the middle of an iteration, or a  *)
(* forced start after the request, does let a process start.               *)
(***************************************************************************)

\* Where the loop is once a shutdown has begun.
Stopping == shutdown # "None" => stage \in {"Free", "Shutdown"} \cup Down

\* The inductive invariant.
StoppingInv == SyncInv /\ stage # "Start" /\ Stopping

\* Every child of c is one of children.
Loses(c) ==
    \A g \in DOMAIN c : \A w \in DOMAIN c[g] :
        /\ g \in DOMAIN children /\ w \in DOMAIN children[g]
        /\ c[g][w].task = children[g][w].task

\* Losing children adds no task to those that have one.
LEMMA LosesTasks ==
  ASSUME Loses(children')
  PROVE  AllTaskIds(children') \subseteq AllTaskIds(children)
<1> SUFFICES ASSUME NEW s \in Slots(children')
             PROVE  ChildAt(children', s).task \in AllTaskIds(children)
  BY DEF AllTaskIds
<1>1. s[1] \in DOMAIN children' /\ s[2] \in DOMAIN children'[s[1]] /\ s[2] \in WorkerIds
  BY DEF Slots
<1>2. /\ s[1] \in DOMAIN children /\ s[2] \in DOMAIN children[s[1]]
      /\ children'[s[1]][s[2]].task = children[s[1]][s[2]].task
  BY <1>1 DEF Loses
<1>3. s = << s[1], s[2] >>
  BY DEF Slots
<1>4. s \in Slots(children)
  BY <1>1, <1>2, <1>3 DEF Slots
<1>5. QED
  BY <1>2, <1>4 DEF AllTaskIds, ChildAt

LEMMA SameLoses == Loses(children)
  BY DEF Loses

\* A signal moves no child.
LEMMA SignalChildrenLoses ==
  ASSUME StateType, NEW ids, NEW signal
  PROVE  Loses(SignalChildren(children, ids, signal))
<1>1. \A g \in DOMAIN children : \A w \in DOMAIN children[g] : children[g][w] \in Child
  BY DEF StateType, ChildrenType, IsPartialFn
<1>2. QED
  BY <1>1 DEF Loses, SignalChildren, Child

\* Saving that works leaves what the handler left.
LEMMA SavedLoses ==
  ASSUME ~SaveMayFail, NEW ts, NEW gs, NEW c, SaveOrShutdown(ts, gs, c)
  PROVE  children' = c /\ UNCHANGED shutdown
  BY DEF SaveOrShutdown

\* Requests come while no iteration is under way and do not begin one.
LEMMA RequestStages ==
  ASSUME \/ ClientAdd \/ ClientEnqueue \/ ClientStash \/ ClientKill \/ ClientPause
         \/ ClientStart \/ ClientRestart \/ ClientEdit \/ ClientSwitch \/ ClientRemove
         \/ ClientClean \/ ClientGroup \/ ClientParallel \/ ClientReset \/ ClientShutdown
  PROVE  stage = "Free" /\ stage' \in {"Free", "Panicked", "Start"}
<1>1. CASE ClientAdd \/ ClientEnqueue \/ ClientStash \/ ClientKill
  BY <1>1 DEF ClientAdd, ClientEnqueue, ClientStash, ClientKill, AddTask, Enqueue, Stash,
     Kill, Handle, Return, Refuse
<1>2. CASE ClientPause \/ ClientStart
  BY <1>2 DEF ClientPause, ClientStart, Pause, StartTasks, StartSelection, Handle, Return,
     Refuse
<1>3. CASE ClientRestart
  <2>1. PICK immediate : \E ids, status, priority :
                            RestartMultiple(ids, status, priority, immediate)
    BY <1>3, Zenon DEF ClientRestart
  <2>2. QED
    BY <2>1 DEF RestartMultiple, Handle
<1>4. CASE ClientEdit \/ ClientSwitch \/ ClientRemove \/ ClientClean
  BY <1>4 DEF ClientEdit, ClientSwitch, ClientRemove, ClientClean, EditRequest, EditRestore,
     Edit, Switch, Remove, Clean, Handle, Return, Refuse
<1>5. CASE ClientGroup \/ ClientParallel \/ ClientReset \/ ClientShutdown
  BY <1>5 DEF ClientGroup, ClientParallel, ClientReset, ClientShutdown, GroupAdd,
     GroupRemove, SetParallelTasks, Reset, Shutdown, Handle, Return, Refuse
<1>6. QED
  BY <1>1, <1>2, <1>3, <1>4, <1>5

-----------------------------------------------------------------------------
(* Steps that lose children at most *)

\* Requests that come after a shutdown has begun.
LEMMA RequestLoses ==
  ASSUME ~SaveMayFail, StateType, shutdown # "None",
         \/ ClientAdd \/ ClientEnqueue \/ ClientStash \/ ClientKill \/ ClientPause
         \/ ClientStart \/ ClientRestart \/ ClientEdit \/ ClientSwitch \/ ClientRemove
         \/ ClientClean \/ ClientGroup \/ ClientParallel \/ ClientReset \/ ClientShutdown
  PROVE  Loses(children')
<1>1. Refuse \/ NoChange => Loses(children')
  BY SameLoses DEF Refuse, NoChange
<1>2. ASSUME NEW ts, NEW gs, NEW ids, NEW signal,
             SaveOrShutdown(ts, gs, SignalChildren(children, ids, signal))
      PROVE  Loses(children')
  BY <1>2, SavedLoses, SignalChildrenLoses
<1>3. \A ts, gs, answer : SaveOrFailure(ts, gs, children, answer) => UNCHANGED children
  BY DEF SaveOrFailure
<1>4. CASE ClientKill \/ ClientReset
  BY <1>1, <1>2, <1>4 DEF ClientKill, ClientReset, Kill, Reset
<1>5. CASE ClientPause
  BY <1>1, <1>2, <1>5 DEF ClientPause, Pause
<1>6. CASE ClientStart
  BY <1>1, <1>2, <1>6 DEF ClientStart, StartTasks, StartSelection, ResumeTasks
<1>7. CASE ClientAdd \/ ClientEnqueue \/ ClientStash
  BY <1>1, <1>3, <1>7, SameLoses DEF ClientAdd, ClientEnqueue, ClientStash, AddTask, Enqueue,
     Stash
<1>8. CASE ClientRestart
  <2>1. UNCHANGED children
    BY <1>8, Zenon DEF ClientRestart, RestartMultiple
  <2>2. QED
    BY <2>1, SameLoses
<1>9. CASE ClientEdit \/ ClientSwitch
  BY <1>1, <1>3, <1>9, SameLoses DEF ClientEdit, EditRequest, EditRestore, Edit,
     ClientSwitch, Switch
<1>10. CASE ClientRemove \/ ClientClean \/ ClientParallel
  BY <1>1, <1>3, <1>10, SameLoses DEF ClientRemove, Remove, ClientClean, Clean,
     ClientParallel, SetParallelTasks
<1>11. CASE ClientGroup
  <2>1. \A name : Loses(NewPool(name))
    BY DEF Loses, NewPool
  <2>2. \A name : Loses([g \in DOMAIN children \ {name} |-> children[g]])
    BY DEF Loses
  <2>3. ASSUME NEW name, NEW n, GroupAdd(name, n)
        PROVE  Loses(children')
    BY <1>1, <2>1, <2>3 DEF GroupAdd, SaveOrFailure
  <2>4. ASSUME NEW name, GroupRemove(name)
        PROVE  Loses(children')
    BY <1>1, <2>2, <2>4, SameLoses DEF GroupRemove, SaveOrFailure, InitiateShutdown
  <2>5. QED
    BY <1>11, <2>3, <2>4 DEF ClientGroup
<1>12. CASE ClientShutdown
  BY <1>12 DEF ClientShutdown, Shutdown
<1>13. QED
  BY <1>4, <1>5, <1>6, <1>7, <1>8, <1>9, <1>10, <1>11, <1>12

\* handle_finished_tasks frees workers, and handle_shutdown changes nothing.
LEMMA TaskHandlerLoses ==
  ASSUME ~SaveMayFail, Stopping, shutdown # "None", TaskHandlerStep
  PROVE  Loses(children')
<1>1. HandleFinishedTasks \/ HandleShutdown
  BY DEF Stopping, Down, TaskHandlerStep, HandleGroupResets, EnqueueDelayedTasks,
     CheckFailedDependencies, SpawnNew
<1>2. CASE NoChange
  BY <1>2, SameLoses DEF NoChange
<1>3. CASE HandleFinishedTasks /\ ~NoChange
  <2> DEFINE c == [g \in DOMAIN children |->
                    [w \in {w \in DOMAIN children[g] : << g, w >> \notin Finished} |->
                        children[g][w]]]
  <2>1. \E ts, gs : SaveOrShutdown(ts, gs, c)
    BY <1>3 DEF HandleFinishedTasks
  <2>2. Loses(c)
    BY DEF Loses
  <2> HIDE DEF c
  <2>3. QED
    BY <2>1, <2>2, SavedLoses
<1>4. QED
  BY <1>1, <1>2, <1>3 DEF HandleShutdown

\* Processes change what they do, and crashes take effect at the next start.
LEMMA EnvironmentLoses ==
  ASSUME StateType,
         ProcessExit \/ StoppedProcessKilled \/ KilledProcessExit \/ Crash \/ UNCHANGED vars
  PROVE  Loses(children')
<1>1. ASSUME NEW from, NEW to, ProcessChanges(from, to)
      PROVE  Loses(children')
  <2>1. PICK s \in Slots(children) :
          children' = [children EXCEPT ![s[1]][s[2]].proc = to]
    BY <1>1 DEF ProcessChanges
  <2>2. \A g \in DOMAIN children : \A w \in DOMAIN children[g] : children[g][w] \in Child
    BY DEF StateType, ChildrenType, IsPartialFn
  <2>3. QED
    BY <2>1, <2>2 DEF Loses, Child
<1>2. CASE Crash \/ UNCHANGED vars
  BY <1>2, SameLoses DEF Crash, NoChange, vars
<1>3. QED
  BY <1>1, <1>2 DEF ProcessExit, StoppedProcessKilled, KilledProcessExit

-----------------------------------------------------------------------------
(* The theorem *)

LEMMA NextStopping ==
  ASSUME NoForcedStarts, ~SaveMayFail, StoppingInv, [Next]_vars
  PROVE  StoppingInv'
<1>1. SyncInv'
  BY NextSync DEF StoppingInv
<1>2. stage' # "Start" /\ ~StartStep
  BY NeverStarting DEF StoppingInv
<1>3. Stopping'
  <2>1. CASE HandleFinishedTasks
    BY <2>1 DEF HandleFinishedTasks, AfterFinished, Stopping
  <2>2. CASE HandleShutdown
    BY <2>2 DEF HandleShutdown, Stopping, Down
  <2>3. CASE HandleGroupResets \/ CheckFailedDependencies
    BY <2>3 DEF StoppingInv, Stopping, Down, HandleGroupResets, CheckFailedDependencies
  <2>4. CASE EnqueueDelayedTasks
    BY <2>4, SavedLoses DEF StoppingInv, Stopping, Down, EnqueueDelayedTasks, NoChange
  <2>5. CASE SpawnNew
    <3>1. UNCHANGED shutdown
      BY <2>5, SavedLoses DEF SpawnNew, SpawnProcess, NoChange
    <3>2. QED
      BY <2>5, <3>1 DEF StoppingInv, Stopping, Down, SpawnNew
  <2>6. CASE \/ ClientAdd \/ ClientEnqueue \/ ClientStash \/ ClientKill \/ ClientPause
             \/ ClientStart \/ ClientRestart \/ ClientEdit \/ ClientSwitch \/ ClientRemove
             \/ ClientClean \/ ClientGroup \/ ClientParallel \/ ClientReset
             \/ ClientShutdown
    BY <1>2, <2>6, RequestStages DEF Stopping, Down
  <2>7. CASE ProcessExit \/ StoppedProcessKilled \/ KilledProcessExit \/ Crash \/ Restart
               \/ UNCHANGED vars
    BY <2>7 DEF StoppingInv, Stopping, Down, ProcessExit, StoppedProcessKilled, KilledProcessExit,
       ProcessChanges, Crash, NoChange, Restart, vars
  <2>8. QED
    BY <1>2, <2>1, <2>2, <2>3, <2>4, <2>5, <2>6, <2>7 DEF Next
<1>4. QED
  BY <1>1, <1>2, <1>3 DEF StoppingInv

\* As long as saving works and clients force no start, a daemon that is shutting down
\* starts no process: whatever was queued, resumed, restarted or reset meanwhile.
THEOREM ShutdownStartsNothing ==
  ASSUME NoForcedStarts, ~SaveMayFail
  PROVE  Spec => NoSpawnDuringShutdown
<1>1. Init => StoppingInv
  BY InitSync DEF Init, StoppingInv, Stopping
<1>2. StoppingInv /\ [Next]_vars => StoppingInv'
  BY NextStopping
<1>3. StoppingInv /\ [Next]_vars =>
        [shutdown # "None" /\ restarts' = restarts =>
            AllTaskIds(children') \subseteq AllTaskIds(children)]_vars
  <2> SUFFICES ASSUME StoppingInv, [Next]_vars, shutdown # "None", restarts' = restarts
               PROVE  AllTaskIds(children') \subseteq AllTaskIds(children)
    OBVIOUS
  <2>1. StateType /\ ControlType /\ Stopping /\ ~StartStep
    BY NeverStarting DEF StoppingInv, SyncInv
  <2>2. ~Restart
    BY <2>1 DEF Restart, ControlType
  <2>3. Loses(children')
    BY <2>1, <2>2, RequestLoses, TaskHandlerLoses, EnvironmentLoses
       DEF Next, TaskHandlerStep
  <2>4. QED
    BY <2>3, LosesTasks
<1>4. QED
  BY <1>1, <1>2, <1>3, PTL DEF Spec, NoSpawnDuringShutdown

===============================================================================
