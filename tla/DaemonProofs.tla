---------------------------- MODULE DaemonProofs ----------------------------
(***************************************************************************)
(* Proofs about the daemon for every number of tasks, groups, clients and  *)
(* crashes.                                                                *)
(*                                                                         *)
(* First the types: TypeOK is inductive as it stands.  Then that tasks,    *)
(* groups and worker pools agree in every reachable state: proofs of       *)
(* ChildrenHaveTasks, OneChildPerTask, ActiveTasksHaveChildren and         *)
(* PoolsMatchGroups.  Their conjunction is inductive together with the     *)
(* types, but for start-up, which takes groups and tasks from the state    *)
(* file: the inductive invariant adds that the tasks of the file are in    *)
(* its groups.                                                             *)
(***************************************************************************)
EXTENDS DaemonProperties, TLAPS

-----------------------------------------------------------------------------
(* Types *)

TasksType(ts) == IsPartialFn(ts, TaskIds, Task)
GroupsType(gs) == IsPartialFn(gs, GroupNames, Group)
ChildrenType(c) ==
    /\ DOMAIN c \subseteq GroupNames
    /\ \A g \in DOMAIN c : IsPartialFn(c[g], WorkerIds, Child)
DiskType(d) ==
    /\ TasksType(d.tasks)
    /\ GroupsType(d.groups)
    /\ d = Image(d.tasks, d.groups)
ShutdownType(s) == s \in {"None", "Graceful", "Emergency"}

\* The part of TypeOK that saving and shutting down change.
StateType ==
    /\ TasksType(tasks)
    /\ GroupsType(groups)
    /\ ChildrenType(children)
    /\ DiskType(disk)
    /\ ShutdownType(shutdown)

\* The part of TypeOK that belongs to requests and stages.
ControlType ==
    /\ stage \in Stage
    /\ pending \subseteq TaskIds
    /\ requests \in 0 .. MaxRequests
    /\ response \in {"None", "Success", "Failure"}
    /\ restarts \in 0 .. MaxRestarts

\* TypeOK in the parts the proofs use.
LEMMA TypeOKParts == TypeOK <=> StateType /\ ControlType
  BY DEF TypeOK, StateType, ControlType, TasksType, GroupsType, ChildrenType,
         DiskType, ShutdownType

\* A new status of the right kind keeps the task list well typed (change_status).
LEMMA SetStatusType ==
  ASSUME TasksType(tasks), NEW ids, NEW status \in Status
  PROVE  TasksType(SetStatus(ids, status))
  BY DEF TasksType, SetStatus, IsPartialFn, Task

\* A new status of the right kind keeps the groups well typed and the same.
LEMMA SetGroupStatusType ==
  ASSUME NEW gs, GroupsType(gs), NEW names, NEW status \in GroupStatus
  PROVE  /\ GroupsType(SetGroupStatus(gs, names, status))
         /\ DOMAIN SetGroupStatus(gs, names, status) = DOMAIN gs
  BY DEF GroupsType, SetGroupStatus, IsPartialFn, Group

\* Pausing on failure keeps the groups well typed and the same (pause_on_failure).
LEMMA PausedOnFailureType ==
  ASSUME NEW gs, GroupsType(gs), NEW failed
  PROVE  /\ GroupsType(PausedOnFailure(gs, failed))
         /\ DOMAIN PausedOnFailure(gs, failed) = DOMAIN gs
  BY SetGroupStatusType DEF PausedOnFailure, GroupStatus

\* A signal changes nothing of the pools but what processes do.
LEMMA SignalChildrenType ==
  ASSUME NEW c, ChildrenType(c), NEW ids, NEW signal
  PROVE  ChildrenType(SignalChildren(c, ids, signal))
<1>1. \A proc \in Alive \cup Exited : Signalled(proc, signal) \in Alive \cup Exited
  BY DEF Signalled, Alive
<1>2. QED
  BY <1>1 DEF ChildrenType, SignalChildren, IsPartialFn, Child

\* initiate_shutdown keeps the types of what it is given.
LEMMA InitiateShutdownType ==
  ASSUME NEW ts, NEW gs, NEW c, NEW kind \in {"Graceful", "Emergency"},
         StateType, TasksType(ts), GroupsType(gs), ChildrenType(c),
         InitiateShutdown(kind, ts, gs, c)
  PROVE  ChildrenType(children') /\ DiskType(disk') /\ ShutdownType(shutdown')
<1>1. DiskType(Image(ts, gs))
  BY DEF DiskType, Image
<1>2. ChildrenType(SignalChildren(c, AllTaskIds(c), "Kill"))
  BY SignalChildrenType
<1>3. QED
  BY <1>1, <1>2 DEF InitiateShutdown, StateType, ShutdownType

\* A handler that ends in ok_or_shutdown!(save) keeps the types of what it leaves.
LEMMA SaveOrShutdownType ==
  ASSUME NEW ts, NEW gs, NEW c, StateType,
         TasksType(ts), GroupsType(gs), ChildrenType(c), SaveOrShutdown(ts, gs, c)
  PROVE  StateType'
<1>1. DiskType(Image(ts, gs))
  BY DEF DiskType, Image
<1>2. CASE disk' = Image(ts, gs) /\ children' = c /\ UNCHANGED shutdown
  BY <1>1, <1>2 DEF SaveOrShutdown, StateType
<1>3. CASE InitiateShutdown("Emergency", ts, gs, c)
  BY <1>3, InitiateShutdownType DEF SaveOrShutdown, StateType
<1>4. QED
  BY <1>2, <1>3 DEF SaveOrShutdown

\* So does one that ends in ok_or_save_state_failure!(save).
LEMMA SaveOrFailureType ==
  ASSUME NEW ts, NEW gs, NEW c, NEW answer \in {"Success", "Failure"}, StateType,
         TasksType(ts), GroupsType(gs), ChildrenType(c), SaveOrFailure(ts, gs, c, answer)
  PROVE  StateType' /\ response' \in {"Success", "Failure"}
<1>1. DiskType(Image(ts, gs))
  BY DEF DiskType, Image
<1>2. QED
  BY <1>1 DEF SaveOrFailure, StateType

-----------------------------------------------------------------------------
(* Types: the task handler *)

\* handle_finished_tasks gives tasks the results of exited processes.
LEMMA HandleFinishedTasksType ==
  ASSUME StateType, ControlType, HandleFinishedTasks
  PROVE  StateType' /\ ControlType'
<1>1. ControlType'
  BY DEF HandleFinishedTasks, AfterFinished, NoRequest, ControlType, Stage
<1>2. CASE Finished = {} /\ NoChange
  BY <1>1, <1>2 DEF NoChange, StateType
<1>3. CASE Finished # {}
  <2> DEFINE exit == [s \in Finished |-> ChildAt(children, s)]
             failed == {s \in Finished : exit[s].proc \in {"Failed", "Errored"}}
             ts == [i \in DOMAIN tasks |->
                        IF \E s \in Finished : exit[s].task = i
                        THEN [tasks[i] EXCEPT !.status =
                                exit[CHOOSE s \in Finished : exit[s].task = i].proc]
                        ELSE tasks[i]]
             gs == PausedOnFailure(groups, {tasks[exit[s].task].group : s \in failed})
             c == [g \in DOMAIN children |->
                        [w \in {w \in DOMAIN children[g] : << g, w >> \notin Finished} |->
                            children[g][w]]]
  <2>1. SaveOrShutdown(ts, gs, c)
    BY <1>3 DEF HandleFinishedTasks
  <2>2. \A s \in Finished : exit[s].proc \in Exited
    BY DEF Finished
  <2>3. TasksType(ts)
    <3>1. ASSUME NEW i \in DOMAIN tasks
          PROVE  ts[i] \in Task
      <4>1. tasks[i] \in Task
        BY DEF StateType, TasksType, IsPartialFn
      <4>2. CASE \E s \in Finished : exit[s].task = i
        <5>1. (CHOOSE s \in Finished : exit[s].task = i) \in Finished
          BY <4>2
        <5>2. exit[CHOOSE s \in Finished : exit[s].task = i].proc \in Status
          BY <5>1, <2>2 DEF Exited, Status, Results
        <5>3. ts[i] = [tasks[i] EXCEPT !.status =
                          exit[CHOOSE s \in Finished : exit[s].task = i].proc]
          BY <4>2
        <5> HIDE DEF exit, ts
        <5>4. QED
          BY <4>1, <5>2, <5>3 DEF Task
      <4>3. CASE ~\E s \in Finished : exit[s].task = i
        BY <4>1, <4>3
      <4>4. QED
        BY <4>2, <4>3
    <3>2. DOMAIN ts = DOMAIN tasks
      OBVIOUS
    <3>3. ts \in [DOMAIN tasks -> Task]
      <4> ts = [i \in DOMAIN tasks |-> ts[i]]
        OBVIOUS
      <4> HIDE DEF ts
      <4> QED
        BY <3>1
    <3> HIDE DEF ts
    <3>4. QED
      BY <3>2, <3>3 DEF StateType, TasksType, IsPartialFn
  <2>4. GroupsType(gs)
    BY PausedOnFailureType DEF StateType
  <2>5. ChildrenType(c)
    BY DEF StateType, ChildrenType, IsPartialFn
  <2> HIDE DEF ts, gs, c
  <2>6. QED
    BY <2>1, <2>3, <2>4, <2>5, <1>1, SaveOrShutdownType
<1>4. QED
  BY <1>2, <1>3 DEF HandleFinishedTasks

\* spawn_process, called by the loop and by requests.
LEMMA SpawnProcessType ==
  ASSUME StateType, NEW id \in TaskIds, SpawnProcess(id)
  PROVE  StateType'
<1>1. CASE ~Spawnable(id) /\ NoChange
  BY <1>1 DEF NoChange, StateType
<1>2. ASSUME NEW worker \in WorkerIds, Spawnable(id),
             SaveOrShutdown(SetStatus({id}, "Running"), groups,
                    AddChild(children, tasks[id].group, worker,
                             [task |-> id, proc |-> "running"]))
      PROVE  StateType'
  <2> DEFINE child == [task |-> id, proc |-> "running"]
             c == AddChild(children, tasks[id].group, worker, child)
  <2>1. TasksType(SetStatus({id}, "Running"))
    BY SetStatusType DEF StateType, Status, Active
  <2>2. child \in Child
    BY DEF Child, Alive
  <2>3. ChildrenType(c)
    <3> HIDE DEF child
    <3> QED
      BY <2>2 DEF StateType, ChildrenType, IsPartialFn, AddChild
  <2> HIDE DEF c
  <2>4. QED
    BY <1>2, <2>1, <2>3, SaveOrShutdownType DEF StateType, c
<1>3. CASE SaveOrShutdown(SetStatus({id}, "FailedToSpawn"),
                          PausedOnFailure(groups, {tasks[id].group}), children)
  <2>1. TasksType(SetStatus({id}, "FailedToSpawn"))
    BY SetStatusType DEF StateType, Status, Results
  <2>2. GroupsType(PausedOnFailure(groups, {tasks[id].group}))
    BY PausedOnFailureType DEF StateType
  <2>3. QED
    BY <1>3, <2>1, <2>2, SaveOrShutdownType DEF StateType
<1>4. QED
  BY <1>1, <1>2, <1>3 DEF SpawnProcess

\* The steps of the task handler keep every type.
LEMMA TaskHandlerType ==
  ASSUME StateType, ControlType, TaskHandlerStep
  PROVE  StateType' /\ ControlType'
<1>1. CASE HandleFinishedTasks
  BY <1>1, HandleFinishedTasksType
<1>2. CASE HandleShutdown
  BY <1>2 DEF HandleShutdown, NoChange, NoRequest, StateType, ControlType, Stage, Down
<1>3. CASE HandleGroupResets
  <2>1. ControlType'
    BY <1>3 DEF HandleGroupResets, NoRequest, ControlType, Stage
  <2>2. GroupsType(groups')
    BY <1>3, SetGroupStatusType DEF HandleGroupResets, StateType, GroupStatus
  <2>3. TasksType(tasks')
    BY <1>3 DEF HandleGroupResets, StateType, TasksType, IsPartialFn
  <2>4. QED
    BY <1>3, <2>1, <2>2, <2>3 DEF HandleGroupResets, StateType
<1>4. CASE EnqueueDelayedTasks
  <2>1. ControlType'
    BY <1>4 DEF EnqueueDelayedTasks, NoRequest, ControlType, Stage
  <2>2. \A due : TasksType(SetStatus(due, "Queued"))
    BY SetStatusType DEF StateType, Status, Editable
  <2>3. StateType'
    BY <1>4, <2>2, SaveOrShutdownType DEF EnqueueDelayedTasks, NoChange, StateType
  <2>4. QED
    BY <2>1, <2>3
<1>5. CASE CheckFailedDependencies
  <2>1. ControlType'
    BY <1>5 DEF CheckFailedDependencies, NoRequest, ControlType, Stage
  <2>2. \A ids : TasksType(SetStatus(ids, "DependencyFailed"))
    BY SetStatusType DEF StateType, Status, Results
  <2>3. QED
    BY <1>5, <2>1, <2>2 DEF CheckFailedDependencies, StateType
<1>6. CASE SpawnNew
  <2>1. ControlType'
    BY <1>6 DEF SpawnNew, NoRequest, ControlType, Stage
  <2>2. StateType'
    BY <1>6, SpawnProcessType DEF SpawnNew, NoChange, StateType
  <2>3. QED
    BY <2>1, <2>2
<1>7. QED
  BY <1>1, <1>2, <1>3, <1>4, <1>5, <1>6 DEF TaskHandlerStep

-----------------------------------------------------------------------------
(* Types: requests *)

\* Taking the mutex for a request counts it.
LEMMA HandleType ==
  ASSUME ControlType, NEW command, Handle(command)
  PROVE  requests' \in 0 .. MaxRequests /\ restarts' \in 0 .. MaxRestarts
  BY BoundsAssumption DEF Handle, ControlType

\* A request that only gives tasks a new status (enqueue, stash).
LEMMA RelabelType ==
  ASSUME StateType, ControlType, NEW command, Handle(command), NEW ids,
         NEW status \in Status, NEW answer \in {"Success", "Failure"},
         tasks' = SetStatus(ids, status), UNCHANGED << groups, children >>, Unsaved,
         Return(answer)
  PROVE  StateType' /\ ControlType'
<1>1. TasksType(tasks')
  BY SetStatusType DEF StateType
<1>2. QED
  BY <1>1, HandleType DEF Unsaved, Return, StateType, ControlType

\* A request that is refused.
LEMMA RefuseType ==
  ASSUME StateType, ControlType, NEW command, Handle(command), Refuse
  PROVE  StateType' /\ ControlType'
  BY HandleType DEF Refuse, NoChange, Return, StateType, ControlType

\* A request that ends in ok_or_shutdown!(save) and answers.
LEMMA SavingRequestType ==
  ASSUME StateType, ControlType, NEW command, Handle(command),
         NEW ts, NEW gs, NEW c, TasksType(ts), GroupsType(gs), ChildrenType(c),
         SaveOrShutdown(ts, gs, c), NEW answer \in {"Success", "Failure"}, Return(answer)
  PROVE  StateType' /\ ControlType'
<1>1. StateType'
  BY SaveOrShutdownType
<1>2. QED
  BY <1>1, HandleType DEF Return, ControlType

\* A request that ends in ok_or_save_state_failure!(save).
LEMMA SavedRequestType ==
  ASSUME StateType, ControlType, NEW command, Handle(command),
         NEW ts, NEW gs, NEW c, TasksType(ts), GroupsType(gs), ChildrenType(c),
         NEW answer \in {"Success", "Failure"}, SaveOrFailure(ts, gs, c, answer),
         UNCHANGED << stage, pending >>
  PROVE  StateType' /\ ControlType'
<1>1. StateType' /\ response' \in {"Success", "Failure"}
  BY SaveOrFailureType
<1>2. QED
  BY <1>1, HandleType DEF ControlType

\* Every answer is a success or a failure.
LEMMA AnswerType ==
  ASSUME NEW ids, NEW matching, NEW sel
  PROVE  /\ Answer(ids, matching) \in {"Success", "Failure"}
         /\ AnswerSelection(sel, matching) \in {"Success", "Failure"}
  BY DEF Answer, AnswerSelection

\* A new task is well typed, and so is the list with it.
LEMMA WithTaskType ==
  ASSUME StateType, NEW id \in TaskIds, NEW task \in Task
  PROVE  TasksType(WithTask(id, task))
  BY DEF StateType, TasksType, IsPartialFn, WithTask, Task

\* add keeps every type.
LEMMA AddTaskType ==
  ASSUME StateType, ControlType, NEW name \in GroupNames, NEW status \in Status,
         NEW deps \in SUBSET TaskIds, NEW priority \in Priorities,
         NEW immediate \in BOOLEAN, AddTask(name, status, deps, priority, immediate)
  PROVE  StateType' /\ ControlType'
<1>1. CASE Refuse
  BY <1>1, RefuseType DEF AddTask
<1>2. CASE ~Refuse
  <2>1. PICK id \in TaskIds :
          /\ SaveOrFailure(WithTask(id, NewTask(name, status, deps, priority)),
                           groups, children, "Success")
          /\ \/ /\ immediate /\ response' = "Success"
                /\ stage' = "Start"
                /\ pending' = {id}
             \/ /\ ~immediate \/ response' = "Failure"
                /\ UNCHANGED << stage, pending >>
    BY <1>2 DEF AddTask
  <2>2. NewTask(name, status, deps, priority) \in Task
    BY DEF NewTask, Task, Editable
  <2>3. StateType' /\ response' \in {"Success", "Failure"}
    BY <2>1, <2>2, WithTaskType, SaveOrFailureType DEF StateType
  <2>4. QED
    BY <2>1, <2>3, HandleType DEF AddTask, ControlType, Stage
<1>3. QED
  BY <1>1, <1>2

\* enqueue and stash keep every type.
LEMMA EnqueueStashType ==
  ASSUME StateType, ControlType, NEW sel \in TaskSelection, NEW status \in Status,
         Enqueue(sel, status) \/ Stash(sel, status)
  PROVE  StateType' /\ ControlType'
<1>1. CASE Enqueue(sel, status)
  BY <1>1, RelabelType, AnswerType DEF Enqueue
<1>2. CASE Stash(sel, status)
  BY <1>2, RelabelType, AnswerType DEF Stash
<1>3. QED
  BY <1>1, <1>2

\* kill keeps every type.
LEMMA KillType ==
  ASSUME StateType, ControlType, NEW sel \in TaskSelection, NEW signal, Kill(sel, signal)
  PROVE  StateType' /\ ControlType'
<1>1. CASE Refuse
  BY <1>1, RefuseType DEF Kill
<1>2. CASE ~Refuse
  <2> DEFINE gs == SetGroupStatus(groups, PausedByKill(sel), "Paused")
             c == SignalChildren(children, KilledBy(sel), signal)
  <2>1. GroupsType(gs) /\ ChildrenType(c)
    BY SetGroupStatusType, SignalChildrenType DEF StateType, GroupStatus
  <2>2. Handle("kill") /\ SaveOrShutdown(tasks, gs, c) /\ Return("Success")
    BY <1>2 DEF Kill
  <2> HIDE DEF gs, c
  <2>3. QED
    BY <2>1, <2>2, SavingRequestType DEF StateType
<1>3. QED
  BY <1>1, <1>2

\* pause keeps every type.
LEMMA PauseType ==
  ASSUME StateType, ControlType, NEW sel \in TaskSelection, NEW wait \in BOOLEAN,
         Pause(sel, wait)
  PROVE  StateType' /\ ControlType'
<1> DEFINE paused == {i \in PausedBy(sel, wait) : HasChild(i)}
           ts == SetStatus(paused, "Paused")
           gs == SetGroupStatus(groups, SelectedGroups(sel), "Paused")
           c == SignalChildren(children, paused, "Stop")
<1>1. CASE Refuse
  BY <1>1, RefuseType DEF Pause
<1>2. CASE stage' = "Panicked" /\ NoChange /\ UNCHANGED << pending, response >>
  BY <1>2, HandleType DEF Pause, NoChange, StateType, ControlType, Stage, Down
<1>3. CASE SaveOrShutdown(ts, gs, c) /\ Return("Success")
  <2>1. TasksType(ts) /\ GroupsType(gs) /\ ChildrenType(c)
    BY SetStatusType, SetGroupStatusType, SignalChildrenType
       DEF StateType, GroupStatus, Status, Active
  <2>2. Handle("pause")
    BY DEF Pause
  <2> HIDE DEF ts, gs, c
  <2>3. QED
    BY <1>3, <2>1, <2>2, SavingRequestType
<1>4. QED
  BY <1>1, <1>2, <1>3 DEF Pause

\* Resuming keeps every type.
LEMMA ResumeTasksType ==
  ASSUME StateType, NEW ids, NEW gs, GroupsType(gs), ResumeTasks(ids, gs)
  PROVE  StateType'
<1>1. TasksType(SetStatus(Continued(ids), "Running"))
  BY SetStatusType DEF StateType, Status, Active
<1>2. ChildrenType(SignalChildren(children, Continued(ids), "Cont"))
  BY SignalChildrenType DEF StateType
<1>3. QED
  BY <1>1, <1>2, SaveOrShutdownType DEF ResumeTasks

\* The two forms of start, and the starts one by one, keep every type.
LEMMA StartType ==
  ASSUME StateType, ControlType, ClientStart \/ StartStep
  PROVE  StateType' /\ ControlType'
<1>1. ASSUME NEW ids \in IdSets, StartTasks(ids)
      PROVE  StateType' /\ ControlType'
  BY <1>1, HandleType
     DEF StartTasks, NoChange, Return, StateType, ControlType, Stage, IdSets
<1>2. ASSUME NEW sel \in TaskSelection, StartSelection(sel)
      PROVE  StateType' /\ ControlType'
  <2>1. CASE Refuse
    BY <1>2, <2>1, RefuseType DEF StartSelection
  <2>2. CASE ~Refuse
    <3>1. GroupsType(SetGroupStatus(groups, SelectedGroups(sel), "Running"))
      BY SetGroupStatusType DEF StateType, GroupStatus
    <3>2. StateType' /\ Return("Success") /\ Handle("start_group")
      BY <1>2, <2>2, <3>1, ResumeTasksType DEF StartSelection
    <3>3. QED
      BY <3>2, HandleType DEF Return, ControlType
  <2>3. QED
    BY <2>1, <2>2
<1>3. ASSUME NEW id \in TaskIds, StartNext(id)
      PROVE  StateType' /\ ControlType'
  <2>1. TasksType(SetStatus(Continued({id}), "Running"))
    BY SetStatusType DEF StateType, Status, Active
  <2>2. ChildrenType(SignalChildren(children, Continued({id}), "Cont"))
    BY SignalChildrenType DEF StateType
  <2>3. StateType'
    BY <1>3, <2>1, <2>2, SpawnProcessType DEF StartNext, StateType
  <2>4. QED
    BY <1>3, <2>3 DEF StartNext, ControlType
<1>4. CASE StartDone
  <2>1. StateType'
    BY <1>4, SaveOrShutdownType DEF StartDone, StateType
  <2>2. QED
    BY <1>4, <2>1 DEF StartDone, NoRequest, ControlType, Stage
<1>5. QED
  BY <1>1, <1>2, <1>3, <1>4 DEF ClientStart, StartStep

\* restart keeps every type.
LEMMA RestartMultipleType ==
  ASSUME StateType, ControlType, NEW ids \in IdSets, NEW status \in Status,
         NEW priority \in [ids -> Priorities], NEW immediate \in BOOLEAN,
         RestartMultiple(ids, status, priority, immediate)
  PROVE  StateType' /\ ControlType'
<1>1. TasksType(tasks')
  <2>1. Restarted(ids) \subseteq ids
    BY DEF Restarted
  <2>2. QED
    BY <2>1 DEF RestartMultiple, StateType, TasksType, IsPartialFn, Task
<1>2. StateType'
  BY <1>1 DEF RestartMultiple, Unsaved, StateType
<1>3. stage' \in Stage /\ pending' \in SUBSET TaskIds
  BY DEF RestartMultiple, ControlType, Stage, IdSets
<1>4. response' \in {"Success", "Failure"} /\ Handle("restart")
  BY AnswerType DEF RestartMultiple
<1>5. QED
  BY <1>2, <1>3, <1>4, HandleType DEF ControlType

\* Unlocking tasks keeps the task list well typed.
LEMMA UnlockedType ==
  ASSUME StateType, NEW ids
  PROVE  TasksType(Unlocked(ids)) /\ DOMAIN Unlocked(ids) = DOMAIN tasks
  BY DEF StateType, TasksType, IsPartialFn, Unlocked, Task, Status

\* The three requests of an edit keep every type.
LEMMA EditType ==
  ASSUME StateType, ControlType, ClientEdit
  PROVE  StateType' /\ ControlType'
<1>1. ASSUME NEW ids \in IdSets, EditRequest(ids)
      PROVE  StateType' /\ ControlType'
  <2>1. TasksType(tasks')
    <3>1. PICK locked \in SUBSET (ids \cap WithStatus(Editable)) :
            tasks' = [i \in DOMAIN tasks |->
                IF i \in locked
                THEN [tasks[i] EXCEPT !.status = "Locked", !.previous = tasks[i].status]
                ELSE tasks[i]]
      BY <1>1 DEF EditRequest
    <3>2. \A i \in DOMAIN tasks :
            tasks[i] \in Task /\ (i \in locked => tasks[i].status \in Editable)
      BY DEF StateType, TasksType, IsPartialFn, WithStatus
    <3>3. \A i \in DOMAIN tasks : tasks'[i] \in Task
      BY <3>1, <3>2 DEF Task, Status
    <3>4. QED
      BY <3>1, <3>3 DEF StateType, TasksType, IsPartialFn
  <2>2. QED
    BY <1>1, <2>1, HandleType
       DEF EditRequest, Unsaved, Return, StateType, ControlType
<1>2. ASSUME NEW ids \in IdSets, EditRestore(ids)
      PROVE  StateType' /\ ControlType'
  BY <1>2, UnlockedType, HandleType
     DEF EditRestore, Unsaved, Return, StateType, ControlType
<1>3. ASSUME NEW ids \in IdSets, NEW edits \in [ids -> EditableTask], Edit(edits)
      PROVE  StateType' /\ ControlType'
  <2>1. CASE Refuse
    BY <1>3, <2>1, RefuseType DEF Edit
  <2>2. CASE ~Refuse
    <3> DEFINE edited == [i \in DOMAIN tasks |->
            IF i \in DOMAIN edits
            THEN [Unlocked({i})[i] EXCEPT !.dependencies = edits[i].dependencies,
                                          !.priority = edits[i].priority]
            ELSE tasks[i]]
          dropped(d) ==
            {i \in DOMAIN edits : d \in tasks[i].dependencies \ edits[i].dependencies}
          gained(d) ==
            {i \in DOMAIN edits : d \in edits[i].dependencies \ tasks[i].dependencies}
          ts == [d \in DOMAIN tasks |->
                   [edited[d] EXCEPT !.dependents = (@ \ dropped(d)) \cup gained(d)]]
    <3>1. /\ Handle("edit")
          /\ SaveOrFailure(ts, groups, children, "Success")
          /\ UNCHANGED << stage, pending >>
      BY <1>3, <2>2 DEF Edit
    <3>2. \A d : gained(d) \subseteq TaskIds
      BY DEF IdSets
    <3>3. ASSUME NEW i \in DOMAIN tasks
          PROVE  edited[i] \in Task
      <4>1. tasks[i] \in Task /\ Unlocked({i})[i] \in Task
        BY UnlockedType DEF StateType, TasksType, IsPartialFn
      <4>2. ASSUME i \in ids
            PROVE  edits[i].dependencies \in SUBSET TaskIds /\ edits[i].priority \in Priorities
        BY <4>2 DEF EditableTask
      <4>3. QED
        BY <4>1, <4>2 DEF Task
    <3>4. TasksType(ts)
      <4>1. \A d \in DOMAIN tasks : ts[d] \in Task
        <5> HIDE DEF edited, gained, dropped
        <5> QED BY <3>2, <3>3 DEF Task
      <4>2. QED
        <5> HIDE DEF edited, gained, dropped
        <5> QED BY <4>1 DEF StateType, TasksType, IsPartialFn
    <3> HIDE DEF ts
    <3>5. QED
      BY <3>1, <3>4, SavedRequestType DEF StateType
  <2>3. QED
    BY <2>1, <2>2
<1>4. QED
  BY <1>1, <1>2, <1>3 DEF ClientEdit

\* switch keeps every type.
LEMMA SwitchType ==
  ASSUME StateType, ControlType, NEW a \in TaskIds, NEW b \in TaskIds, Switch(a, b)
  PROVE  StateType' /\ ControlType'
<1>1. CASE Refuse
  BY <1>1, RefuseType DEF Switch
<1>2. CASE ~Refuse
  <2> DEFINE sigma(i) == CASE i = a -> b [] i = b -> a [] OTHER -> i
             renamed(S) == {sigma(i) : i \in S}
             swapped == [i \in DOMAIN tasks |-> tasks[sigma(i)]]
             deps == OnlyOne(tasks[a].dependencies, tasks[b].dependencies)
             dents == OnlyOne(tasks[a].dependents, tasks[b].dependents)
             ts == [i \in DOMAIN tasks |->
                     [swapped[i] EXCEPT
                        !.dependents = IF i \in deps THEN renamed(@) ELSE @,
                        !.dependencies = IF i \in dents THEN renamed(@) ELSE @]]
  <2>1. /\ Handle("switch")
        /\ {a, b} \subseteq DOMAIN tasks
        /\ SaveOrFailure(ts, groups, children, "Success")
        /\ UNCHANGED << stage, pending >>
    BY <1>2 DEF Switch, WithStatus
  <2>2. \A i \in TaskIds : sigma(i) \in TaskIds
    OBVIOUS
  <2>3. \A i \in DOMAIN tasks : sigma(i) \in DOMAIN tasks
    BY <2>1
  <2>4. \A S \in SUBSET TaskIds : renamed(S) \in SUBSET TaskIds
    <3> HIDE DEF sigma
    <3> QED BY <2>2
  <2>5. \A i \in DOMAIN tasks : swapped[i] \in Task
    <3> HIDE DEF sigma
    <3> QED BY <2>3 DEF StateType, TasksType, IsPartialFn
  <2> HIDE DEF swapped, renamed, deps, dents
  <2>6. \A i \in DOMAIN tasks : ts[i] \in Task
    BY <2>4, <2>5 DEF Task
  <2>7. TasksType(ts)
    BY <2>6 DEF StateType, TasksType, IsPartialFn
  <2> HIDE DEF ts
  <2>8. QED
    BY <2>1, <2>7, SavedRequestType DEF StateType
<1>3. QED
  BY <1>1, <1>2

\* Removing tasks keeps the task list well typed.
LEMMA WithoutType ==
  ASSUME StateType, NEW ids
  PROVE  TasksType(Without(ids))
  BY DEF StateType, TasksType, IsPartialFn, Without, Task

\* remove and clean keep every type.
LEMMA RemoveCleanType ==
  ASSUME StateType, ControlType, ClientRemove \/ ClientClean
  PROVE  StateType' /\ ControlType'
<1>1. ASSUME NEW ids \in IdSets, Remove(ids)
      PROVE  StateType' /\ ControlType'
  <2>1. CASE stage' = "Panicked" /\ NoChange /\ UNCHANGED << pending, response >>
    BY <1>1, <2>1, HandleType DEF Remove, NoChange, StateType, ControlType, Stage, Down
  <2>2. CASE /\ SaveOrFailure(Without(Removable(ids)), groups, children,
                              Answer(ids, Removable(ids)))
             /\ UNCHANGED << stage, pending >>
    BY <1>1, <2>2, WithoutType, AnswerType, SavedRequestType DEF Remove, StateType
  <2>3. QED
    BY <1>1, <2>1, <2>2 DEF Remove
<1>2. ASSUME NEW successful_only, NEW names, Clean(successful_only, names)
      PROVE  StateType' /\ ControlType'
  BY <1>2, WithoutType, SavedRequestType DEF Clean, StateType
<1>3. QED
  BY <1>1, <1>2 DEF ClientRemove, ClientClean

\* group and parallel keep every type.
LEMMA GroupType ==
  ASSUME StateType, ControlType, ClientGroup \/ ClientParallel
  PROVE  StateType' /\ ControlType'
<1>1. ASSUME NEW name \in GroupNames, NEW n \in Parallelism, GroupAdd(name, n)
      PROVE  StateType' /\ ControlType'
  <2>1. CASE Refuse
    BY <1>1, <2>1, RefuseType DEF GroupAdd
  <2>2. CASE ~Refuse
    <3> DEFINE gs == [g \in DOMAIN groups \cup {name} |->
                        IF g = name THEN [status |-> "Running", parallel_tasks |-> n]
                                    ELSE groups[g]]
    <3>1. GroupsType(gs)
      BY DEF StateType, GroupsType, IsPartialFn, Group, GroupStatus
    <3>2. ChildrenType(NewPool(name))
      BY DEF NewPool, StateType, ChildrenType, IsPartialFn
    <3>3. /\ Handle("group")
          /\ SaveOrFailure(tasks, gs, NewPool(name), "Success")
          /\ UNCHANGED << stage, pending >>
      BY <1>1, <2>2 DEF GroupAdd
    <3> HIDE DEF gs
    <3>4. QED
      BY <3>1, <3>2, <3>3, SavedRequestType DEF StateType
  <2>3. QED
    BY <2>1, <2>2
<1>2. ASSUME NEW name \in GroupNames, GroupRemove(name)
      PROVE  StateType' /\ ControlType'
  <2>1. CASE Refuse
    BY <1>2, <2>1, RefuseType DEF GroupRemove
  <2>2. ASSUME ~Refuse, name \in DOMAIN children /\ ~HasGroupActiveTasks(name)
        PROVE  StateType' /\ ControlType'
    <3> DEFINE gs == [g \in DOMAIN groups \ {name} |-> groups[g]]
               c == [g \in DOMAIN children \ {name} |-> children[g]]
    <3>1. GroupsType(gs) /\ ChildrenType(c)
      BY DEF StateType, GroupsType, ChildrenType, IsPartialFn
    <3>2. /\ Handle("group")
          /\ SaveOrFailure(tasks, gs, c, "Success")
          /\ UNCHANGED << stage, pending >>
      BY <1>2, <2>2 DEF GroupRemove
    <3> HIDE DEF gs, c
    <3>3. QED
      BY <3>1, <3>2, SavedRequestType DEF StateType
  <2>3. ASSUME ~Refuse, ~(name \in DOMAIN children /\ ~HasGroupActiveTasks(name))
        PROVE  StateType' /\ ControlType'
    <3>1. /\ Handle("group")
          /\ InitiateShutdown("Emergency", tasks, groups, children)
          /\ UNCHANGED << tasks, groups >>
          /\ Return("Failure")
      BY <1>2, <2>3 DEF GroupRemove
    <3>2. StateType'
      BY <3>1, InitiateShutdownType DEF StateType
    <3>3. QED
      BY <3>1, <3>2, HandleType DEF Return, ControlType
  <2>4. QED
    BY <2>1, <2>2, <2>3
<1>3. ASSUME NEW name \in GroupNames, NEW n \in Parallelism, SetParallelTasks(name, n)
      PROVE  StateType' /\ ControlType'
  <2>1. CASE Refuse
    BY <1>3, <2>1, RefuseType DEF SetParallelTasks
  <2>2. CASE ~Refuse
    <3>1. GroupsType(groups')
      BY <1>3, <2>2 DEF SetParallelTasks, StateType, GroupsType, IsPartialFn, Group
    <3>2. QED
      BY <1>3, <2>2, <3>1, HandleType
         DEF SetParallelTasks, Unsaved, Return, StateType, ControlType
  <2>3. QED
    BY <2>1, <2>2
<1>4. QED
  BY <1>1, <1>2, <1>3 DEF ClientGroup, ClientParallel

\* reset and shutdown keep every type.
LEMMA ResetShutdownType ==
  ASSUME StateType, ControlType, ClientReset \/ ClientShutdown
  PROVE  StateType' /\ ControlType'
<1>1. ASSUME NEW sel \in TaskSelection, Reset(sel)
      PROVE  StateType' /\ ControlType'
  <2>1. CASE Refuse
    BY <1>1, <2>1, RefuseType DEF Reset
  <2>2. CASE ~Refuse
    <3> DEFINE gs == SetGroupStatus(groups, SelectedGroups(sel), "Reset")
               c == SignalChildren(children, KilledBy(sel), "Kill")
    <3>1. GroupsType(gs) /\ ChildrenType(c)
      BY SetGroupStatusType, SignalChildrenType DEF StateType, GroupStatus
    <3>2. Handle("reset") /\ SaveOrShutdown(tasks, gs, c) /\ Return("Success")
      BY <1>1, <2>2 DEF Reset
    <3> HIDE DEF gs, c
    <3>3. QED
      BY <3>1, <3>2, SavingRequestType DEF StateType
  <2>3. QED
    BY <2>1, <2>2
<1>2. ASSUME NEW kind \in {"Graceful", "Emergency"}, Shutdown(kind)
      PROVE  StateType' /\ ControlType'
  BY <1>2, InitiateShutdownType DEF Shutdown, NoRequest, StateType, ControlType
<1>3. QED
  BY <1>1, <1>2 DEF ClientReset, ClientShutdown

-----------------------------------------------------------------------------
(* Types: environment and start-up *)

\* Whatever a process does, and a crash, keep every type.
LEMMA EnvironmentType ==
  ASSUME StateType, ControlType,
         ProcessExit \/ StoppedProcessKilled \/ KilledProcessExit \/ Crash
  PROVE  StateType' /\ ControlType'
<1>1. ASSUME NEW from, NEW to \in Exited, ProcessChanges(from, to)
      PROVE  StateType' /\ ControlType'
  <2>1. PICK s \in Slots(children) :
          children' = [children EXCEPT ![s[1]][s[2]].proc = to]
    BY <1>1 DEF ProcessChanges
  <2>2. s[1] \in DOMAIN children /\ s[2] \in DOMAIN children[s[1]]
    BY DEF Slots
  <2>3. children[s[1]][s[2]] \in Child
    BY <2>2 DEF StateType, ChildrenType, IsPartialFn
  <2>4. [children[s[1]][s[2]] EXCEPT !.proc = to] \in Child
    BY <2>3 DEF Child
  <2>5. ChildrenType(children')
    BY <2>1, <2>2, <2>4 DEF StateType, ChildrenType, IsPartialFn
  <2>6. QED
    BY <1>1, <2>5 DEF ProcessChanges, NoRequest, StateType, ControlType
<1>2. CASE Crash
  BY <1>2 DEF Crash, NoChange, NoRequest, StateType, ControlType, Stage, Down
<1>3. QED
  BY <1>1, <1>2
     DEF ProcessExit, StoppedProcessKilled, KilledProcessExit, Exited

\* Starting again from a well-typed state file gives a well-typed state.
LEMMA RestartType ==
  ASSUME StateType, ControlType, Restart
  PROVE  StateType' /\ ControlType'
<1> DEFINE ts == RestoredTasks(disk.tasks, disk.groups)
           gs == RestoredGroups(ts, disk.groups)
<1>1. TasksType(ts)
  <2>1. ASSUME NEW i \in DOMAIN disk.tasks
        PROVE  ts[i] \in Task
    <3>1. disk.tasks[i] \in Task /\ DOMAIN disk.tasks \subseteq TaskIds
      BY DEF StateType, DiskType, TasksType, IsPartialFn
    <3>2. RestoredStatus(disk.tasks[i].status) \in Status
      BY <3>1 DEF RestoredStatus, Task, Status, Results, Editable
    <3>3. Default \in GroupNames
      BY GroupsAssumption
    <3>4. QED
      BY <3>1, <3>2, <3>3 DEF RestoredTasks, Task
  <2>2. QED
    BY <2>1 DEF StateType, DiskType, TasksType, IsPartialFn, RestoredTasks
<1>2. GroupsType(gs)
  BY SetGroupStatusType DEF RestoredGroups, StateType, DiskType, GroupStatus
<1>3. DiskType(Image(ts, gs))
  BY <1>1, <1>2 DEF DiskType, Image
<1>4. ChildrenType([g \in DOMAIN gs |-> << >>])
  BY <1>2 DEF ChildrenType, GroupsType, IsPartialFn
<1> HIDE DEF ts, gs
<1>5. StateType'
  BY <1>1, <1>2, <1>3, <1>4 DEF Restart, StateType, ShutdownType, ts, gs
<1>6. ControlType'
  BY BoundsAssumption DEF Restart, ControlType, Stage
<1>7. QED
  BY <1>5, <1>6

-----------------------------------------------------------------------------
(* Type correctness *)

\* The daemon starts well typed.
LEMMA InitType == Init => TypeOK
<1> SUFFICES ASSUME Init PROVE TypeOK
  OBVIOUS
<1>1. TasksType(tasks)
  BY DEF Init, TasksType, IsPartialFn
<1>2. GroupsType(groups)
  BY GroupsAssumption, SettingsAssumption
     DEF Init, GroupsType, IsPartialFn, Group, GroupStatus
<1>3. ChildrenType(children)
  BY GroupsAssumption DEF Init, ChildrenType, IsPartialFn
<1>4. DiskType(disk)
  BY <1>1, <1>2 DEF Init, DiskType, Image
<1>5. QED
  BY <1>1, <1>2, <1>3, <1>4, TypeOKParts, BoundsAssumption
     DEF Init, StateType, ControlType, ShutdownType, Stage

\* Every step keeps every type.
LEMMA NextType == TypeOK /\ [Next]_vars => TypeOK'
<1> SUFFICES ASSUME StateType, ControlType, [Next]_vars
             PROVE  StateType' /\ ControlType'
  BY TypeOKParts DEF TypeOK, StateType, ControlType, TasksType, GroupsType, ChildrenType,
                     DiskType, ShutdownType
<1>1. CASE TaskHandlerStep
  BY <1>1, TaskHandlerType
<1>2. CASE ClientAdd
  BY <1>2, AddTaskType DEF ClientAdd, AddStatus, WaitingStatus, Status, Editable
<1>3. CASE ClientEnqueue \/ ClientStash
  BY <1>3, EnqueueStashType
     DEF ClientEnqueue, ClientStash, AddStatus, WaitingStatus, Status, Editable
<1>4. CASE ClientKill \/ ClientPause
  BY <1>4, KillType, PauseType DEF ClientKill, ClientPause
<1>5. CASE ClientStart \/ StartStep
  BY <1>5, StartType
<1>6. CASE ClientRestart
  BY <1>6, RestartMultipleType DEF ClientRestart, Status, Editable
<1>7. CASE ClientEdit
  BY <1>7, EditType
<1>8. CASE ClientSwitch
  BY <1>8, SwitchType DEF ClientSwitch
<1>9. CASE ClientRemove \/ ClientClean
  BY <1>9, RemoveCleanType
<1>10. CASE ClientGroup \/ ClientParallel
  BY <1>10, GroupType
<1>11. CASE ClientReset \/ ClientShutdown
  BY <1>11, ResetShutdownType
<1>12. CASE ProcessExit \/ StoppedProcessKilled \/ KilledProcessExit \/ Crash
  BY <1>12, EnvironmentType
<1>13. CASE Restart
  BY <1>13, RestartType
<1>14. CASE UNCHANGED vars
  BY <1>14 DEF vars, StateType, ControlType
<1>15. QED
  BY <1>1, <1>2, <1>3, <1>4, <1>5, <1>6, <1>7, <1>8, <1>9, <1>10, <1>11, <1>12,
     <1>13, <1>14 DEF Next, TaskHandlerStep

\* Every reachable state is well typed: handlers, the loop, processes, crashes and
\* restarts leave tasks, groups, pools and the state file in their domains.
THEOREM TypeCorrect == Spec => []TypeOK
  BY InitType, NextType, PTL DEF Spec

-----------------------------------------------------------------------------
(* The invariant, as a predicate of what a handler leaves *)

Pooled(ts, c) ==
    \A g \in DOMAIN c : \A w \in DOMAIN c[g] :
        /\ c[g][w].task \in DOMAIN ts
        /\ ts[c[g][w].task].status \in Active
        /\ ts[c[g][w].task].group = g

Unshared(c) ==
    \A g, h \in DOMAIN c : \A w \in DOMAIN c[g], v \in DOMAIN c[h] :
        c[g][w].task = c[h][v].task => g = h /\ w = v

Owned(ts, c) ==
    \A i \in DOMAIN ts : ts[i].status \in Active =>
        \E g \in DOMAIN c : \E w \in DOMAIN c[g] : c[g][w].task = i

Grouped(ts, gs) ==
    /\ Default \in DOMAIN gs
    /\ \A i \in DOMAIN ts : ts[i].group \in DOMAIN gs

InStep(ts, gs, c) ==
    Pooled(ts, c) /\ Unshared(c) /\ Owned(ts, c) /\ Grouped(ts, gs) /\ DOMAIN c = DOMAIN gs

Sync == InStep(tasks, groups, children) /\ Grouped(disk.tasks, disk.groups)

\* The inductive invariant.
SyncInv == StateType /\ ControlType /\ Sync

\* In a well-typed state the predicate is the conjunction of the four invariants.
LEMMA InStepIsSynchronized ==
  ASSUME StateType
  PROVE  InStep(tasks, groups, children) <=> Synchronized
<1>1. ASSUME NEW g \in DOMAIN children, NEW w \in DOMAIN children[g]
      PROVE  /\ << g, w >> \in Slots(children)
             /\ ChildAt(children, << g, w >>) = children[g][w]
             /\ << g, w >>[1] = g /\ << g, w >>[2] = w
  BY DEF Slots, ChildAt, StateType, ChildrenType, IsPartialFn
<1>2. ASSUME NEW s \in Slots(children)
      PROVE  /\ s[1] \in DOMAIN children
             /\ s[2] \in DOMAIN children[s[1]]
             /\ s = << s[1], s[2] >>
             /\ ChildAt(children, s) = children[s[1]][s[2]]
  BY DEF Slots, ChildAt
<1>3. Pooled(tasks, children) <=> ChildrenHaveTasks
  <2>1. ASSUME Pooled(tasks, children)
        PROVE  ChildrenHaveTasks
    BY <1>2, <2>1 DEF Pooled, ChildrenHaveTasks, IsRunning
  <2>2. ASSUME ChildrenHaveTasks, NEW g \in DOMAIN children, NEW w \in DOMAIN children[g]
        PROVE  /\ children[g][w].task \in DOMAIN tasks
               /\ tasks[children[g][w].task].status \in Active
               /\ tasks[children[g][w].task].group = g
    <3>1. LET id == ChildAt(children, << g, w >>).task
          IN  /\ id \in DOMAIN tasks
              /\ IsRunning(tasks[id])
              /\ tasks[id].group = << g, w >>[1]
      BY <1>1, <2>2 DEF ChildrenHaveTasks
    <3>2. QED
      BY <1>1, <3>1 DEF IsRunning
  <2>3. QED
    BY <2>1, <2>2 DEF Pooled
<1>4. Unshared(children) <=> OneChildPerTask
  <2>1. ASSUME Unshared(children), NEW s \in Slots(children), NEW t \in Slots(children),
               ChildAt(children, s).task = ChildAt(children, t).task
        PROVE  s = t
    <3>1. s[1] = t[1] /\ s[2] = t[2]
      BY <1>2, <2>1 DEF Unshared
    <3>2. QED
      BY <1>2, <3>1
  <2>2. ASSUME OneChildPerTask, NEW g \in DOMAIN children, NEW h \in DOMAIN children,
               NEW w \in DOMAIN children[g], NEW v \in DOMAIN children[h],
               children[g][w].task = children[h][v].task
        PROVE  g = h /\ w = v
    <3>1. << g, w >> = << h, v >>
      <4>1. /\ << g, w >> \in Slots(children) /\ << h, v >> \in Slots(children)
            /\ ChildAt(children, << g, w >>).task = ChildAt(children, << h, v >>).task
        BY <1>1, <2>2
      <4>2. QED
        BY <4>1, <2>2 DEF OneChildPerTask
    <3>2. QED
      BY <3>1
  <2>3. QED
    BY <2>1, <2>2 DEF Unshared, OneChildPerTask
<1>5. Owned(tasks, children) <=> ActiveTasksHaveChildren
  <2>1. ASSUME NEW i
        PROVE  HasChild(i) <=> \E g \in DOMAIN children :
                                  \E w \in DOMAIN children[g] : children[g][w].task = i
    <3>1. HasChild(i) <=> \E s \in Slots(children) : ChildAt(children, s).task = i
      BY DEF HasChild, AllTaskIds
    <3>2. ASSUME NEW s \in Slots(children), ChildAt(children, s).task = i
          PROVE  \E g \in DOMAIN children :
                    \E w \in DOMAIN children[g] : children[g][w].task = i
      <4>1. children[s[1]][s[2]].task = i
        BY <1>2, <3>2
      <4>2. QED
        BY <1>2, <4>1
    <3>3. ASSUME NEW g \in DOMAIN children, NEW w \in DOMAIN children[g],
                 children[g][w].task = i
          PROVE  \E s \in Slots(children) : ChildAt(children, s).task = i
      <4>1. << g, w >> \in Slots(children) /\ ChildAt(children, << g, w >>).task = i
        BY <1>1, <3>3
      <4>2. QED
        BY <4>1
    <3>4. QED
      BY <3>1, <3>2, <3>3
  <2>2. QED
    BY <2>1 DEF Owned, ActiveTasksHaveChildren, IsRunning
<1>6. QED
  BY <1>3, <1>4, <1>5 DEF InStep, Synchronized, Grouped, PoolsMatchGroups

-----------------------------------------------------------------------------
(* What leaves the invariant alone *)

\* Pools d with the children of c, whatever the processes do.
SameChildren(c, d) ==
    /\ DOMAIN d = DOMAIN c
    /\ \A g \in DOMAIN c :
          /\ DOMAIN d[g] = DOMAIN c[g]
          /\ \A w \in DOMAIN c[g] : d[g][w].task = c[g][w].task

\* A task list with the same active tasks as now, in groups that exist.
SameActive(ts) ==
    /\ \A i \in DOMAIN tasks : tasks[i].status \in Active =>
          /\ i \in DOMAIN ts
          /\ ts[i].status \in Active
          /\ ts[i].group = tasks[i].group
    /\ \A i \in DOMAIN ts :
          /\ ts[i].group \in DOMAIN groups
          /\ ts[i].status \in Active => i \in DOMAIN tasks /\ tasks[i].status \in Active

\* Signals keep every child where it is.
LEMMA SignalChildrenSame ==
  ASSUME NEW c, ChildrenType(c), NEW ids, NEW signal
  PROVE  SameChildren(c, SignalChildren(c, ids, signal))
  BY DEF ChildrenType, IsPartialFn, Child, SameChildren, SignalChildren

\* The invariant does not depend on what processes do.
LEMMA SameChildrenInStep ==
  ASSUME NEW ts, NEW gs, NEW c, NEW d, InStep(ts, gs, c), SameChildren(c, d)
  PROVE  InStep(ts, gs, d)
<1>1. Pooled(ts, d)
  BY DEF InStep, SameChildren, Pooled
<1>2. Unshared(d)
  BY DEF InStep, SameChildren, Unshared
<1>3. Owned(ts, d)
  BY DEF InStep, SameChildren, Owned
<1>4. QED
  BY <1>1, <1>2, <1>3 DEF InStep, SameChildren

\* Nor on tasks that are not active.
LEMMA SameActiveInStep ==
  ASSUME NEW ts, NEW gs, NEW c, InStep(tasks, groups, c), SameActive(ts),
         DOMAIN gs = DOMAIN groups
  PROVE  InStep(ts, gs, c)
<1>1. Pooled(ts, c)
  BY DEF InStep, SameActive, Pooled
<1>2. Owned(ts, c)
  BY DEF InStep, SameActive, Owned
<1>3. Grouped(ts, gs)
  BY DEF InStep, SameActive, Grouped
<1>4. QED
  BY <1>1, <1>2, <1>3 DEF InStep

\* The tasks as they are have the same active tasks.
LEMMA SameActiveNow ==
  ASSUME InStep(tasks, groups, children)
  PROVE  SameActive(tasks)
  BY DEF InStep, Grouped, SameActive

\* A status change within the active tasks, or within the others.
LEMMA SetStatusSameActive ==
  ASSUME StateType, InStep(tasks, groups, children), NEW ids, NEW status,
         \A i \in ids \cap DOMAIN tasks : tasks[i].status \in Active <=> status \in Active
  PROVE  SameActive(SetStatus(ids, status))
  BY DEF StateType, TasksType, IsPartialFn, Task, SetStatus, SameActive, InStep, Grouped

\* initiate_shutdown and failing saves only signal children.
LEMMA SaveOrShutdownInStep ==
  ASSUME NEW ts, NEW gs, NEW c, ChildrenType(c), InStep(ts, gs, c),
         Grouped(disk.tasks, disk.groups), SaveOrShutdown(ts, gs, c)
  PROVE  Sync'
<1>1. InStep(ts, gs, SignalChildren(c, AllTaskIds(c), "Kill"))
  BY SignalChildrenSame, SameChildrenInStep
<1>2. Grouped(Image(ts, gs).tasks, Image(ts, gs).groups)
  BY DEF InStep, Image
<1>3. InStep(ts, gs, children')
  BY <1>1 DEF SaveOrShutdown, InitiateShutdown
<1>4. disk' = Image(ts, gs) \/ disk' = disk
  BY DEF SaveOrShutdown, InitiateShutdown
<1>5. QED
  BY <1>2, <1>3, <1>4 DEF SaveOrShutdown, Sync

\* initiate_shutdown by itself.
LEMMA InitiateShutdownInStep ==
  ASSUME StateType, Sync, NEW kind, InitiateShutdown(kind, tasks, groups, children),
         UNCHANGED << tasks, groups >>
  PROVE  Sync'
<1>1. SameChildren(children, SignalChildren(children, AllTaskIds(children), "Kill"))
  BY SignalChildrenSame DEF StateType
<1>2. InStep(tasks, groups, SignalChildren(children, AllTaskIds(children), "Kill"))
  BY <1>1, SameChildrenInStep DEF Sync
<1>3. InStep(tasks', groups', children')
  BY <1>2 DEF InitiateShutdown, Sync
<1>4. disk' = Image(tasks, groups) \/ disk' = disk
  BY DEF InitiateShutdown
<1>5. QED
  BY <1>3, <1>4 DEF Sync, InStep, Image

\* A handler whose failed save is answered leaves its tasks, groups and pools.
LEMMA SaveOrFailureInStep ==
  ASSUME NEW ts, NEW gs, NEW c, NEW answer, InStep(ts, gs, c),
         Grouped(disk.tasks, disk.groups), SaveOrFailure(ts, gs, c, answer)
  PROVE  Sync'
<1>1. Grouped(Image(ts, gs).tasks, Image(ts, gs).groups)
  BY DEF InStep, Image
<1>2. disk' = Image(ts, gs) \/ disk' = disk
  BY DEF SaveOrFailure
<1>3. QED
  BY <1>1, <1>2 DEF SaveOrFailure, Sync

-----------------------------------------------------------------------------
(* The task handler *)

\* Finishing tasks takes their children out of the pools: no other task loses its
\* child, since no child is shared.
LEMMA HandleFinishedTasksSync ==
  ASSUME StateType, Sync, HandleFinishedTasks
  PROVE  Sync'
<1>1. CASE Finished = {} /\ NoChange
  BY <1>1 DEF NoChange, Sync
<1>2. CASE Finished # {}
  <2> DEFINE exit == [s \in Finished |-> ChildAt(children, s)]
             failed == {s \in Finished : exit[s].proc \in {"Failed", "Errored"}}
             ts == [i \in DOMAIN tasks |->
                        IF \E s \in Finished : exit[s].task = i
                        THEN [tasks[i] EXCEPT !.status =
                                exit[CHOOSE s \in Finished : exit[s].task = i].proc]
                        ELSE tasks[i]]
             gs == PausedOnFailure(groups, {tasks[exit[s].task].group : s \in failed})
             c == [g \in DOMAIN children |->
                        [w \in {w \in DOMAIN children[g] : << g, w >> \notin Finished} |->
                            children[g][w]]]
  <2>1. SaveOrShutdown(ts, gs, c)
    BY <1>2 DEF HandleFinishedTasks
  <2>2. ChildrenType(c)
    BY DEF StateType, ChildrenType, IsPartialFn
  <2>3. DOMAIN gs = DOMAIN groups
    BY PausedOnFailureType DEF StateType
  <2>4. ASSUME NEW i \in DOMAIN tasks
        PROVE  /\ ts[i].group = tasks[i].group
               /\ (\E s \in Finished : exit[s].task = i) => ts[i].status \notin Active
               /\ ~(\E s \in Finished : exit[s].task = i) => ts[i] = tasks[i]
    <3>1. tasks[i] \in Task
      BY DEF StateType, TasksType, IsPartialFn
    <3>2. CASE \E s \in Finished : exit[s].task = i
      <4>1. (CHOOSE s \in Finished : exit[s].task = i) \in Finished
        BY <3>2
      <4>2. exit[CHOOSE s \in Finished : exit[s].task = i].proc \in Exited
        BY <4>1 DEF Finished
      <4>3. ts[i] = [tasks[i] EXCEPT !.status =
                        exit[CHOOSE s \in Finished : exit[s].task = i].proc]
        BY <3>2
      <4> HIDE DEF exit, ts
      <4>4. QED
        BY <3>1, <3>2, <4>2, <4>3 DEF Task, Exited, Active
    <3>3. CASE ~\E s \in Finished : exit[s].task = i
      BY <3>3
    <3>4. QED
      BY <3>2, <3>3
  <2>5. \A s \in Finished : /\ s[1] \in DOMAIN children
                            /\ s[2] \in DOMAIN children[s[1]]
                            /\ s = << s[1], s[2] >>
                            /\ exit[s] = children[s[1]][s[2]]
    BY DEF Finished, Slots, ChildAt
  <2>6. \A g \in DOMAIN children : \A w \in DOMAIN children[g] :
            << g, w >> \in Finished =>
                \E s \in Finished : exit[s].task = children[g][w].task
    <3>1. ASSUME NEW g \in DOMAIN children, NEW w \in DOMAIN children[g],
                 << g, w >> \in Finished
          PROVE  exit[<< g, w >>].task = children[g][w].task
      BY <3>1 DEF ChildAt
    <3>2. QED
      BY <3>1
  <2>7. DOMAIN ts = DOMAIN tasks /\ DOMAIN c = DOMAIN children
    OBVIOUS
  <2>8. \A g \in DOMAIN c : /\ \A w : w \in DOMAIN c[g] <=>
                                    w \in DOMAIN children[g] /\ << g, w >> \notin Finished
                            /\ \A w \in DOMAIN c[g] : c[g][w] = children[g][w]
    OBVIOUS
  <2> HIDE DEF exit, ts, gs, c
  <2>9. Pooled(ts, c)
    <3> SUFFICES ASSUME NEW g \in DOMAIN c, NEW w \in DOMAIN c[g]
                 PROVE  /\ c[g][w].task \in DOMAIN ts
                        /\ ts[c[g][w].task].status \in Active
                        /\ ts[c[g][w].task].group = g
      BY DEF Pooled
    <3>1. /\ g \in DOMAIN children /\ w \in DOMAIN children[g]
          /\ << g, w >> \notin Finished /\ c[g][w] = children[g][w]
      BY <2>7, <2>8
    <3>2. /\ children[g][w].task \in DOMAIN tasks
          /\ tasks[children[g][w].task].status \in Active
          /\ tasks[children[g][w].task].group = g
      BY <3>1 DEF Sync, InStep, Pooled
    <3>3. ~\E s \in Finished : exit[s].task = children[g][w].task
      <4> SUFFICES ASSUME NEW s \in Finished, exit[s].task = children[g][w].task
                   PROVE  FALSE
        OBVIOUS
      <4>1. s[1] = g /\ s[2] = w
        BY <2>5, <3>1 DEF Sync, InStep, Unshared
      <4>2. QED
        BY <2>5, <3>1, <4>1
    <3>4. QED
      BY <2>4, <2>7, <3>1, <3>2, <3>3
  <2>10. Unshared(c)
    <3>1. \A g \in DOMAIN c : \A w \in DOMAIN c[g] :
            /\ g \in DOMAIN children
            /\ w \in DOMAIN children[g]
            /\ c[g][w] = children[g][w]
      BY <2>7, <2>8
    <3>2. QED
      BY <3>1 DEF Sync, InStep, Unshared
  <2>11. Owned(ts, c)
    <3> SUFFICES ASSUME NEW i \in DOMAIN ts, ts[i].status \in Active
                 PROVE  \E g \in DOMAIN c : \E w \in DOMAIN c[g] : c[g][w].task = i
      BY DEF Owned
    <3>1. (~\E s \in Finished : exit[s].task = i) /\ tasks[i].status \in Active
      BY <2>4, <2>7
    <3>2. PICK g \in DOMAIN children : \E w \in DOMAIN children[g] : children[g][w].task = i
      BY <2>7, <3>1 DEF Sync, InStep, Owned
    <3>3. PICK w \in DOMAIN children[g] : children[g][w].task = i
      BY <3>2
    <3>4. << g, w >> \notin Finished
      BY <2>6, <3>1, <3>3
    <3>5. QED
      BY <2>7, <2>8, <3>3, <3>4
  <2>12. Grouped(ts, gs)
    BY <2>3, <2>4, <2>7 DEF Sync, InStep, Grouped
  <2>13. QED
    BY <2>1, <2>2, <2>3, <2>7, <2>9, <2>10, <2>11, <2>12, SaveOrShutdownInStep
       DEF Sync, InStep
<1>3. QED
  BY <1>1, <1>2 DEF HandleFinishedTasks

\* A task is started only while it has no child, because those with a child are
\* active: it gets its first.
LEMMA SpawnProcessSync ==
  ASSUME StateType, Sync, NEW id \in TaskIds, SpawnProcess(id)
  PROVE  Sync'
<1>1. CASE ~Spawnable(id) /\ NoChange
  BY <1>1 DEF NoChange, Sync
<1>2. ASSUME NEW worker \in WorkerIds, Spawnable(id),
             IsNextGroupWorker(tasks[id].group, worker),
             SaveOrShutdown(SetStatus({id}, "Running"), groups,
                    AddChild(children, tasks[id].group, worker,
                             [task |-> id, proc |-> "running"]))
      PROVE  Sync'
  <2> DEFINE child == [task |-> id, proc |-> "running"]
             name == tasks[id].group
             ts == SetStatus({id}, "Running")
             c == AddChild(children, name, worker, child)
  <2>1. /\ id \in DOMAIN tasks /\ tasks[id].status \notin Active
        /\ tasks[id] \in Task
    BY <1>2 DEF Spawnable, Active, StateType, TasksType, IsPartialFn
  <2>2. name \in DOMAIN children /\ name \in DOMAIN groups
    BY <2>1 DEF Sync, InStep, Grouped
  <2>3. child \in Child /\ child.task = id
    BY DEF Child, Alive
  <2>4. worker \notin DOMAIN children[name]
    BY <1>2 DEF IsNextGroupWorker
  <2>5. /\ DOMAIN c = DOMAIN children
        /\ \A g \in DOMAIN children : g # name => c[g] = children[g]
        /\ DOMAIN c[name] = DOMAIN children[name] \cup {worker}
        /\ c[name][worker] = child
        /\ \A w \in DOMAIN children[name] : c[name][w] = children[name][w]
    <3> HIDE DEF child, name
    <3> QED BY <2>2, <2>4 DEF AddChild
  <2>6. /\ DOMAIN ts = DOMAIN tasks
        /\ \A i \in DOMAIN tasks : i # id => ts[i] = tasks[i]
        /\ ts[id].status = "Running" /\ ts[id].group = name
    BY <2>1 DEF SetStatus, Task
  <2>7. ChildrenType(c)
    <3> HIDE DEF child
    <3> QED BY <2>3 DEF StateType, ChildrenType, IsPartialFn, AddChild
  <2>8. SaveOrShutdown(ts, groups, c)
    BY <1>2
  <2>9. \A g \in DOMAIN children : \A w \in DOMAIN children[g] :
            children[g][w].task # id
    BY <2>1 DEF Sync, InStep, Pooled
  <2> HIDE DEF child, ts, c
  <2>10. Pooled(ts, c)
    <3> SUFFICES ASSUME NEW g \in DOMAIN c, NEW w \in DOMAIN c[g]
                 PROVE  /\ c[g][w].task \in DOMAIN ts
                        /\ ts[c[g][w].task].status \in Active
                        /\ ts[c[g][w].task].group = g
      BY DEF Pooled
    <3>1. CASE g = name /\ w = worker
      BY <2>1, <2>3, <2>5, <2>6, <3>1 DEF Active
    <3>2. CASE ~(g = name /\ w = worker)
      <4>1. w \in DOMAIN children[g] /\ c[g][w] = children[g][w]
        BY <2>5, <3>2
      <4>2. QED
        BY <2>5, <2>6, <2>9, <4>1 DEF Sync, InStep, Pooled
    <3>3. QED
      BY <3>1, <3>2
  <2>11. Unshared(c)
    <3>1. \A g \in DOMAIN c : \A w \in DOMAIN c[g] :
            \/ g = name /\ w = worker /\ c[g][w].task = id
            \/ /\ g \in DOMAIN children /\ w \in DOMAIN children[g]
               /\ c[g][w] = children[g][w] /\ c[g][w].task # id
      BY <2>3, <2>5, <2>9
    <3>2. QED
      BY <3>1 DEF Sync, InStep, Unshared
  <2>12. Owned(ts, c)
    <3> SUFFICES ASSUME NEW i \in DOMAIN ts, ts[i].status \in Active
                 PROVE  \E g \in DOMAIN c : \E w \in DOMAIN c[g] : c[g][w].task = i
      BY DEF Owned
    <3>1. CASE i = id
      BY <2>2, <2>3, <2>5, <3>1
    <3>2. CASE i # id
      <4>1. PICK g \in DOMAIN children :
              \E w \in DOMAIN children[g] : children[g][w].task = i
        BY <2>6, <3>2 DEF Sync, InStep, Owned
      <4>2. PICK w \in DOMAIN children[g] : children[g][w].task = i
        BY <4>1
      <4>3. w \in DOMAIN c[g] /\ c[g][w] = children[g][w]
        BY <2>5
      <4>4. QED
        BY <2>5, <4>2, <4>3
    <3>3. QED
      BY <3>1, <3>2
  <2>13. Grouped(ts, groups)
    BY <2>2, <2>6 DEF Sync, InStep, Grouped
  <2>14. QED
    BY <2>5, <2>7, <2>8, <2>10, <2>11, <2>12, <2>13, SaveOrShutdownInStep
       DEF Sync, InStep
<1>3. ASSUME Spawnable(id),
             SaveOrShutdown(SetStatus({id}, "FailedToSpawn"),
                            PausedOnFailure(groups, {tasks[id].group}), children)
      PROVE  Sync'
  <2>1. \A i \in {id} \cap DOMAIN tasks :
            tasks[i].status \in Active <=> "FailedToSpawn" \in Active
    BY <1>3 DEF Spawnable, Active
  <2>2. SameActive(SetStatus({id}, "FailedToSpawn"))
    BY <2>1, SetStatusSameActive DEF Sync
  <2>3. DOMAIN PausedOnFailure(groups, {tasks[id].group}) = DOMAIN groups
    BY PausedOnFailureType DEF StateType
  <2>4. InStep(SetStatus({id}, "FailedToSpawn"),
               PausedOnFailure(groups, {tasks[id].group}), children)
    BY <2>2, <2>3, SameActiveInStep DEF Sync
  <2>5. QED
    BY <1>3, <2>4, SaveOrShutdownInStep DEF Sync, StateType
<1>4. QED
  BY <1>1, <1>2, <1>3 DEF SpawnProcess

\* A completed reset removes no active task: its group has no child left.
LEMMA HandleGroupResetsSync ==
  ASSUME StateType, Sync, HandleGroupResets
  PROVE  Sync'
<1> DEFINE reset == {g \in DOMAIN groups :
                        groups[g].status = "Reset" /\ ~HasGroupActiveTasks(g)}
<1>1. /\ tasks' = [i \in DOMAIN tasks \ ResetTasks(reset) |-> tasks[i]]
      /\ groups' = SetGroupStatus(groups, reset, "Running")
      /\ UNCHANGED << children, disk >>
  BY DEF HandleGroupResets
<1>2. \A i \in DOMAIN tasks : tasks[i].status \in Active => i \notin ResetTasks(reset)
  <2> SUFFICES ASSUME NEW i \in DOMAIN tasks, tasks[i].status \in Active
               PROVE  tasks[i].group \notin reset
    BY DEF ResetTasks
  <2>1. PICK g \in DOMAIN children : \E w \in DOMAIN children[g] : children[g][w].task = i
    BY DEF Sync, InStep, Owned
  <2>2. tasks[i].group = g /\ DOMAIN children[g] # {}
    BY <2>1 DEF Sync, InStep, Pooled
  <2>3. QED
    BY <2>2 DEF HasGroupActiveTasks
<1>3. SameActive(tasks')
  <2> HIDE DEF reset
  <2> QED
    BY <1>1, <1>2 DEF SameActive, Sync, InStep, Grouped
<1>4. DOMAIN groups' = DOMAIN groups
  BY <1>1, SetGroupStatusType DEF StateType, GroupStatus
<1>5. InStep(tasks', groups', children)
  BY <1>3, <1>4, SameActiveInStep DEF Sync
<1>6. QED
  BY <1>1, <1>5 DEF Sync

\* The steps of the task handler keep tasks, groups and pools in step.
LEMMA TaskHandlerSync ==
  ASSUME StateType, Sync, TaskHandlerStep
  PROVE  Sync'
<1>1. CASE HandleFinishedTasks
  BY <1>1, HandleFinishedTasksSync
<1>2. CASE HandleShutdown
  BY <1>2 DEF HandleShutdown, NoChange, Sync
<1>3. CASE HandleGroupResets
  BY <1>3, HandleGroupResetsSync
<1>4. CASE EnqueueDelayedTasks
  <2>1. CASE NoChange
    BY <2>1 DEF NoChange, Sync
  <2>2. ASSUME NEW due \in SUBSET {i \in DOMAIN tasks : tasks[i].status = "Delayed"},
               SaveOrShutdown(SetStatus(due, "Queued"), groups, children)
        PROVE  Sync'
    <3>1. SameActive(SetStatus(due, "Queued"))
      BY SetStatusSameActive DEF Sync, Active
    <3>2. QED
      BY <2>2, <3>1, SameActiveInStep, SaveOrShutdownInStep DEF Sync, StateType
  <2>3. QED
    BY <1>4, <2>1, <2>2 DEF EnqueueDelayedTasks
<1>5. CASE CheckFailedDependencies
  <2> DEFINE ids == {i \in DOMAIN tasks : /\ tasks[i].status = "Queued"
                                          /\ HasFailedDependency(i)
                                          /\ ~GroupIsPaused(tasks[i].group)}
  <2>1. SameActive(SetStatus(ids, "DependencyFailed"))
    BY SetStatusSameActive DEF Sync, Active
  <2>2. tasks' = SetStatus(ids, "DependencyFailed") /\ UNCHANGED << groups, children, disk >>
    BY <1>5 DEF CheckFailedDependencies
  <2>3. QED
    BY <2>1, <2>2, SameActiveInStep DEF Sync
<1>6. CASE SpawnNew
  BY <1>6, SpawnProcessSync DEF SpawnNew, NoChange, Sync
<1>7. QED
  BY <1>1, <1>2, <1>3, <1>4, <1>5, <1>6 DEF TaskHandlerStep

-----------------------------------------------------------------------------
(* Requests *)

\* A request that changes tasks which are not active, and saves nothing.
LEMMA UnsavedTasksSync ==
  ASSUME Sync, SameActive(tasks'), UNCHANGED << groups, children, disk >>
  PROVE  Sync'
  BY SameActiveInStep DEF Sync

\* One that saves them, and answers with a failure if it cannot.
LEMMA SavedTasksSync ==
  ASSUME Sync, NEW ts, NEW answer, SameActive(ts),
         SaveOrFailure(ts, groups, children, answer)
  PROVE  Sync'
  BY SameActiveInStep, SaveOrFailureInStep DEF Sync

\* One that signals children, sets the status of groups and shuts down if it cannot
\* save.
LEMMA SignallingSync ==
  ASSUME StateType, Sync, NEW ts, SameActive(ts), NEW ids, NEW signal, NEW names,
         NEW status \in GroupStatus,
         SaveOrShutdown(ts, SetGroupStatus(groups, names, status),
                        SignalChildren(children, ids, signal))
  PROVE  Sync'
<1>1. DOMAIN SetGroupStatus(groups, names, status) = DOMAIN groups
  BY SetGroupStatusType DEF StateType
<1>2. InStep(ts, SetGroupStatus(groups, names, status), children)
  BY <1>1, SameActiveInStep DEF Sync
<1>3. ChildrenType(children)
  BY DEF StateType
<1>4. /\ ChildrenType(SignalChildren(children, ids, signal))
      /\ SameChildren(children, SignalChildren(children, ids, signal))
  BY <1>3, SignalChildrenType, SignalChildrenSame
<1>5. InStep(ts, SetGroupStatus(groups, names, status),
             SignalChildren(children, ids, signal))
  BY <1>2, <1>4, SameChildrenInStep
<1>6. QED
  BY <1>4, <1>5, SaveOrShutdownInStep DEF Sync

\* A refused request.
LEMMA NoChangeSync ==
  ASSUME Sync, NoChange
  PROVE  Sync'
  BY DEF NoChange, Sync

\* A new task is not active, in a group that exists.
LEMMA AddTaskSync ==
  ASSUME StateType, Sync, ClientAdd
  PROVE  Sync'
<1>1. PICK name \in GroupNames, status \in AddStatus, deps \in SUBSET TaskIds,
           priority \in Priorities, immediate \in BOOLEAN :
             AddTask(name, status, deps, priority, immediate)
  BY DEF ClientAdd
<1>2. CASE Refuse
  BY <1>2, NoChangeSync DEF Refuse
<1>3. CASE ~Refuse
  <2> DEFINE task == NewTask(name, status, deps, priority)
  <2>1. PICK id \in TaskIds :
          /\ IsNextTaskId(id)
          /\ SaveOrFailure(WithTask(id, task), groups, children, "Success")
    BY <1>1, <1>3 DEF AddTask
  <2>2. name \in DOMAIN groups
    BY <1>1, <1>3 DEF AddTask
  <2>3. id \notin DOMAIN tasks
    BY <2>1 DEF IsNextTaskId, TaskIds
  <2>4. task.status \notin Active /\ task.group = name
    BY DEF NewTask, AddStatus, WaitingStatus, Active
  <2> HIDE DEF task
  <2>5. /\ DOMAIN WithTask(id, task) = DOMAIN tasks \cup {id}
        /\ WithTask(id, task)[id] = task
        /\ \A i \in DOMAIN tasks : /\ WithTask(id, task)[i].group = tasks[i].group
                                   /\ WithTask(id, task)[i].status = tasks[i].status
    BY <2>3 DEF WithTask, StateType, TasksType, IsPartialFn, Task
  <2>6. SameActive(WithTask(id, task))
    BY <2>2, <2>4, <2>5 DEF SameActive, Sync, InStep, Grouped
  <2>7. QED
    BY <2>1, <2>6, SavedTasksSync
<1>4. QED
  BY <1>2, <1>3

\* enqueue and stash choose among tasks that are not active.
LEMMA EnqueueStashSync ==
  ASSUME StateType, Sync, ClientEnqueue \/ ClientStash
  PROVE  Sync'
<1>1. ASSUME NEW sel \in TaskSelection, NEW status \in AddStatus \ {"Stashed"},
             Enqueue(sel, status)
      PROVE  Sync'
  <2> DEFINE chosen == Selected(sel) \cap WithStatus({"Stashed", "Delayed", "Locked"})
  <2>1. \A i \in chosen \cap DOMAIN tasks : tasks[i].status \notin Active
    BY DEF WithStatus, Active
  <2>2. status \notin Active
    BY DEF AddStatus, WaitingStatus, Active
  <2> HIDE DEF chosen
  <2>3. SameActive(SetStatus(chosen, status))
    BY <2>1, <2>2, SetStatusSameActive DEF Sync
  <2>4. tasks' = SetStatus(chosen, status) /\ UNCHANGED << groups, children, disk >>
    BY <1>1 DEF Enqueue, Unsaved, chosen
  <2>5. QED
    BY <2>3, <2>4, UnsavedTasksSync
<1>2. ASSUME NEW sel \in TaskSelection, NEW status \in WaitingStatus, Stash(sel, status)
      PROVE  Sync'
  <2> DEFINE chosen == Selected(sel) \cap WithStatus({"Queued", "Locked"})
  <2>1. \A i \in chosen \cap DOMAIN tasks : tasks[i].status \notin Active
    BY DEF WithStatus, Active
  <2>2. status \notin Active
    BY DEF WaitingStatus, Active
  <2> HIDE DEF chosen
  <2>3. SameActive(SetStatus(chosen, status))
    BY <2>1, <2>2, SetStatusSameActive DEF Sync
  <2>4. tasks' = SetStatus(chosen, status) /\ UNCHANGED << groups, children, disk >>
    BY <1>2 DEF Stash, Unsaved, chosen
  <2>5. QED
    BY <2>3, <2>4, UnsavedTasksSync
<1>3. QED
  BY <1>1, <1>2 DEF ClientEnqueue, ClientStash

\* kill, pause and reset leave every active task active and every child in its pool.
LEMMA KillPauseResetSync ==
  ASSUME StateType, Sync, ClientKill \/ ClientPause \/ ClientReset
  PROVE  Sync'
<1>1. ASSUME NEW sel, NEW signal, Kill(sel, signal)
      PROVE  Sync'
  <2>1. SameActive(tasks)
    BY SameActiveNow DEF Sync
  <2>2. QED
    BY <1>1, <2>1, NoChangeSync, SignallingSync DEF Kill, Refuse, GroupStatus
<1>2. ASSUME NEW sel \in TaskSelection, NEW wait \in BOOLEAN, Pause(sel, wait)
      PROVE  Sync'
  <2> DEFINE paused == {i \in PausedBy(sel, wait) : HasChild(i)}
  <2>1. \A i \in paused \cap DOMAIN tasks : tasks[i].status \in Active
    <3>1. sel.kind \in {"TaskIds", "Group", "All"}
      BY DEF TaskSelection
    <3>2. QED
      BY <3>1 DEF PausedBy, WithStatus, Active
  <2> HIDE DEF paused
  <2>2. SameActive(SetStatus(paused, "Paused"))
    BY <2>1, SetStatusSameActive DEF Sync, Active
  <2>3. \/ NoChange
        \/ SaveOrShutdown(SetStatus(paused, "Paused"),
                          SetGroupStatus(groups, SelectedGroups(sel), "Paused"),
                          SignalChildren(children, paused, "Stop"))
    BY <1>2 DEF Pause, Refuse, paused
  <2>4. QED
    BY <2>2, <2>3, NoChangeSync, SignallingSync DEF GroupStatus
<1>3. ASSUME NEW sel, Reset(sel)
      PROVE  Sync'
  <2>1. SameActive(tasks)
    BY SameActiveNow DEF Sync
  <2>2. QED
    BY <1>3, <2>1, NoChangeSync, SignallingSync DEF Reset, Refuse, GroupStatus
<1>4. QED
  BY <1>1, <1>2, <1>3 DEF ClientKill, ClientPause, ClientReset

\* Resuming tasks concerns Paused tasks only, and a forced start is that of a task
\* without a child.
LEMMA StartSync ==
  ASSUME StateType, Sync, ClientStart \/ StartStep
  PROVE  Sync'
<1>1. \A ids : SameActive(SetStatus(Continued(ids), "Running"))
  <2> SUFFICES ASSUME NEW ids
               PROVE  SameActive(SetStatus(Continued(ids), "Running"))
    OBVIOUS
  <2>1. \A i \in Continued(ids) \cap DOMAIN tasks : tasks[i].status \in Active
    BY DEF Continued, WithStatus, Active
  <2>2. QED
    BY <2>1, SetStatusSameActive DEF Sync, Active
<1>2. CASE \E ids \in IdSets : StartTasks(ids)
  BY <1>2, NoChangeSync DEF StartTasks
<1>3. ASSUME NEW sel, StartSelection(sel)
      PROVE  Sync'
  <2>1. CASE Refuse
    BY <2>1, NoChangeSync DEF Refuse
  <2>2. CASE ~Refuse
    <3>1. PICK ids : ResumeTasks(ids, SetGroupStatus(groups, SelectedGroups(sel), "Running"))
      BY <1>3, <2>2 DEF StartSelection
    <3>2. QED
      BY <1>1, <3>1, SignallingSync DEF ResumeTasks, GroupStatus
  <2>3. QED
    BY <2>1, <2>2
<1>4. ASSUME NEW id \in TaskIds, StartNext(id)
      PROVE  Sync'
  <2>1. CASE SpawnProcess(id)
    BY <2>1, SpawnProcessSync
  <2>2. CASE /\ tasks' = SetStatus(Continued({id}), "Running")
             /\ children' = SignalChildren(children, Continued({id}), "Cont")
             /\ UNCHANGED << groups, shutdown, disk >>
    <3>1. InStep(tasks', groups, children)
      BY <1>1, <2>2, SameActiveInStep DEF Sync
    <3>2. SameChildren(children, children')
      BY <2>2, SignalChildrenSame DEF StateType
    <3>3. QED
      BY <2>2, <3>1, <3>2, SameChildrenInStep DEF Sync
  <2>3. QED
    BY <1>4, <2>1, <2>2 DEF StartNext
<1>5. CASE StartDone
  BY <1>5, SaveOrShutdownInStep DEF StartDone, Sync, StateType
<1>6. QED
  BY <1>2, <1>3, <1>4, <1>5 DEF ClientStart, StartStep

\* restart touches finished tasks only.
LEMMA RestartSync ==
  ASSUME StateType, Sync, ClientRestart
  PROVE  Sync'
<1>1. PICK ids \in IdSets, status \in {"Queued", "Stashed"}, immediate \in BOOLEAN :
        \E priority \in [ids -> Priorities] : RestartMultiple(ids, status, priority, immediate)
  BY DEF ClientRestart
<1>2. PICK priority : RestartMultiple(ids, status, priority, immediate)
  BY <1>1
<1>3. \A i \in Restarted(ids) : i \in DOMAIN tasks /\ tasks[i].status \notin Active
  BY DEF Restarted, WithStatus, Results, Active
<1>4. DOMAIN tasks' = DOMAIN tasks
  BY <1>2 DEF RestartMultiple
<1>5. \A i \in DOMAIN tasks :
        \/ tasks'[i] = tasks[i]
        \/ /\ tasks[i].status \notin Active
           /\ tasks'[i].status = status
           /\ tasks'[i].group = tasks[i].group
  BY <1>2, <1>3 DEF RestartMultiple, StateType, TasksType, IsPartialFn, Task
<1>6. status \notin Active
  BY DEF Active
<1>7. SameActive(tasks')
  BY <1>4, <1>5, <1>6 DEF SameActive, Sync, InStep, Grouped
<1>8. QED
  BY <1>2, <1>7, UnsavedTasksSync DEF RestartMultiple, Unsaved

\* Unlocking restores a status from before an edit, which is never Running or Paused.
LEMMA UnlockedSameActive ==
  ASSUME StateType, Sync, NEW ids
  PROVE  /\ DOMAIN Unlocked(ids) = DOMAIN tasks
         /\ \A i \in DOMAIN tasks :
               /\ Unlocked(ids)[i].group = tasks[i].group
               /\ Unlocked(ids)[i].status \in Active <=> tasks[i].status \in Active
  BY DEF Unlocked, Active, Editable, StateType, TasksType, IsPartialFn, Task

\* The requests of an edit concern editable and locked tasks only.
LEMMA EditSync ==
  ASSUME StateType, Sync, ClientEdit
  PROVE  Sync'
<1>1. ASSUME NEW ids, EditRequest(ids)
      PROVE  Sync'
  <2>1. PICK locked \in SUBSET (ids \cap WithStatus(Editable)) :
          tasks' = [i \in DOMAIN tasks |->
              IF i \in locked
              THEN [tasks[i] EXCEPT !.status = "Locked", !.previous = tasks[i].status]
              ELSE tasks[i]]
    BY <1>1 DEF EditRequest
  <2>2. \A i \in locked : tasks[i].status \notin Active
    BY DEF WithStatus, Editable, Active
  <2>3. /\ DOMAIN tasks' = DOMAIN tasks
        /\ \A i \in DOMAIN tasks :
              /\ tasks'[i].group = tasks[i].group
              /\ tasks'[i].status \in Active <=> tasks[i].status \in Active
    BY <2>1, <2>2 DEF StateType, TasksType, IsPartialFn, Task, Active
  <2>4. SameActive(tasks')
    BY <2>3 DEF SameActive, Sync, InStep, Grouped
  <2>5. QED
    BY <1>1, <2>4, UnsavedTasksSync DEF EditRequest, Unsaved
<1>2. ASSUME NEW ids, EditRestore(ids)
      PROVE  Sync'
  <2>1. SameActive(Unlocked(ids))
    BY UnlockedSameActive DEF SameActive, Sync, InStep, Grouped
  <2>2. QED
    BY <1>2, <2>1, UnsavedTasksSync DEF EditRestore, Unsaved
<1>3. ASSUME NEW edits, Edit(edits)
      PROVE  Sync'
  <2>1. CASE Refuse
    BY <2>1, NoChangeSync DEF Refuse
  <2>2. CASE ~Refuse
    <3> DEFINE edited == [i \in DOMAIN tasks |->
            IF i \in DOMAIN edits
            THEN [Unlocked({i})[i] EXCEPT !.dependencies = edits[i].dependencies,
                                          !.priority = edits[i].priority]
            ELSE tasks[i]]
          dropped(d) ==
            {i \in DOMAIN edits : d \in tasks[i].dependencies \ edits[i].dependencies}
          gained(d) ==
            {i \in DOMAIN edits : d \in edits[i].dependencies \ tasks[i].dependencies}
          ts == [d \in DOMAIN tasks |->
                   [edited[d] EXCEPT !.dependents = (@ \ dropped(d)) \cup gained(d)]]
    <3>1. SaveOrFailure(ts, groups, children, "Success")
      BY <1>3, <2>2 DEF Edit
    <3>2. ASSUME NEW i \in DOMAIN tasks
          PROVE  /\ edited[i].group = tasks[i].group
                 /\ edited[i].status \in Active <=> tasks[i].status \in Active
      <4>1. /\ tasks[i] \in Task /\ Unlocked({i})[i] \in Task
            /\ Unlocked({i})[i].group = tasks[i].group
            /\ Unlocked({i})[i].status \in Active <=> tasks[i].status \in Active
        BY UnlockedType, UnlockedSameActive DEF StateType, TasksType, IsPartialFn
      <4>2. QED
        BY <4>1 DEF Task
    <3>3. \A i \in DOMAIN tasks : /\ ts[i].group = edited[i].group
                                  /\ ts[i].status = edited[i].status
      <4>1. ASSUME NEW i \in DOMAIN tasks
            PROVE  ts[i].group = edited[i].group /\ ts[i].status = edited[i].status
        <5>1. tasks[i] \in Task /\ Unlocked({i})[i] \in Task
          BY UnlockedType, UnlockedSameActive DEF StateType, TasksType, IsPartialFn
        <5>2. DOMAIN edited[i] = {"group", "status", "previous", "dependencies",
                                  "dependents", "priority"}
          BY <5>1 DEF Task
        <5> HIDE DEF edited, dropped, gained
        <5>3. QED
          BY <5>2
      <4>2. QED
        BY <4>1
    <3>4. DOMAIN ts = DOMAIN tasks
      OBVIOUS
    <3> HIDE DEF ts, edited
    <3>5. SameActive(ts)
      BY <3>2, <3>3, <3>4 DEF SameActive, Sync, InStep, Grouped
    <3>6. QED
      BY <3>1, <3>5, SavedTasksSync
  <2>3. QED
    BY <2>1, <2>2
<1>4. QED
  BY <1>1, <1>2, <1>3 DEF ClientEdit

\* switch exchanges two tasks of which neither is active.
LEMMA SwitchSync ==
  ASSUME StateType, Sync, ClientSwitch
  PROVE  Sync'
<1>1. PICK a \in TaskIds, b \in TaskIds : Switch(a, b)
  BY DEF ClientSwitch
<1>2. CASE Refuse
  BY <1>2, NoChangeSync DEF Refuse
<1>3. CASE ~Refuse
  <2> DEFINE sigma(i) == CASE i = a -> b [] i = b -> a [] OTHER -> i
             renamed(S) == {sigma(i) : i \in S}
             swapped == [i \in DOMAIN tasks |-> tasks[sigma(i)]]
             deps == OnlyOne(tasks[a].dependencies, tasks[b].dependencies)
             dents == OnlyOne(tasks[a].dependents, tasks[b].dependents)
             ts == [i \in DOMAIN tasks |->
                     [swapped[i] EXCEPT
                        !.dependents = IF i \in deps THEN renamed(@) ELSE @,
                        !.dependencies = IF i \in dents THEN renamed(@) ELSE @]]
  <2>1. SaveOrFailure(ts, groups, children, "Success")
    BY <1>1, <1>3 DEF Switch
  <2>2. /\ {a, b} \subseteq DOMAIN tasks
        /\ tasks[a].status \notin Active /\ tasks[b].status \notin Active
    BY <1>1, <1>3 DEF Switch, WithStatus, Editable, Active
  <2>3. \A i \in DOMAIN tasks : /\ sigma(i) \in DOMAIN tasks
                                /\ i \in {a, b} => sigma(i) \in {a, b}
                                /\ i \notin {a, b} => sigma(i) = i
    BY <2>2
  <2>4. \A i \in DOMAIN tasks : swapped[i] = tasks[sigma(i)] /\ swapped[i] \in Task
    <3> HIDE DEF sigma
    <3> QED BY <2>3 DEF StateType, TasksType, IsPartialFn
  <2> HIDE DEF swapped, renamed, deps, dents, sigma
  <2>5. DOMAIN ts = DOMAIN tasks
    OBVIOUS
  <2>6. \A i \in DOMAIN tasks : /\ ts[i].group = swapped[i].group
                                /\ ts[i].status = swapped[i].status
    BY <2>4 DEF Task
  <2> HIDE DEF ts
  <2>7. \A i \in DOMAIN tasks :
          /\ ts[i].group \in DOMAIN groups
          /\ i \in {a, b} => ts[i].status \notin Active
          /\ i \notin {a, b} => ts[i].status = tasks[i].status /\ ts[i].group = tasks[i].group
    BY <2>2, <2>3, <2>4, <2>6 DEF Sync, InStep, Grouped
  <2>8. SameActive(ts)
    BY <2>2, <2>5, <2>7 DEF SameActive
  <2>9. QED
    BY <2>1, <2>8, SavedTasksSync
<1>4. QED
  BY <1>2, <1>3

\* Removing tasks that are not active.
LEMMA WithoutSameActive ==
  ASSUME StateType, Sync, NEW ids, \A i \in ids : tasks[i].status \notin Active
  PROVE  SameActive(Without(ids))
<1>1. /\ DOMAIN Without(ids) = DOMAIN tasks \ ids
      /\ \A i \in DOMAIN tasks \ ids : /\ Without(ids)[i].group = tasks[i].group
                                       /\ Without(ids)[i].status = tasks[i].status
  BY DEF Without, StateType, TasksType, IsPartialFn, Task
<1>2. QED
  BY <1>1 DEF SameActive, Sync, InStep, Grouped

\* remove and clean never take an active task.
LEMMA RemoveCleanSync ==
  ASSUME StateType, Sync, ClientRemove \/ ClientClean
  PROVE  Sync'
<1>1. ASSUME NEW ids, Remove(ids)
      PROVE  Sync'
  <2>1. SameActive(Without(Removable(ids)))
    BY WithoutSameActive DEF Removable, WithStatus
  <2>2. QED
    BY <1>1, <2>1, NoChangeSync, SavedTasksSync DEF Remove
<1>2. ASSUME NEW successful_only, NEW names, Clean(successful_only, names)
      PROVE  Sync'
  <2> DEFINE cleaned ==
        {i \in WithStatus(IF successful_only THEN {"Success"} ELSE Results) :
            tasks[i].group \in names /\ IsTaskRemovable(i, {})}
  <2>1. \A i \in cleaned : tasks[i].status \notin Active
    BY DEF WithStatus, Results, Active
  <2> HIDE DEF cleaned
  <2>2. SameActive(Without(cleaned))
    BY <2>1, WithoutSameActive
  <2>3. SaveOrFailure(Without(cleaned), groups, children, "Success")
    BY <1>2 DEF Clean, cleaned
  <2>4. QED
    BY <2>2, <2>3, SavedTasksSync
<1>3. QED
  BY <1>1, <1>2 DEF ClientRemove, ClientClean

\* A new group gets an empty pool, a removed one takes its empty pool along, and
\* nothing else changes groups or pools (group, parallel).
LEMMA GroupSync ==
  ASSUME StateType, Sync, ClientGroup \/ ClientParallel
  PROVE  Sync'
<1>1. ASSUME NEW name \in GroupNames, NEW n \in Parallelism, GroupAdd(name, n)
      PROVE  Sync'
  <2>1. CASE Refuse
    BY <2>1, NoChangeSync DEF Refuse
  <2>2. CASE ~Refuse
    <3> DEFINE gs == [g \in DOMAIN groups \cup {name} |->
                        IF g = name THEN [status |-> "Running", parallel_tasks |-> n]
                                    ELSE groups[g]]
               c == NewPool(name)
    <3>1. SaveOrFailure(tasks, gs, c, "Success") /\ name \notin DOMAIN groups
      BY <1>1, <2>2 DEF GroupAdd
    <3>2. /\ DOMAIN c = DOMAIN gs
          /\ DOMAIN gs = DOMAIN groups \cup {name}
          /\ DOMAIN c[name] = {}
          /\ \A g \in DOMAIN children : c[g] = children[g]
          /\ DOMAIN c = DOMAIN children \cup {name}
      BY <3>1 DEF NewPool, Sync, InStep
    <3> HIDE DEF gs, c
    <3>3. Pooled(tasks, c)
      BY <3>2 DEF Sync, InStep, Pooled
    <3>4. Unshared(c)
      <4>1. \A g \in DOMAIN c : \A w \in DOMAIN c[g] :
              g \in DOMAIN children /\ c[g] = children[g]
        BY <3>2
      <4>2. QED
        BY <4>1 DEF Sync, InStep, Unshared
    <3>5. Owned(tasks, c)
      BY <3>2 DEF Sync, InStep, Owned
    <3>6. Grouped(tasks, gs)
      BY <3>2 DEF Sync, InStep, Grouped
    <3>7. QED
      BY <3>1, <3>2, <3>3, <3>4, <3>5, <3>6, SaveOrFailureInStep DEF Sync, InStep
  <2>3. QED
    BY <2>1, <2>2
<1>2. ASSUME NEW name \in GroupNames, GroupRemove(name)
      PROVE  Sync'
  <2>1. CASE Refuse
    BY <2>1, NoChangeSync DEF Refuse
  <2>2. ASSUME ~Refuse, name \in DOMAIN children /\ ~HasGroupActiveTasks(name)
        PROVE  Sync'
    <3> DEFINE gs == [g \in DOMAIN groups \ {name} |-> groups[g]]
               c == [g \in DOMAIN children \ {name} |-> children[g]]
    <3>1. SaveOrFailure(tasks, gs, c, "Success") /\ name # Default /\ ~GroupInUse(name)
      BY <1>2, <2>2 DEF GroupRemove
    <3>2. /\ DOMAIN c = DOMAIN gs
          /\ DOMAIN gs = DOMAIN groups \ {name}
          /\ DOMAIN c = DOMAIN children \ {name}
          /\ \A g \in DOMAIN c : c[g] = children[g]
      BY DEF Sync, InStep
    <3>3. \A i \in DOMAIN tasks : tasks[i].group # name
      BY <3>1 DEF GroupInUse, TasksOfGroup
    <3> HIDE DEF gs, c
    <3>4. Pooled(tasks, c)
      BY <3>2 DEF Sync, InStep, Pooled
    <3>5. Unshared(c)
      BY <3>2 DEF Sync, InStep, Unshared
    <3>6. Owned(tasks, c)
      <4> SUFFICES ASSUME NEW i \in DOMAIN tasks, tasks[i].status \in Active
                   PROVE  \E g \in DOMAIN c : \E w \in DOMAIN c[g] : c[g][w].task = i
        BY DEF Owned
      <4>1. PICK g \in DOMAIN children : \E w \in DOMAIN children[g] : children[g][w].task = i
        BY DEF Sync, InStep, Owned
      <4>2. tasks[i].group = g
        BY <4>1 DEF Sync, InStep, Pooled
      <4>3. QED
        BY <3>2, <3>3, <4>1, <4>2
    <3>7. Grouped(tasks, gs)
      BY <3>1, <3>2, <3>3 DEF Sync, InStep, Grouped
    <3>8. QED
      BY <3>1, <3>2, <3>4, <3>5, <3>6, <3>7, SaveOrFailureInStep DEF Sync, InStep
  <2>3. ASSUME ~Refuse, ~(name \in DOMAIN children /\ ~HasGroupActiveTasks(name))
        PROVE  Sync'
    <3>1. /\ name \in DOMAIN groups /\ ~GroupInUse(name)
          /\ InitiateShutdown("Emergency", tasks, groups, children)
          /\ UNCHANGED << tasks, groups >>
      BY <1>2, <2>3 DEF GroupRemove
    <3>2. QED
      BY <3>1, InitiateShutdownInStep
  <2>4. QED
    BY <2>1, <2>2, <2>3
<1>3. ASSUME NEW name, NEW n, SetParallelTasks(name, n)
      PROVE  Sync'
  <2>1. CASE Refuse
    BY <2>1, NoChangeSync DEF Refuse
  <2>2. CASE ~Refuse
    <3>1. /\ DOMAIN groups' = DOMAIN groups
          /\ UNCHANGED << tasks, children, disk >>
      BY <1>3, <2>2 DEF SetParallelTasks, Unsaved
    <3>2. QED
      BY <3>1 DEF Sync, InStep, Grouped
  <2>3. QED
    BY <2>1, <2>2
<1>4. QED
  BY <1>1, <1>2, <1>3 DEF ClientGroup, ClientParallel

-----------------------------------------------------------------------------
(* Processes, crashes and start-up *)

\* An exit, a crash: no task, group or pool changes.
LEMMA EnvironmentSync ==
  ASSUME StateType, Sync, ProcessExit \/ StoppedProcessKilled \/ KilledProcessExit \/ Crash
  PROVE  Sync'
<1>1. ASSUME NEW from, NEW to \in Exited, ProcessChanges(from, to)
      PROVE  Sync'
  <2>1. PICK s \in Slots(children) :
          children' = [children EXCEPT ![s[1]][s[2]].proc = to]
    BY <1>1 DEF ProcessChanges
  <2>2. s[1] \in DOMAIN children /\ s[2] \in DOMAIN children[s[1]]
    BY DEF Slots
  <2>3. SameChildren(children, children')
    BY <2>1, <2>2 DEF SameChildren, StateType, ChildrenType, IsPartialFn, Child
  <2>4. QED
    BY <1>1, <2>3, SameChildrenInStep DEF ProcessChanges, Sync
<1>2. CASE Crash
  BY <1>2, NoChangeSync DEF Crash
<1>3. QED
  BY <1>1, <1>2
     DEF ProcessExit, StoppedProcessKilled, KilledProcessExit, Exited

\* A restored daemon has no children, and no task that was active stays so.
LEMMA RestartedSync ==
  ASSUME StateType, Sync, Restart
  PROVE  Sync'
<1> DEFINE ts == RestoredTasks(disk.tasks, disk.groups)
           gs == RestoredGroups(ts, disk.groups)
           c == [g \in DOMAIN gs |-> << >>]
<1>1. DOMAIN ts = DOMAIN disk.tasks
  BY DEF RestoredTasks
<1>2. DOMAIN gs = DOMAIN disk.groups
  BY SetGroupStatusType DEF RestoredGroups, StateType, DiskType, GroupStatus
<1>3. ASSUME NEW i \in DOMAIN ts
      PROVE  ts[i].status \notin Active /\ ts[i].group \in DOMAIN gs
  <2>1. disk.tasks[i] \in Task
    BY <1>1 DEF StateType, DiskType, TasksType, IsPartialFn
  <2>2. /\ ts[i].status = RestoredStatus(disk.tasks[i].status)
        /\ ts[i].group \in DOMAIN disk.groups
    BY <1>1, <2>1 DEF RestoredTasks, Task, Sync, Grouped
  <2>3. RestoredStatus(disk.tasks[i].status) \notin Active
    BY DEF RestoredStatus, Active
  <2>4. QED
    BY <1>2, <2>2, <2>3
<1>4. DOMAIN c = DOMAIN gs /\ \A g \in DOMAIN c : DOMAIN c[g] = {}
  OBVIOUS
<1>5. /\ tasks' = ts /\ groups' = gs /\ children' = c
      /\ disk'.tasks = ts /\ disk'.groups = gs
  BY DEF Restart, Image
<1> HIDE DEF ts, gs, c
<1>6. Grouped(ts, gs)
  BY <1>2, <1>3 DEF Sync, Grouped
<1>7. InStep(ts, gs, c)
  BY <1>3, <1>4, <1>6 DEF InStep, Pooled, Unshared, Owned
<1>8. QED
  BY <1>5, <1>6, <1>7 DEF Sync

-----------------------------------------------------------------------------
(* The theorems *)

\* The daemon starts without tasks, with a pool for every group.
LEMMA InitSync == Init => SyncInv
<1> SUFFICES ASSUME Init
             PROVE  SyncInv
  OBVIOUS
<1>1. StateType /\ ControlType
  BY InitType, TypeOKParts
<1>2. Grouped(tasks, groups) /\ Grouped(disk.tasks, disk.groups)
  BY GroupsAssumption DEF Init, Image, Grouped
<1>3. InStep(tasks, groups, children)
  BY <1>2 DEF Init, InStep, Pooled, Unshared, Owned
<1>4. QED
  BY <1>1, <1>2, <1>3 DEF SyncInv, Sync

\* Every step keeps the inductive invariant.
LEMMA NextSync == SyncInv /\ [Next]_vars => SyncInv'
<1> SUFFICES ASSUME StateType, ControlType, Sync, [Next]_vars
             PROVE  SyncInv'
  BY DEF SyncInv
<1>1. StateType' /\ ControlType'
  <2>1. TypeOK'
    BY NextType, TypeOKParts
  <2>2. QED
    BY <2>1 DEF TypeOK, StateType, ControlType, TasksType, GroupsType, ChildrenType,
                DiskType, ShutdownType
<1>2. Sync'
  <2>1. CASE TaskHandlerStep
    BY <2>1, TaskHandlerSync
  <2>2. CASE ClientAdd
    BY <2>2, AddTaskSync
  <2>3. CASE ClientEnqueue \/ ClientStash
    BY <2>3, EnqueueStashSync
  <2>4. CASE ClientKill \/ ClientPause \/ ClientReset
    BY <2>4, KillPauseResetSync
  <2>5. CASE ClientStart \/ StartStep
    BY <2>5, StartSync
  <2>6. CASE ClientRestart
    BY <2>6, RestartSync
  <2>7. CASE ClientEdit
    BY <2>7, EditSync
  <2>8. CASE ClientSwitch
    BY <2>8, SwitchSync
  <2>9. CASE ClientRemove \/ ClientClean
    BY <2>9, RemoveCleanSync
  <2>10. CASE ClientGroup \/ ClientParallel
    BY <2>10, GroupSync
  <2>11. CASE ClientShutdown
    BY <2>11, InitiateShutdownInStep DEF ClientShutdown, Shutdown
  <2>12. CASE ProcessExit \/ StoppedProcessKilled \/ KilledProcessExit \/ Crash
    BY <2>12, EnvironmentSync
  <2>13. CASE Restart
    BY <2>13, RestartedSync
  <2>14. CASE UNCHANGED vars
    BY <2>14 DEF vars, Sync
  <2>15. QED
    BY <2>1, <2>2, <2>3, <2>4, <2>5, <2>6, <2>7, <2>8, <2>9, <2>10, <2>11, <2>12,
       <2>13, <2>14 DEF Next, TaskHandlerStep
<1>3. QED
  BY <1>1, <1>2 DEF SyncInv

\* The inductive invariant gives the four invariants.
LEMMA SyncInvSynchronized == SyncInv => Synchronized
  BY InStepIsSynchronized DEF SyncInv, Sync

\* Tasks, groups and worker pools agree in every reachable state, whatever requests,
\* ticks, exits, failed saves, crashes and restarts come in whatever order.
THEOREM Synchronization == Spec => []Synchronized
  BY InitSync, NextSync, SyncInvSynchronized, PTL DEF Spec

\* Every child belongs to an active task of its pool's group: the unwraps of
\* handle_finished_tasks never panic.
THEOREM ChildrenAlwaysHaveTasks == Spec => []ChildrenHaveTasks
<1>1. Synchronized => ChildrenHaveTasks
  BY DEF Synchronized
<1>2. QED
  BY <1>1, Synchronization, PTL

\* No task ever has two processes.
THEOREM NeverTwoChildren == Spec => []OneChildPerTask
<1>1. Synchronized => OneChildPerTask
  BY DEF Synchronized
<1>2. QED
  BY <1>1, Synchronization, PTL

\* A task that is Running or Paused always has the process that will end it.
THEOREM ActiveTasksAlwaysHaveChildren == Spec => []ActiveTasksHaveChildren
<1>1. Synchronized => ActiveTasksHaveChildren
  BY DEF Synchronized
<1>2. QED
  BY <1>1, Synchronization, PTL

\* Worker pools and groups are never out of step: the desynchronisation group.rs
\* tests for does not happen.
THEOREM PoolsAlwaysMatchGroups == Spec => []PoolsMatchGroups
<1>1. Synchronized => PoolsMatchGroups
  BY DEF Synchronized
<1>2. QED
  BY <1>1, Synchronization, PTL

=============================================================================
