--------------------------- MODULE MessageHandler ---------------------------
(***************************************************************************)
(* The requests of clients. Each handler takes the mutex, changes the      *)
(* state and answers; one action is one handler, except that a request     *)
(* that starts tasks by id goes on one task at a time (stage "Start"),     *)
(* because each start saves the state.                                     *)
(*   pueue/src/daemon/network/message_handler/*.rs                         *)
(*   pueue/src/daemon/network/response_helper.rs                           *)
(*   pueue/src/daemon/process_handler/{kill,pause,start}.rs                *)
(***************************************************************************)
EXTENDS TaskHandler

\* TaskSelection: a list of ids, a group, or everything.
IdSets == (SUBSET TaskIds) \ {{}}
TaskSelection ==
    {[kind |-> "TaskIds", ids |-> S, group |-> Default] : S \in IdSets}
    \cup {[kind |-> "Group", ids |-> {}, group |-> g] : g \in GroupNames}
    \cup {[kind |-> "All", ids |-> {}, group |-> Default]}

\* A handler runs while it holds the mutex; the number of requests is bounded.
Handle(command) ==
    /\ stage = "Free"
    /\ command \in Commands
    /\ requests < MaxRequests
    /\ requests' = requests + 1
    /\ UNCHANGED restarts

Return(answer) ==
    /\ response' = answer
    /\ UNCHANGED << stage, pending >>

Unsaved == UNCHANGED << shutdown, disk >>
Refuse == NoChange /\ Return("Failure")

\* Mutant of Answer: a failure if any given id does not pass the filter.
AnswerAll(ids, matching) == IF ids \subseteq matching THEN "Success" ELSE "Failure"

\* compile_task_response: a failure only if no given id passes the filter.
Answer(ids, matching) == IF ids \cap matching # {} THEN "Success" ELSE "Failure"
AnswerSelection(sel, matching) ==
    IF sel.kind = "TaskIds" THEN Answer(sel.ids, matching) ELSE "Success"

WithStatus(statuses) == {i \in DOMAIN tasks : tasks[i].status \in statuses}

\* The existing tasks a selection names.
Selected(sel) ==
    CASE sel.kind = "TaskIds" -> sel.ids \cap DOMAIN tasks
      [] sel.kind = "Group" -> TasksOfGroup(sel.group)
      [] sel.kind = "All" -> DOMAIN tasks

\* ensure_group_exists
UnknownGroup(sel) == sel.kind = "Group" /\ sel.group \notin DOMAIN groups

SelectedGroups(sel) ==
    CASE sel.kind = "TaskIds" -> {}
      [] sel.kind = "Group" -> {sel.group}
      [] sel.kind = "All" -> DOMAIN groups

-----------------------------------------------------------------------------
(* add.rs, enqueue.rs, stash.rs *)

NewTask(name, status, deps, priority) ==
    [ group |-> name, status |-> status, previous |-> "Queued",
      dependencies |-> deps, dependents |-> {}, priority |-> priority ]

\* Mutant of WithTask: the new task is not entered in the index of its dependencies.
WithTaskUnindexed(id, task) ==
    [i \in DOMAIN tasks \cup {id} |-> IF i = id THEN task ELSE tasks[i]]

\* The tasks with task id added and entered in the index of its dependencies.
WithTask(id, task) ==
    [i \in DOMAIN tasks \cup {id} |->
        IF i = id THEN task
        ELSE IF i \in task.dependencies
             THEN [tasks[i] EXCEPT !.dependents = @ \cup {id}]
             ELSE tasks[i]]

AddTask(name, status, deps, priority, start_immediately) ==
    /\ Handle("add")
    /\ \/ /\ name \notin DOMAIN groups \/ ~(deps \subseteq DOMAIN tasks)
          /\ Refuse
       \/ /\ name \in DOMAIN groups /\ deps \subseteq DOMAIN tasks
          /\ \E id \in TaskIds :
                /\ IsNextTaskId(id)
                /\ SaveOrFailure(WithTask(id, NewTask(name, status, deps, priority)),
                                 groups, children, "Success")
                /\ \/ /\ start_immediately /\ response' = "Success"
                      /\ stage' = "Start"
                      /\ pending' = {id}
                   \/ /\ ~start_immediately \/ response' = "Failure"
                      /\ UNCHANGED << stage, pending >>

\* Stashed and locked tasks become queued, or delayed if a time is given. Nothing
\* is saved.
Enqueue(sel, status) ==
    LET chosen == Selected(sel) \cap WithStatus({"Stashed", "Delayed", "Locked"})
    IN  /\ Handle("enqueue")
        /\ tasks' = SetStatus(chosen, status)
        /\ UNCHANGED << groups, children >>
        /\ Unsaved
        /\ Return(AnswerSelection(sel, chosen \cup WithStatus({status})))

\* Queued and locked tasks become stashed, or delayed if a time is given. Nothing
\* is saved.
Stash(sel, status) ==
    LET chosen == Selected(sel) \cap WithStatus({"Queued", "Locked"})
    IN  /\ Handle("stash")
        /\ tasks' = SetStatus(chosen, status)
        /\ UNCHANGED << groups, children >>
        /\ Unsaved
        /\ Return(AnswerSelection(sel, chosen \cup WithStatus({"Stashed", "Delayed"})))

-----------------------------------------------------------------------------
(* kill.rs: the handler and process_handler/kill.rs *)

\* should_pause_group, for a kill issued by a user.
ShouldPauseGroup(name) == \E i \in TasksOfGroup(name) : IsQueued(tasks[i])

\* Killing a group pauses it if something would start in the place of the killed
\* tasks; killing all pauses every group as soon as one of them has such a task.
PausedByKill(sel) ==
    CASE sel.kind = "TaskIds" -> {}
      [] sel.kind = "Group" -> {g \in {sel.group} : ShouldPauseGroup(g)}
      [] sel.kind = "All" ->
            {g \in DOMAIN groups : \E h \in DOMAIN groups : ShouldPauseGroup(h)}

KilledBy(sel) ==
    CASE sel.kind = "TaskIds" -> sel.ids
      [] sel.kind = "Group" -> TasksOfGroup(sel.group) \cap WithStatus(Active)
      [] sel.kind = "All" -> AllTaskIds(children)

Kill(sel, signal) ==
    /\ Handle("kill")
    /\ \/ /\ UnknownGroup(sel) \/ AnswerSelection(sel, WithStatus(Active)) = "Failure"
          /\ Refuse
       \/ /\ ~UnknownGroup(sel) /\ AnswerSelection(sel, WithStatus(Active)) = "Success"
          /\ SaveOrShutdown(tasks, SetGroupStatus(groups, PausedByKill(sel), "Paused"),
                            SignalChildren(children, KilledBy(sel), signal))
          /\ Return("Success")

-----------------------------------------------------------------------------
(* pause.rs: the handler and process_handler/pause.rs *)

PausedBy(sel, wait) ==
    CASE wait -> {}
      [] sel.kind = "TaskIds" -> sel.ids \cap WithStatus(Active)
      [] sel.kind = "Group" -> TasksOfGroup(sel.group) \cap WithStatus({"Running"})
      [] sel.kind = "All" -> AllTaskIds(children) \cap WithStatus(Active)

\* Without wait the handler unwraps the task of every given id; the panic hook
\* ends the daemon.
UnwrapsMissingTask(sel, wait) ==
    sel.kind = "TaskIds" /\ ~wait /\ ~(sel.ids \subseteq DOMAIN tasks)

Pause(sel, wait) ==
    LET paused == {i \in PausedBy(sel, wait) : HasChild(i)}
    IN  /\ Handle("pause")
        /\ \/ /\ UnknownGroup(sel) \/ AnswerSelection(sel, WithStatus({"Running"})) = "Failure"
              /\ Refuse
           \/ /\ ~UnknownGroup(sel) /\ AnswerSelection(sel, WithStatus({"Running"})) = "Success"
              /\ UnwrapsMissingTask(sel, wait)
              /\ stage' = "Panicked"
              /\ NoChange
              /\ UNCHANGED << pending, response >>
           \/ /\ ~UnknownGroup(sel) /\ AnswerSelection(sel, WithStatus({"Running"})) = "Success"
              /\ ~UnwrapsMissingTask(sel, wait)
              /\ SaveOrShutdown(SetStatus(paused, "Paused"),
                                SetGroupStatus(groups, SelectedGroups(sel), "Paused"),
                                SignalChildren(children, paused, "Stop"))
              /\ Return("Success")

-----------------------------------------------------------------------------
(* start.rs: the handler and process_handler/start.rs *)

\* continue_task, for each of ids.
Continued(ids) == {i \in ids : HasChild(i) /\ i \in WithStatus({"Paused"})}

\* Mutant of ResumeTasks: the status changes and no signal is sent.
ResumeTasksSilently(ids, gs) ==
    SaveOrShutdown(SetStatus(Continued(ids), "Running"), gs, children)

ResumeTasks(ids, gs) ==
    SaveOrShutdown(SetStatus(Continued(ids), "Running"), gs,
                   SignalChildren(children, Continued(ids), "Cont"))

\* Starting by id: the answer is given first, then every given id is resumed or
\* force-started, the ones that did not pass the filter included.
StartTasks(ids) ==
    /\ Handle("start")
    /\ NoChange
    /\ \/ /\ ids \cap WithStatus(Editable \cup {"Paused"}) = {}
          /\ Return("Failure")
       \/ /\ ids \cap WithStatus(Editable \cup {"Paused"}) # {}
          /\ response' = "Success"
          /\ stage' = "Start"
          /\ pending' = ids

StartSelection(sel) ==
    /\ Handle("start_group")
    /\ sel.kind # "TaskIds"
    /\ \/ UnknownGroup(sel) /\ Refuse
       \/ /\ ~UnknownGroup(sel)
          /\ ResumeTasks(IF sel.kind = "Group" THEN TasksOfGroup(sel.group)
                                               ELSE AllTaskIds(children),
                         SetGroupStatus(groups, SelectedGroups(sel), "Running"))
          /\ Return("Success")

\* The loop of start over TaskIds: continue_task does not save, spawn_process does.
\* The client chose the order of the ids.
StartNext(id) ==
    /\ stage = "Start"
    /\ id \in pending
    /\ pending' = pending \ {id}
    /\ \/ /\ HasChild(id)
          /\ tasks' = SetStatus(Continued({id}), "Running")
          /\ children' = SignalChildren(children, Continued({id}), "Cont")
          /\ UNCHANGED << groups, shutdown, disk >>
       \/ ~HasChild(id) /\ SpawnProcess(id)
    /\ UNCHANGED << stage, requests, response, restarts >>

StartDone ==
    /\ stage = "Start"
    /\ pending = {}
    /\ SaveOrShutdown(tasks, groups, children)
    /\ stage' = "Free"
    /\ NoRequest

-----------------------------------------------------------------------------
(* restart.rs *)

\* The tasks a restart puts back.
Restarted(ids) == ids \cap WithStatus(Results)

\* Done tasks go back to the queue in place, each with the priority the client gave;
\* nothing is saved. Starting them immediately happens whatever the answer is, and
\* for every given id.
RestartMultiple(ids, status, priority, start_immediately) ==
    LET done == Restarted(ids)
    IN  /\ Handle("restart")
        /\ tasks' = [i \in DOMAIN tasks |->
                        IF i \in done
                        THEN [tasks[i] EXCEPT !.status = status, !.priority = priority[i]]
                        ELSE tasks[i]]
        /\ response' = Answer(ids, done)
        /\ \/ /\ start_immediately
              /\ stage' = "Start"
              /\ pending' = ids
           \/ /\ ~start_immediately
              /\ UNCHANGED << stage, pending >>
        /\ UNCHANGED << groups, children >>
        /\ Unsaved

-----------------------------------------------------------------------------
(* edit.rs *)

\* edit_request locks the tasks one by one and gives up at the first that is
\* missing or not editable, leaving those before it locked.
EditRequest(ids) ==
    LET editable == ids \cap WithStatus(Editable)
    IN  /\ Handle("edit")
        /\ \E locked \in SUBSET editable :
              /\ ids = editable => locked = ids
              /\ tasks' = [i \in DOMAIN tasks |->
                    IF i \in locked
                    THEN [tasks[i] EXCEPT !.status = "Locked", !.previous = tasks[i].status]
                    ELSE tasks[i]]
        /\ UNCHANGED << groups, children >>
        /\ Unsaved
        /\ Return(IF ids = editable THEN "Success" ELSE "Failure")

Unlocked(ids) ==
    [i \in DOMAIN tasks |->
        IF i \in ids /\ tasks[i].status = "Locked"
        THEN [tasks[i] EXCEPT !.status = tasks[i].previous]
        ELSE tasks[i]]

EditRestore(ids) ==
    /\ Handle("edit")
    /\ tasks' = Unlocked(ids)
    /\ UNCHANGED << groups, children >>
    /\ Unsaved
    /\ Return(IF ids \subseteq WithStatus({"Locked"}) THEN "Success" ELSE "Failure")

\* Mutant of CircularDependency: only the tasks named are looked at.
CircularDependencyDirect(id, deps) ==
    \E d \in deps \cap DOMAIN tasks : d = id

\* check_circular_dependency, on the dependencies as they are before the request.
CircularDependency(id, deps) ==
    \E d \in deps : id \in Reachable(Dependencies(tasks), d)

\* What an edit may change of a task, as far as the model keeps it.
EditableTask == [dependencies : SUBSET TaskIds, priority : Priorities]

ValidEdit(edits) ==
    \A i \in DOMAIN edits :
        /\ i \in DOMAIN tasks /\ tasks[i].status = "Locked"
        /\ edits[i].dependencies \subseteq DOMAIN tasks \ {i}
        /\ ~CircularDependency(i, edits[i].dependencies)

\* All tasks are validated, then all are updated, and the index follows their
\* dependencies.
Edit(edits) ==
    LET edited == [i \in DOMAIN tasks |->
            IF i \in DOMAIN edits
            THEN [Unlocked({i})[i] EXCEPT !.dependencies = edits[i].dependencies,
                                          !.priority = edits[i].priority]
            ELSE tasks[i]]
        dropped(d) ==
            {i \in DOMAIN edits : d \in tasks[i].dependencies \ edits[i].dependencies}
        gained(d) ==
            {i \in DOMAIN edits : d \in edits[i].dependencies \ tasks[i].dependencies}
    IN  /\ Handle("edit")
        /\ \/ ~ValidEdit(edits) /\ Refuse
           \/ /\ ValidEdit(edits)
              /\ SaveOrFailure([d \in DOMAIN tasks |-> [edited[d] EXCEPT
                                   !.dependents = (@ \ dropped(d)) \cup gained(d)]],
                               groups, children, "Success")
              /\ UNCHANGED << stage, pending >>

-----------------------------------------------------------------------------
(* switch.rs *)

\* Mutant of OnlyOne: what only the second task mentions is forgotten.
OnlyFirst(S, T) == S \ T

\* What one of two lists mentions and the other does not.
OnlyOne(S, T) == (S \ T) \cup (T \ S)

\* Two tasks swap ids. The reverse lists are rewritten at the ids one of them
\* mentions and the other does not.
Switch(a, b) ==
    LET sigma(i) == CASE i = a -> b [] i = b -> a [] OTHER -> i
        renamed(S) == {sigma(i) : i \in S}
        swapped == [i \in DOMAIN tasks |-> tasks[sigma(i)]]
        uniqueDependencies == OnlyOne(tasks[a].dependencies, tasks[b].dependencies)
        uniqueDependents == OnlyOne(tasks[a].dependents, tasks[b].dependents)
    IN  /\ Handle("switch")
        /\ \/ ~({a, b} \subseteq WithStatus(Editable)) /\ Refuse
           \/ /\ {a, b} \subseteq WithStatus(Editable)
              /\ SaveOrFailure(
                    [i \in DOMAIN tasks |->
                        [swapped[i] EXCEPT
                            !.dependents = IF i \in uniqueDependencies THEN renamed(@) ELSE @,
                            !.dependencies = IF i \in uniqueDependents THEN renamed(@) ELSE @]],
                    groups, children, "Success")
              /\ UNCHANGED << stage, pending >>

-----------------------------------------------------------------------------
(* remove.rs, clean.rs *)

\* Mutant of Removable: running tasks are removed too.
RemovableRunning(ids) ==
    LET matching == ids \cap DOMAIN tasks
    IN  {i \in matching : IsTaskRemovable(i, matching)}

\* The given tasks that are not running and that no unfinished task outside the
\* request depends on.
Removable(ids) ==
    LET matching == ids \cap WithStatus(Status \ Active)
    IN  {i \in matching : IsTaskRemovable(i, matching)}

Remove(ids) ==
    LET matching == ids \cap WithStatus(Status \ Active)
    IN  /\ Handle("remove")
        /\ IF \E i \in matching : RecursesForever(i, matching)
           THEN stage' = "Panicked" /\ NoChange /\ UNCHANGED << pending, response >>
           ELSE /\ SaveOrFailure(Without(Removable(ids)), groups, children,
                                 Answer(ids, Removable(ids)))
                /\ UNCHANGED << stage, pending >>

Clean(successful_only, names) ==
    /\ Handle("clean")
    /\ SaveOrFailure(
          Without({i \in WithStatus(IF successful_only THEN {"Success"} ELSE Results) :
                      tasks[i].group \in names /\ IsTaskRemovable(i, {})}),
          groups, children, "Success")
    /\ UNCHANGED << stage, pending >>

-----------------------------------------------------------------------------
(* group.rs, parallel.rs, reset.rs *)

\* Mutant of NewPool: the worker pool of a new group is not created.
NewPoolMissing(name) == children

\* The pools with an empty one for a new group.
NewPool(name) ==
    [g \in DOMAIN children \cup {name} |-> IF g = name THEN << >> ELSE children[g]]

GroupAdd(name, parallel_tasks) ==
    /\ Handle("group")
    /\ \/ name \in DOMAIN groups /\ Refuse
       \/ /\ name \notin DOMAIN groups
          /\ SaveOrFailure(
                tasks,
                [g \in DOMAIN groups \cup {name} |->
                    IF g = name THEN [status |-> "Running", parallel_tasks |-> parallel_tasks]
                                ELSE groups[g]],
                NewPool(name), "Success")
          /\ UNCHANGED << stage, pending >>

GroupInUse(name) == TasksOfGroup(name) # {}

\* A group without tasks whose worker pool is missing or not empty is a
\* desynchronisation, and shuts the daemon down.
GroupRemove(name) ==
    /\ Handle("group")
    /\ \/ /\ name \notin DOMAIN groups \/ name = Default \/ GroupInUse(name)
          /\ Refuse
       \/ /\ name \in DOMAIN groups \ {Default} /\ ~GroupInUse(name)
          /\ IF name \in DOMAIN children /\ ~HasGroupActiveTasks(name)
             THEN /\ SaveOrFailure(tasks,
                                   [g \in DOMAIN groups \ {name} |-> groups[g]],
                                   [g \in DOMAIN children \ {name} |-> children[g]],
                                   "Success")
                  /\ UNCHANGED << stage, pending >>
             ELSE /\ InitiateShutdown("Emergency", tasks, groups, children)
                  /\ UNCHANGED << tasks, groups >>
                  /\ Return("Failure")

SetParallelTasks(name, parallel_tasks) ==
    /\ Handle("parallel")
    /\ \/ name \notin DOMAIN groups /\ Refuse
       \/ /\ name \in DOMAIN groups
          /\ groups' = [groups EXCEPT ![name].parallel_tasks = parallel_tasks]
          /\ UNCHANGED << tasks, children >>
          /\ Unsaved
          /\ Return("Success")

\* Mutant of Reset: the children are not killed.
ResetNoKill(sel) ==
    /\ Handle("reset")
    /\ sel.kind # "TaskIds"
    /\ \/ UnknownGroup(sel) /\ Refuse
       \/ /\ ~UnknownGroup(sel)
          /\ SaveOrShutdown(tasks, SetGroupStatus(groups, SelectedGroups(sel), "Reset"),
                            children)
          /\ Return("Success")

\* A reset marks the group or all groups and kills their children; the task
\* handler does the rest once they are gone.
Reset(sel) ==
    /\ Handle("reset")
    /\ sel.kind # "TaskIds"
    /\ \/ UnknownGroup(sel) /\ Refuse
       \/ /\ ~UnknownGroup(sel)
          /\ SaveOrShutdown(tasks, SetGroupStatus(groups, SelectedGroups(sel), "Reset"),
                            SignalChildren(children, KilledBy(sel), "Kill"))
          /\ Return("Success")

\* DaemonShutdown and SIGINT/SIGTERM to the daemon.
Shutdown(kind) ==
    /\ stage = "Free"
    /\ "shutdown" \in Commands
    /\ shutdown = "None"
    /\ InitiateShutdown(kind, tasks, groups, children)
    /\ UNCHANGED << tasks, groups, stage >>
    /\ NoRequest

=============================================================================
