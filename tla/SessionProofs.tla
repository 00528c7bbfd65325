--------------------------- MODULE SessionProofs ---------------------------
(***************************************************************************)
(* Proofs about the client's commands of several requests, for every       *)
(* number of clients, tasks and requests and every order in which the      *)
(* daemon, the children and the other clients act in between.              *)
(*                                                                         *)
(* LocksHaveEditors: a lock is taken by EditRequest alone, every other     *)
(* step of the daemon can only lose some (NoNewLock), and a session that   *)
(* edits does nothing but wait for its editor.  Unlocking gives back what  *)
(* previous_status says, so the invariant has its values, too.             *)
(*                                                                         *)
(* WaitEndsInTime: a poll watches again what an earlier one has put aside, *)
(* unless the sets of watched and of finished tasks are disjoint.          *)
(*                                                                         *)
(* ArchiveLosesNothing: of a task it has copied, a session knows that a    *)
(* later copy is in the archive, while the task exists (ContentInv).       *)
(* Removals keep that true since the last of the copies has no later one,  *)
(* so the largest id always stays (LargestId), and no id is used twice.    *)
(*                                                                         *)
(* ArchiveMirrorsRemove: for the same reason the reverse index stays       *)
(* right; then both algorithms compute the tasks from which no unfinished  *)
(* dependent outside the request is reached.                               *)
(***************************************************************************)
EXTENDS ClientSessions, DependencyProofs, WellFoundedInduction, TLAPS

Fields == {"command", "at", "seen", "todo", "status", "immediate", "ids", "finished",
           "sel", "target"}

\* What a place says of the rest of a session.
SessionOK(s) ==
    /\ DOMAIN s = Fields
    /\ s.status \in {"Queued", "Stashed"}
    /\ s.command = "edit" => s.at = "Editor"
    /\ s.at = "Waiting" => /\ s.sel \in WaitSelections
                           /\ s.ids \cap s.finished = {}

SessionsInv == /\ session = [c \in Clients |-> session[c]]
               /\ \A c \in Clients : SessionOK(session[c])

TaskFields == {"group", "status", "previous", "dependencies", "dependents", "priority"}

\* The tasks are records, none would be unlocked into a lock, and the locked ones were
\* locked before.
NoNewLock(ts) ==
    \A i \in DOMAIN ts :
        /\ DOMAIN ts[i] = TaskFields
        /\ ts[i].previous \in Editable
        /\ ts[i].status = "Locked" => i \in WithStatus({"Locked"})

TasksInv == NoNewLock(tasks)

SessionInv == TasksInv /\ SessionsInv /\ LocksHaveEditors

-----------------------------------------------------------------------------
(* What the steps of the daemon do to locks *)

LEMMA NoNewLockNext ==
  ASSUME NoNewLock(tasks')
  PROVE  TasksInv' /\ WithStatus({"Locked"})' \subseteq WithStatus({"Locked"})
BY DEF NoNewLock, TasksInv, WithStatus

LEMMA SetStatusLocks ==
  ASSUME TasksInv, NEW ids, NEW status, status # "Locked"
  PROVE  NoNewLock(SetStatus(ids, status))
BY DEF TasksInv, NoNewLock, SetStatus, WithStatus, TaskFields

LEMMA WithoutLocks ==
  ASSUME TasksInv, NEW ids PROVE NoNewLock(Without(ids))
BY DEF TasksInv, NoNewLock, Without, WithStatus, TaskFields

LEMMA SpawnProcessLocks ==
  ASSUME TasksInv, NEW id, SpawnProcess(id) PROVE NoNewLock(tasks')
BY SetStatusLocks DEF SpawnProcess, SaveOrShutdown, NoChange, TasksInv

LEMMA HandleFinishedTasksLocks ==
  ASSUME TasksInv, HandleFinishedTasks PROVE NoNewLock(tasks')
<1> DEFINE exit == [s \in Finished |-> ChildAt(children, s)]
           first(i) == CHOOSE s \in Finished : exit[s].task = i
           ended(i) == \E s \in Finished : exit[s].task = i
<1>1. CASE tasks' = tasks
  BY <1>1 DEF TasksInv
<1>2. CASE tasks' = [i \in DOMAIN tasks |->
                        IF ended(i) THEN [tasks[i] EXCEPT !.status = exit[first(i)].proc]
                                    ELSE tasks[i]]
  <2>1. \A i : ended(i) => exit[first(i)].proc # "Locked"
    <3>1. ASSUME NEW i, ended(i) PROVE first(i) \in Finished
      BY <3>1
    <3>2. \A s \in Finished : exit[s].proc \in Exited
      BY DEF Finished
    <3>3. QED
      BY <3>1, <3>2 DEF Exited
  <2> HIDE DEF exit, first, ended
  <2>2. QED
    BY <1>2, <2>1 DEF TasksInv, NoNewLock, WithStatus, TaskFields
<1>3. QED
  BY <1>1, <1>2 DEF HandleFinishedTasks, SaveOrShutdown, NoChange

LEMMA DaemonLocks ==
  ASSUME TasksInv, DaemonStep PROVE NoNewLock(tasks')
<1>1. CASE UNCHANGED tasks
  BY <1>1 DEF TasksInv
<1>2. CASE HandleFinishedTasks
  BY <1>2, HandleFinishedTasksLocks
<1>3. CASE HandleGroupResets
  <2>1. PICK reset : tasks' = [i \in DOMAIN tasks \ ResetTasks(reset) |-> tasks[i]]
    BY <1>3 DEF HandleGroupResets
  <2>2. QED
    BY <2>1 DEF TasksInv, NoNewLock, WithStatus
<1>4. CASE EnqueueDelayedTasks
  <2>1. UNCHANGED tasks \/ \E due : tasks' = SetStatus(due, "Queued")
    BY <1>4 DEF EnqueueDelayedTasks, NoChange, SaveOrShutdown
  <2>2. QED
    BY <1>1, <2>1, SetStatusLocks
<1>5. CASE CheckFailedDependencies
  <2>1. \E failed : tasks' = SetStatus(failed, "DependencyFailed")
    BY <1>5 DEF CheckFailedDependencies
  <2>2. QED
    BY <2>1, SetStatusLocks
<1>6. CASE SpawnNew
  <2>1. UNCHANGED tasks \/ \E id \in TaskIds : SpawnProcess(id)
    BY <1>6 DEF SpawnNew, NoChange
  <2>2. QED
    BY <1>1, <2>1, SpawnProcessLocks
<1>7. CASE StartStep
  <2>1. UNCHANGED tasks \/ \E id \in TaskIds : StartNext(id)
    BY <1>7 DEF StartStep, StartDone, SaveOrShutdown
  <2>2. ASSUME NEW id \in TaskIds, StartNext(id) PROVE NoNewLock(tasks')
    <3>1. tasks' = SetStatus(Continued({id}), "Running") \/ SpawnProcess(id)
      BY <2>2 DEF StartNext
    <3>2. QED
      BY <3>1, SetStatusLocks, SpawnProcessLocks
  <2>3. QED
    BY <1>1, <2>1, <2>2
<1>8. CASE HandleShutdown \/ ProcessExit
  BY <1>1, <1>8 DEF HandleShutdown, NoChange, ProcessExit, ProcessChanges
<1>9. QED
  BY <1>2, <1>3, <1>4, <1>5, <1>6, <1>7, <1>8 DEF DaemonStep, TaskHandlerStep

LEMMA GroupLocks ==
  ASSUME TasksInv, NEW name, NEW n, GroupAdd(name, n) \/ GroupRemove(name)
  PROVE  NoNewLock(tasks')
BY DEF GroupAdd, GroupRemove, SaveOrFailure, Refuse, NoChange, TasksInv

LEMMA AddTaskLocks ==
  ASSUME TasksInv, NEW name, NEW status \in {"Queued", "Stashed"}, NEW deps,
         NEW priority, NEW now, AddTask(name, status, deps, priority, now)
  PROVE  NoNewLock(tasks')
<1>1. CASE UNCHANGED tasks
  BY <1>1 DEF TasksInv
<1>2. ASSUME NEW id, tasks' = WithTask(id, NewTask(name, status, deps, priority))
      PROVE  NoNewLock(tasks')
  <2> DEFINE task == NewTask(name, status, deps, priority)
  <2>1. DOMAIN task = TaskFields /\ task.previous \in Editable /\ task.status # "Locked"
    BY DEF NewTask, TaskFields, Editable
  <2> HIDE DEF task
  <2>2. QED
    BY <1>2, <2>1 DEF TasksInv, NoNewLock, WithTask, WithStatus, TaskFields, task
<1>3. UNCHANGED tasks
      \/ \E id : tasks' = WithTask(id, NewTask(name, status, deps, priority))
  BY DEF AddTask, Refuse, NoChange, SaveOrFailure
<1>4. QED
  BY <1>1, <1>2, <1>3

LEMMA RestartLocks ==
  ASSUME TasksInv, NEW ids, NEW status \in {"Queued", "Stashed"}, NEW priority, NEW now,
         RestartMultiple(ids, status, priority, now)
  PROVE  NoNewLock(tasks')
BY DEF RestartMultiple, TasksInv, NoNewLock, WithStatus, TaskFields

LEMMA RemoveLocks ==
  ASSUME TasksInv, NEW ids, Remove(ids) PROVE NoNewLock(tasks')
<1>1. UNCHANGED tasks \/ \E removed : tasks' = Without(removed)
  BY DEF Remove, NoChange, SaveOrFailure
<1>2. QED
  BY <1>1, WithoutLocks DEF TasksInv

\* Whatever comes of an edit, no lock is added, and of the tasks it unlocks none stays
\* locked.
LEMMA UnlockedLocks ==
  ASSUME TasksInv, NEW ids
  PROVE  /\ NoNewLock(Unlocked(ids))
         /\ \A i \in ids \cap DOMAIN tasks : Unlocked(ids)[i].status # "Locked"
BY DEF TasksInv, NoNewLock, Unlocked, WithStatus, TaskFields, Editable

LEMMA EditLocks ==
  ASSUME TasksInv, NEW edits, Edit(edits)
  PROVE  /\ NoNewLock(tasks')
         /\ response' = "Success" => DOMAIN edits \cap WithStatus({"Locked"})' = {}
<1>1. CASE UNCHANGED tasks /\ response' = "Failure"
  BY <1>1 DEF TasksInv
<1> DEFINE edited == [i \in DOMAIN tasks |->
              IF i \in DOMAIN edits
              THEN [Unlocked({i})[i] EXCEPT !.dependencies = edits[i].dependencies,
                                            !.priority = edits[i].priority]
              ELSE tasks[i]]
           dropped(d) ==
              {i \in DOMAIN edits : d \in tasks[i].dependencies \ edits[i].dependencies}
           gained(d) ==
              {i \in DOMAIN edits : d \in edits[i].dependencies \ tasks[i].dependencies}
<1>2. CASE tasks' = [d \in DOMAIN tasks |-> [edited[d] EXCEPT
                        !.dependents = (@ \ dropped(d)) \cup gained(d)]]
  <2>1. \A i \in DOMAIN tasks :
           /\ DOMAIN edited[i] = TaskFields /\ edited[i].previous \in Editable
           /\ i \in DOMAIN edits => edited[i].status # "Locked"
           /\ i \notin DOMAIN edits => edited[i] = tasks[i]
    <3>1. ASSUME NEW i \in DOMAIN tasks
          PROVE  /\ DOMAIN Unlocked({i})[i] = TaskFields
                 /\ Unlocked({i})[i].previous \in Editable
                 /\ Unlocked({i})[i].status # "Locked"
      BY UnlockedLocks DEF NoNewLock, Unlocked
    <3>2. QED
      BY <3>1 DEF TasksInv, NoNewLock, TaskFields
  <2> HIDE DEF edited, dropped, gained
  <2>2. /\ DOMAIN tasks' = DOMAIN tasks
        /\ \A i \in DOMAIN tasks :
              /\ DOMAIN tasks'[i] = TaskFields /\ tasks'[i].previous \in Editable
              /\ tasks'[i].status = edited[i].status
    BY <1>2, <2>1 DEF TaskFields
  <2>3. QED
    BY <2>1, <2>2 DEF TasksInv, NoNewLock, WithStatus
<1>3. QED
  BY <1>1, <1>2 DEF Edit, Refuse, NoChange, Return, SaveOrFailure

LEMMA EditRequestLocks ==
  ASSUME TasksInv, NEW ids, EditRequest(ids)
  PROVE  /\ TasksInv'
         /\ WithStatus({"Locked"})' \subseteq
                WithStatus({"Locked"}) \cup (ids \cap WithStatus(Editable))
<1>1. PICK locked \in SUBSET (ids \cap WithStatus(Editable)) :
          tasks' = [i \in DOMAIN tasks |->
                      IF i \in locked
                      THEN [tasks[i] EXCEPT !.status = "Locked", !.previous = tasks[i].status]
                      ELSE tasks[i]]
  BY DEF EditRequest
<1>2. QED
  BY <1>1 DEF TasksInv, NoNewLock, WithStatus, TaskFields

-----------------------------------------------------------------------------
(* What clients make of it *)

\* A step of the daemon, or of a client that is not at its editor.
LEMMA LocksKept ==
  ASSUME SessionInv, TasksInv', NEW ids, LeaveLocked(ids),
         WithStatus({"Locked"})' \subseteq WithStatus({"Locked"}),
         \A c \in Clients :
             session[c].command = "edit" =>
                 session'[c] = session[c]
                 \/ session[c].ids \cap WithStatus({"Locked"})' \subseteq ids
  PROVE  LocksHaveEditors'
BY DEF SessionInv, LocksHaveEditors, LeaveLocked, WithStatus

LEMMA ContinueSessions ==
  ASSUME SessionsInv, NEW c \in Clients, NEW s, Continue(c, s), SessionOK(s)
  PROVE  /\ SessionsInv'
         /\ session'[c] = s
         /\ \A d \in Clients \ {c} : session'[d] = session[d]
BY DEF SessionsInv, Continue

LEMMA IdleFields ==
  /\ DOMAIN Idle = Fields /\ DOMAIN Over = Fields
  /\ Idle.status = "Stashed" /\ Over.status = "Stashed"
  /\ Idle.command = "none" /\ Over.command = "none" /\ Over.at = "Over"
  /\ Idle.ids = {} /\ Idle.finished = {}
BY DEF Idle, Over, Fields

LEMMA OverOK == SessionOK(Over)
BY IdleFields DEF SessionOK

LEMMA NewFields ==
  ASSUME NEW command, NEW at
  PROVE  /\ DOMAIN New(command, at) = Fields
         /\ New(command, at).command = command /\ New(command, at).at = at
         /\ New(command, at).status = "Stashed"
         /\ New(command, at).ids = {} /\ New(command, at).finished = {}
BY IdleFields DEF New, Fields

\* The step of a client that is not at its editor, and whose request adds no lock.
LEMMA ClientSteps ==
  ASSUME SessionInv, NEW c \in Clients, session[c].command # "edit",
         NEW s, Continue(c, s), SessionOK(s), NoNewLock(tasks'),
         LeaveLocked({}) \/ (OnlyLooks /\ UNCHANGED left)
  PROVE  SessionInv'
<1>1. TasksInv' /\ WithStatus({"Locked"})' \subseteq WithStatus({"Locked"})
  BY NoNewLockNext
<1>2. /\ SessionsInv' /\ session'[c] = s
      /\ \A d \in Clients \ {c} : session'[d] = session[d]
  BY ContinueSessions DEF SessionInv
<1>3. LocksHaveEditors'
  <2>1. CASE LeaveLocked({})
    BY <1>1, <1>2, <2>1, LocksKept
  <2>2. CASE UNCHANGED left
    BY <1>1, <1>2, <2>2 DEF SessionInv, LocksHaveEditors
  <2>3. QED
    BY <2>1, <2>2
<1>4. QED
  BY <1>1, <1>2, <1>3 DEF SessionInv

LEMMA BeginEditInv ==
  ASSUME SessionInv, NEW c \in Clients, NEW ids, BeginEdit(c, ids) PROVE SessionInv'
<1>1. /\ TasksInv'
      /\ WithStatus({"Locked"})' \subseteq
             WithStatus({"Locked"}) \cup (ids \cap WithStatus(Editable))
  BY EditRequestLocks DEF BeginEdit, SessionInv
<1>2. session[c].command # "edit"
  BY DEF SessionInv, SessionsInv, SessionOK, BeginEdit, Begins, IsAt
<1>3. CASE End(c) /\ LeaveLocked(ids \cap WithStatus(Editable))
  <2>1. /\ SessionsInv' /\ \A d \in Clients \ {c} : session'[d] = session[d]
    BY <1>3, OverOK, ContinueSessions DEF SessionInv, End
  <2>2. LocksHaveEditors'
    BY <1>1, <1>2, <1>3, <2>1 DEF SessionInv, LocksHaveEditors, LeaveLocked
  <2>3. QED
    BY <1>1, <2>1, <2>2 DEF SessionInv
<1>4. ASSUME Continue(c, [New("edit", "Editor") EXCEPT
                             !.ids = ids, !.seen = [i \in ids |-> tasks[i]]]),
             LeaveLocked({})
      PROVE  SessionInv'
  <2> DEFINE s == [New("edit", "Editor") EXCEPT
                      !.ids = ids, !.seen = [i \in ids |-> tasks[i]]]
  <2>1. SessionOK(s) /\ s.command = "edit" /\ s.ids = ids
    BY NewFields DEF SessionOK, Fields
  <2>2. Continue(c, s)
    BY <1>4
  <2> HIDE DEF s
  <2>3. /\ SessionsInv' /\ session'[c] = s
        /\ \A d \in Clients \ {c} : session'[d] = session[d]
    BY <2>1, <2>2, ContinueSessions DEF SessionInv
  <2>4. LocksHaveEditors'
    BY <1>1, <1>2, <1>4, <2>1, <2>3 DEF SessionInv, LocksHaveEditors, LeaveLocked
  <2>5. QED
    BY <1>1, <2>3, <2>4 DEF SessionInv
<1>5. QED
  BY <1>3, <1>4 DEF BeginEdit

\* Edits that are accepted unlock what was sent, and what was deleted from the file is
\* left; a refused request unlocks nothing.
LEMMA EndOfEdit ==
  ASSUME SessionInv, NEW c \in Clients, End(c), NEW ids, LeaveLocked(ids),
         NoNewLock(tasks'), session[c].ids \cap WithStatus({"Locked"})' \subseteq ids
  PROVE  SessionInv'
<1>1. TasksInv' /\ WithStatus({"Locked"})' \subseteq WithStatus({"Locked"})
  BY NoNewLockNext
<1>2. /\ SessionsInv' /\ \A d \in Clients \ {c} : session'[d] = session[d]
  BY OverOK, ContinueSessions DEF SessionInv, End
<1>3. LocksHaveEditors'
  BY <1>1, <1>2, LocksKept
<1>4. QED
  BY <1>1, <1>2, <1>3 DEF SessionInv

LEMMA SendEditsInv ==
  ASSUME SessionInv, NEW c \in Clients, SendEdits(c) PROVE SessionInv'
<1>1. PICK mode \in EditModes : \E sent \in Submitted(mode, session[c].ids) :
        \E edits \in EditsOf(c, sent) :
          /\ Edit(edits)
          /\ LeaveLocked(IF response' = "Success" THEN session[c].ids \ sent
                                                  ELSE session[c].ids)
  BY DEF SendEdits
<1>2a. PICK sent \in Submitted(mode, session[c].ids) : \E edits \in EditsOf(c, sent) :
          /\ Edit(edits)
          /\ LeaveLocked(IF response' = "Success" THEN session[c].ids \ sent
                                                  ELSE session[c].ids)
  BY <1>1
<1>2. PICK edits \in EditsOf(c, sent) :
          /\ Edit(edits)
          /\ LeaveLocked(IF response' = "Success" THEN session[c].ids \ sent
                                                  ELSE session[c].ids)
  BY <1>2a
<1>3. DOMAIN edits = sent
  BY <1>2 DEF EditsOf
<1>4. /\ NoNewLock(tasks')
      /\ response' = "Success" => sent \cap WithStatus({"Locked"})' = {}
  BY <1>2, <1>3, EditLocks DEF SessionInv
<1>5. End(c)
  BY DEF SendEdits
<1>6. QED
  BY <1>2, <1>4, <1>5, EndOfEdit

LEMMA RestoreEditsInv ==
  ASSUME SessionInv, NEW c \in Clients, RestoreEdits(c) PROVE SessionInv'
<1>1. tasks' = Unlocked(session[c].ids) /\ End(c) /\ LeaveLocked({})
  BY DEF RestoreEdits, EditRestore
<1>2. NoNewLock(tasks') /\ session[c].ids \cap WithStatus({"Locked"})' = {}
  BY <1>1, UnlockedLocks DEF SessionInv, WithStatus, Unlocked
<1>3. QED
  BY <1>1, <1>2, EndOfEdit

LEMMA AddingOK ==
  ASSUME NEW s, SessionOK(s), s.command # "edit" PROVE SessionOK(Adding(s))
BY OverOK DEF Adding

\* Commands that only look: their session begins somewhere else than in an editor.
LEMMA LooksInv ==
  ASSUME SessionInv, NEW c \in Clients, NEW command, Looks(c, command),
         NEW s, Continue(c, s), SessionOK(s)
  PROVE  SessionInv'
<1>1. session[c].command # "edit"
  BY DEF SessionInv, SessionsInv, SessionOK, Looks, Begins, IsAt
<1>2. NoNewLock(tasks') /\ OnlyLooks /\ UNCHANGED left
  BY DEF SessionInv, TasksInv, Looks, OnlyLooks, vars
<1>3. QED
  BY <1>1, <1>2, ClientSteps

LEMMA BeginAddingInv ==
  ASSUME SessionInv, NEW c \in Clients, NEW ids, NEW status \in {"Queued", "Stashed"},
         NEW immediate, NEW toGroup, NEW count, NEW priorities, NEW group,
         \/ BeginRestart(c, ids, status, immediate)
         \/ BeginRestartInPlace(c, ids, status, immediate)
         \/ BeginCopy(c, ids, status, immediate, toGroup, count)
         \/ BeginImport(c, priorities, group)
  PROVE  SessionInv'
<1>1. ASSUME NEW command \in {"restart", "copy"}, NEW todo, Looks(c, command),
             Continue(c, Adding([New(command, "Adding") EXCEPT
                  !.todo = todo, !.status = status, !.immediate = immediate]))
      PROVE  SessionInv'
  <2> DEFINE s == [New(command, "Adding") EXCEPT
                      !.todo = todo, !.status = status, !.immediate = immediate]
  <2>1. SessionOK(s) /\ s.command # "edit"
    BY NewFields DEF SessionOK, Fields
  <2>2. Continue(c, Adding(s))
    BY <1>1
  <2> HIDE DEF s
  <2>3. QED
    BY <1>1, <2>1, <2>2, AddingOK, LooksInv
<1>2. CASE BeginRestart(c, ids, status, immediate)
  BY <1>1, <1>2 DEF BeginRestart
<1>3. CASE BeginCopy(c, ids, status, immediate, toGroup, count)
  BY <1>1, <1>3 DEF BeginCopy
<1>4. CASE BeginRestartInPlace(c, ids, status, immediate)
  <2>1. PICK done, seen :
            Continue(c, [New("restart_in_place", "Replacing") EXCEPT
                !.ids = done, !.seen = seen, !.status = status, !.immediate = immediate])
    BY <1>4 DEF BeginRestartInPlace
  <2> DEFINE s == [New("restart_in_place", "Replacing") EXCEPT
                !.ids = done, !.seen = seen, !.status = status, !.immediate = immediate]
  <2>2. SessionOK(s)
    BY NewFields DEF SessionOK, Fields
  <2>3. Continue(c, s) /\ Looks(c, "restart_in_place")
    BY <1>4, <2>1 DEF BeginRestartInPlace
  <2> HIDE DEF s
  <2>4. QED
    BY <2>2, <2>3, LooksInv
<1>5. CASE BeginImport(c, priorities, group)
  <2>1. PICK todo : Continue(c, Adding([New("import", "Adding") EXCEPT !.todo = todo]))
    BY <1>5 DEF BeginImport
  <2> DEFINE s == [New("import", "Adding") EXCEPT !.todo = todo]
  <2>2. SessionOK(s) /\ s.command # "edit"
    BY NewFields DEF SessionOK, Fields
  <2>3. Continue(c, Adding(s)) /\ Looks(c, "import")
    BY <1>5, <2>1 DEF BeginImport
  <2> HIDE DEF s
  <2>4. QED
    BY <2>2, <2>3, AddingOK, LooksInv
<1>6. QED
  BY <1>2, <1>3, <1>4, <1>5

LEMMA ReplaceInv ==
  ASSUME SessionInv, NEW c \in Clients, Replace(c) PROVE SessionInv'
<1>1. SessionOK(session[c]) /\ session[c].at = "Replacing"
  BY DEF SessionInv, SessionsInv, Replace, IsAt
<1>2. session[c].command # "edit" /\ session[c].status \in {"Queued", "Stashed"}
  BY <1>1 DEF SessionOK
<1>3. PICK ids, priority, now : RestartMultiple(ids, session[c].status, priority, now)
  BY DEF Replace
<1>4. NoNewLock(tasks')
  BY <1>2, <1>3, RestartLocks DEF SessionInv
<1>5. Continue(c, Over) /\ LeaveLocked({})
  BY DEF Replace, End
<1>6. QED
  BY <1>2, <1>4, <1>5, OverOK, ClientSteps

LEMMA AddNextInv ==
  ASSUME SessionInv, NEW c \in Clients, AddNext(c) PROVE SessionInv'
<1> DEFINE s == session[c]
<1>1. SessionOK(s) /\ s.at = "Adding" /\ s.command # "edit"
  BY DEF SessionInv, SessionsInv, SessionOK, AddNext, IsAt
<1>2. PICK name, priority, now : AddTask(name, s.status, {}, priority, now)
  BY DEF AddNext
<1>3. NoNewLock(tasks')
  BY <1>1, <1>2, AddTaskLocks DEF SessionInv, SessionOK
<1>4. PICK ids, todo :
          Continue(c, IF Abandons(s.command, response') THEN Over
                      ELSE Adding([s EXCEPT !.todo = todo, !.ids = ids]))
  BY DEF AddNext
<1> DEFINE t == [s EXCEPT !.todo = todo, !.ids = ids]
           next == IF Abandons(s.command, response') THEN Over ELSE Adding(t)
<1>5. SessionOK(t) /\ t.command # "edit"
  BY <1>1 DEF SessionOK, Fields
<1>6. Continue(c, next)
  BY <1>4
<1>7. SessionOK(next)
  <2> HIDE DEF t
  <2>1. QED
    BY <1>5, OverOK, AddingOK
<1>8. LeaveLocked({})
  BY DEF AddNext
<1> HIDE DEF next, s
<1>9. QED
  BY <1>1, <1>3, <1>6, <1>7, <1>8, ClientSteps DEF s

LEMMA ArchiveInv ==
  ASSUME SessionInv, NEW c \in Clients, NEW ids,
         BeginArchive(c, ids) \/ CreateArchive(c) \/ RemoveSources(c)
  PROVE  SessionInv'
<1>1. CASE BeginArchive(c, ids)
  <2> DEFINE at == IF Archive \in DOMAIN groups THEN "Adding" ELSE "Grouping"
  <2>1. PICK todo : Continue(c, [New("archive", at) EXCEPT !.todo = todo])
    BY <1>1 DEF BeginArchive
  <2> DEFINE s == [New("archive", at) EXCEPT !.todo = todo]
  <2>2. SessionOK(s)
    BY NewFields DEF SessionOK, Fields
  <2>3. Continue(c, s) /\ Looks(c, "archive")
    BY <1>1, <2>1 DEF BeginArchive
  <2> HIDE DEF s
  <2>4. QED
    BY <2>2, <2>3, LooksInv
<1>2. CASE CreateArchive(c)
  <2>1. SessionOK(session[c]) /\ session[c].command # "edit"
    BY <1>2 DEF SessionInv, SessionsInv, SessionOK, CreateArchive, IsAt
  <2> DEFINE t == [session[c] EXCEPT !.at = "Adding"]
             s == IF response' = "Success" THEN t ELSE Over
  <2>2. SessionOK(t)
    BY <2>1 DEF SessionOK, Fields
  <2>3. SessionOK(s)
    BY <2>2, OverOK
  <2>4. Continue(c, s) /\ LeaveLocked({})
    BY <1>2 DEF CreateArchive
  <2>5. NoNewLock(tasks')
    BY <1>2, GroupLocks DEF SessionInv, CreateArchive
  <2> HIDE DEF s
  <2>6. QED
    BY <2>1, <2>3, <2>4, <2>5, ClientSteps
<1>3. CASE RemoveSources(c)
  <2>1. session[c].command # "edit"
    BY <1>3 DEF RemoveSources
  <2>2. NoNewLock(tasks') /\ Continue(c, Over) /\ LeaveLocked({})
    BY <1>3, RemoveLocks DEF SessionInv, RemoveSources, End
  <2>3. QED
    BY <2>1, <2>2, OverOK, ClientSteps
<1>4. QED
  BY <1>1, <1>2, <1>3

LEMMA BeginWaitInv ==
  ASSUME SessionInv, NEW c \in Clients, NEW sel \in WaitSelections, NEW target,
         BeginWait(c, sel, target)
  PROVE  SessionInv'
<1> DEFINE s == [New("wait", "Waiting") EXCEPT !.sel = sel, !.target = target]
<1>1. SessionOK(s)
  BY NewFields DEF SessionOK, Fields
<1>2. Continue(c, s) /\ Looks(c, "wait")
  BY DEF BeginWait
<1> HIDE DEF s
<1>3. QED
  BY <1>1, <1>2, LooksInv

\* What has been reached is put aside, and only then.
LEMMA PollInv ==
  ASSUME SessionInv, NEW c \in Clients, Poll(c) PROVE SessionInv'
<1>1. SessionOK(session[c]) /\ session[c].at = "Waiting"
  BY DEF SessionInv, SessionsInv, Poll, IsAt
<1>2. session[c].command # "edit"
  BY <1>1 DEF SessionOK
<1>3. SessionOK(AfterPoll(c))
  <2> DEFINE reached == {i \in Watched(c) : ReachedTarget(i, session[c].target)}
             s == [session[c] EXCEPT !.ids = Watched(c) \ reached,
                                     !.finished = @ \cup reached]
  <2>1. AfterPoll(c) = Over \/ AfterPoll(c) = s
    BY DEF AfterPoll
  <2>2. Watched(c) \cap session[c].finished = {}
    BY <1>1 DEF SessionOK, Watched
  <2> HIDE DEF reached
  <2>3. SessionOK(s)
    BY <1>1, <2>2 DEF SessionOK, Fields
  <2>4. QED
    BY <2>1, <2>3, OverOK
<1>4. NoNewLock(tasks') /\ OnlyLooks /\ UNCHANGED left /\ Continue(c, AfterPoll(c))
  BY DEF SessionInv, TasksInv, Poll, OnlyLooks, vars
<1>5. QED
  BY <1>2, <1>3, <1>4, ClientSteps

LEMMA QuitInv ==
  ASSUME SessionInv, NEW c \in Clients, Quit(c) PROVE SessionInv'
<1>1. NoNewLock(tasks') /\ End(c) /\ LeaveLocked(session[c].ids)
  BY DEF Quit, vars, SessionInv, TasksInv
<1>2. QED
  BY <1>1, EndOfEdit

LEMMA DaemonInv ==
  ASSUME SessionInv, DaemonStep \/ OtherClients, UNCHANGED session, LeaveLocked({})
  PROVE  SessionInv'
<1>1. NoNewLock(tasks')
  BY DaemonLocks, GroupLocks DEF SessionInv, OtherClients, ClientGroup
<1>2. TasksInv' /\ WithStatus({"Locked"})' \subseteq WithStatus({"Locked"})
  BY <1>1, NoNewLockNext
<1>3. LocksHaveEditors'
  BY <1>2, LocksKept
<1>4. QED
  BY <1>2, <1>3 DEF SessionInv, SessionsInv

-----------------------------------------------------------------------------
LEMMA SessionInitInv == SessionInit => SessionInv
<1> SUFFICES ASSUME SessionInit PROVE SessionInv
  OBVIOUS
<1>1. \A i \in DOMAIN tasks : tasks[i] \in Task /\ tasks[i].status # "Locked"
  BY InitialTasksAssumption DEF SessionInit, IsPartialFn
<1>2. TasksInv
  BY <1>1 DEF TasksInv, NoNewLock, Task, TaskFields
<1>3. SessionOK(Idle)
  BY IdleFields DEF SessionOK, Idle
<1>4. SessionsInv
  BY <1>3 DEF SessionInit, SessionsInv
<1>5. LocksHaveEditors
  BY <1>1 DEF LocksHaveEditors, WithStatus
<1>6. QED
  BY <1>2, <1>4, <1>5 DEF SessionInv

LEMMA SessionNextInv == SessionInv /\ [SessionNext]_<<vars, sessionVars>> => SessionInv'
<1> SUFFICES ASSUME SessionInv, [SessionNext]_<<vars, sessionVars>> PROVE SessionInv'
  OBVIOUS
<1>1. CASE (DaemonStep \/ OtherClients) /\ UNCHANGED session /\ LeaveLocked({})
  BY <1>1, DaemonInv
<1>2. ASSUME NEW c \in Clients, EditSession(c) PROVE SessionInv'
  BY <1>2, BeginEditInv, SendEditsInv, RestoreEditsInv DEF EditSession
<1>3. ASSUME NEW c \in Clients, AddingSession(c) PROVE SessionInv'
  <2>1. CASE Replace(c) \/ AddNext(c)
    BY <2>1, ReplaceInv, AddNextInv
  <2>2. CASE \E n \in 1 .. MaxImported, group \in GroupNames :
                \E priorities \in [1 .. n -> Priorities] : BeginImport(c, priorities, group)
    <3>1. PICK priorities, group : BeginImport(c, priorities, group)
      BY <2>2
    <3>2. "Queued" \in {"Queued", "Stashed"}
      OBVIOUS
    <3>3. QED
      BY <3>1, <3>2, BeginAddingInv
  <2>3. ASSUME NEW ids, NEW status \in {"Queued", "Stashed"}, NEW immediate,
               \/ BeginRestart(c, ids, status, immediate)
               \/ BeginRestartInPlace(c, ids, status, immediate)
               \/ \E toGroup \in ToGroup, count \in 1 .. MaxCopies :
                      BeginCopy(c, ids, status, immediate, toGroup, count)
        PROVE  SessionInv'
    BY <2>3, BeginAddingInv
  <2>4. QED
    BY <1>3, <2>1, <2>2, <2>3 DEF AddingSession
<1>4. ASSUME NEW c \in Clients, ArchiveSession(c) PROVE SessionInv'
  BY <1>4, ArchiveInv DEF ArchiveSession
<1>5. ASSUME NEW c \in Clients, WaitSession(c) PROVE SessionInv'
  BY <1>5, BeginWaitInv, PollInv DEF WaitSession
<1>6. ASSUME NEW c \in Clients, Quit(c) PROVE SessionInv'
  BY <1>6, QuitInv
<1>7. CASE UNCHANGED <<vars, sessionVars>>
  BY <1>7 DEF vars, sessionVars, SessionInv, TasksInv, NoNewLock, WithStatus, SessionsInv,
              LocksHaveEditors
<1>8. QED
  BY <1>1, <1>2, <1>3, <1>4, <1>5, <1>6, <1>7 DEF SessionNext

\* edit.rs:46-49: whatever other clients and the daemon do meanwhile, a lock belongs to
\* the editor of some client, or was left by a session that was killed, was refused, or
\* had the task deleted from its file.
THEOREM LocksAlwaysHaveEditors == SessionSpec => []LocksHaveEditors
<1>1. SessionInv => LocksHaveEditors
  BY DEF SessionInv
<1>2. QED
  BY <1>1, SessionInitInv, SessionNextInv, PTL DEF SessionSpec

\* A poll that puts the reached tasks aside and watches the rest decides as one that
\* looks at every selected task that has not been seen at its target before.
LEMMA PollDecides == SessionsInv => WaitEndsInTime
<1> SUFFICES ASSUME SessionsInv, NEW c \in Clients, IsAt(c, "Waiting")
             PROVE  LET s == session[c]
                        waitedFor == {i \in Selected(s.sel) :
                            i \notin s.finished /\ ~ReachedTarget(i, s.target)}
                        hopeless == s.target = "Success"
                            /\ \E i \in waitedFor : HasFailed(tasks[i])
                    IN  AfterPoll(c) = Over <=> waitedFor = {} \/ hopeless
  BY DEF WaitEndsInTime
<1> DEFINE s == session[c]
           waitedFor == {i \in Selected(s.sel) :
                             i \notin s.finished /\ ~ReachedTarget(i, s.target)}
           hopeless == s.target = "Success" /\ \E i \in waitedFor : HasFailed(tasks[i])
           reached == {i \in Watched(c) : ReachedTarget(i, s.target)}
           failed == {i \in Watched(c) \cap DOMAIN tasks : HasFailed(tasks[i])}
           next == [s EXCEPT !.ids = Watched(c) \ reached, !.finished = @ \cup reached]
<1>1. SessionOK(s) /\ s.at = "Waiting"
  BY DEF SessionsInv, IsAt
<1>2. Watched(c) = Selected(s.sel) \ s.finished
  BY <1>1 DEF SessionOK, Watched
<1>3. waitedFor = {} <=> Watched(c) \subseteq reached
  BY <1>2
<1>4. Selected(s.sel) \subseteq DOMAIN tasks
  BY <1>1, WaitAssumption DEF SessionOK, TaskSelection, Selected, TasksOfGroup
<1>5. \A i \in DOMAIN tasks :
          HasFailed(tasks[i]) => ~ReachedTarget(i, "Success")
  BY DEF HasFailed, ReachedTarget, WithStatus
<1>6. hopeless <=> s.target = "Success" /\ failed # {}
  BY <1>2, <1>4, <1>5
<1>7. AfterPoll(c) = IF Watched(c) \subseteq reached \/ (s.target = "Success" /\ failed # {})
                     THEN Over ELSE next
  BY DEF AfterPoll
<1>8. next # Over
  BY <1>1, IdleFields DEF SessionOK, Fields
<1> HIDE DEF next, reached, failed, waitedFor, hopeless
<1>9. AfterPoll(c) = Over <=> waitedFor = {} \/ hopeless
  BY <1>3, <1>6, <1>7, <1>8
<1>10. QED
  BY <1>9 DEF waitedFor, hopeless

\* wait.rs: a wait ends at the first poll at which nothing is left to wait for, or
\* success has become impossible, although tasks are added, removed, restarted and
\* moved between the polls.
THEOREM WaitsEndInTime == SessionSpec => []WaitEndsInTime
<1>1. SessionInv => WaitEndsInTime
  BY PollDecides DEF SessionInv
<1>2. QED
  BY <1>1, SessionInitInv, SessionNextInv, PTL DEF SessionSpec


-----------------------------------------------------------------------------
(* The largest id *)

\* A set of ids that is not empty has a largest element: the sets of what lies above an
\* element are finite, and a smallest of them is empty.
LEMMA LargestId == \A T \in SUBSET TaskIds : T # {} => \E m \in T : \A i \in T : i <= m
<1> SUFFICES ASSUME NEW T \in SUBSET TaskIds, T # {}
             PROVE  \E m \in T : \A i \in T : i <= m
  OBVIOUS
<1> DEFINE above(i) == {j \in T : i < j}
           R == StrictSubsetOrdering(T)
           F == {above(i) : i \in T}
<1>1. IsFiniteSet(T)
  <2>1. 0 \in Int /\ MaxTasks - 1 \in Int
    BY BoundsAssumption
  <2>2. IsFiniteSet(TaskIds)
    BY <2>1, FS_Interval DEF TaskIds
  <2>3. QED
    BY <2>2, FS_Subset
<1>2. F \subseteq FiniteSubsetsOf(T) /\ F # {}
  <2>1. ASSUME NEW i \in T PROVE above(i) \in FiniteSubsetsOf(T)
    <3>1. above(i) \in SUBSET T
      OBVIOUS
    <3>2. IsFiniteSet(above(i))
      BY <1>1, <3>1, FS_Subset
    <3>3. QED
      BY <3>1, <3>2 DEF FiniteSubsetsOf
  <2>2. QED
    BY <2>1
<1>3. IsWellFoundedOn(R, FiniteSubsetsOf(T))
  BY FS_StrictSubsetOrderingWellFounded
<1> HIDE DEF R, F
<1>4. PICK least \in F : \A x \in F : ~(<<x, least>> \in R)
  BY <1>2, <1>3, WFMin
<1>5. PICK m \in T : least = above(m)
  BY DEF F
<1>6. \A i \in T : i \in Int
  BY BoundsAssumption DEF TaskIds
<1>7. ASSUME NEW i \in T, m < i PROVE FALSE
  <2>1. above(i) \subseteq above(m) /\ i \in above(m) /\ i \notin above(i)
    BY <1>6, <1>7
  <2>2. above(i) \in F
    BY DEF F
  <2>3. <<above(i), above(m)>> \in R
    BY <2>1 DEF R, StrictSubsetOrdering
  <2>4. QED
    BY <1>4, <1>5, <2>2, <2>3
<1>8. QED
  BY <1>6, <1>7

-----------------------------------------------------------------------------
(* What sessions remember of tasks *)

\* An id that is not above all: it is not given out again.
Known(ts, i) == \E j \in DOMAIN ts : i <= j

\* The same content, unless users change it at will.
Same(priority, other) == EditsContent \/ priority = other

\* A task of which there is a later copy in the archive.
Archived(ts, i) ==
    \E j \in DOMAIN ts :
        i < j /\ ts[j].group = Archive /\ Same(ts[j].priority, ts[i].priority)

Remembers(ts, i, priority) ==
    i \in TaskIds /\ Known(ts, i) /\ (i \in DOMAIN ts => Same(ts[i].priority, priority))

EditMemory(ts, s) ==
    s.command \in {"edit", "restart_in_place"} =>
        \A i \in s.ids : Remembers(ts, i, s.seen[i].priority)

ArchiveMemory(ts, s) ==
    s.command = "archive" =>
        /\ \E S : s.todo \in Seq(S)
        /\ \A k \in DOMAIN s.todo :
              /\ Remembers(ts, s.todo[k].from, s.todo[k].priority)
              /\ s.todo[k].group = Archive
        /\ \A i \in s.ids :
              i \in TaskIds /\ Known(ts, i) /\ (i \in DOMAIN ts => Archived(ts, i))

\* The place tells the command of whoever changes ids or priorities.
PlaceOfCommand(s) ==
    /\ s.at = "Editor" => s.command = "edit"
    /\ s.at = "Replacing" => s.command = "restart_in_place"
    /\ s.command = "restart_in_place" => s.at = "Replacing"
    /\ s.command = "archive" => s.at \in {"Adding", "Grouping"}
    /\ s.at = "Grouping" => s.command = "archive"

Memory(ts, s) == PlaceOfCommand(s) /\ EditMemory(ts, s) /\ ArchiveMemory(ts, s)

\* No client of these sessions resets a group.
NoReset(gs) ==
    \A g \in DOMAIN gs :
        DOMAIN gs[g] = {"status", "parallel_tasks"} /\ gs[g].status # "Reset"

ContentInv ==
    /\ SessionInv
    /\ NoReset(groups)
    /\ DOMAIN tasks \subseteq TaskIds
    /\ \A c \in Clients : Memory(tasks, session[c])

\* What all steps leave true of what is remembered: the largest id never goes, and no
\* id in use or below is given out again.
Preserves ==
    /\ DOMAIN tasks' \subseteq TaskIds
    /\ \A i \in TaskIds : Known(tasks, i) => Known(tasks', i)
    /\ \A i \in TaskIds : Known(tasks, i) /\ i \in DOMAIN tasks' =>
          i \in DOMAIN tasks /\ Same(tasks'[i].priority, tasks[i].priority)
    /\ \A i \in DOMAIN tasks \cap DOMAIN tasks' : Archived(tasks, i) => Archived(tasks', i)

LEMMA PreservesMemory ==
  ASSUME Preserves, NEW s, Memory(tasks, s) PROVE Memory(tasks', s)
<1>1. \A i, p : Remembers(tasks, i, p) => Remembers(tasks', i, p)
  BY DEF Preserves, Remembers, Same
<1>2. EditMemory(tasks', s)
  BY <1>1 DEF Memory, EditMemory
<1>3. ArchiveMemory(tasks', s)
  <2> SUFFICES ASSUME s.command = "archive" PROVE ArchiveMemory(tasks', s)
    BY DEF ArchiveMemory
  <2>1. \A k \in DOMAIN s.todo : Remembers(tasks', s.todo[k].from, s.todo[k].priority)
    BY <1>1 DEF Memory, ArchiveMemory
  <2>2. \A i \in s.ids :
           i \in TaskIds /\ Known(tasks', i) /\ (i \in DOMAIN tasks' => Archived(tasks', i))
    BY DEF Memory, ArchiveMemory, Preserves
  <2>3. QED
    BY <2>1, <2>2 DEF Memory, ArchiveMemory
<1>4. QED
  BY <1>2, <1>3 DEF Memory

\* The tasks stay, with their groups and what stands for their content.
KeepsTasks(ts) ==
    /\ DOMAIN ts = DOMAIN tasks
    /\ \A i \in DOMAIN ts :
          ts[i].group = tasks[i].group /\ Same(ts[i].priority, tasks[i].priority)

\* So do the lists.
KeepsLists(ts) ==
    /\ DOMAIN ts = DOMAIN tasks
    /\ \A i \in DOMAIN ts : /\ ts[i].dependencies = tasks[i].dependencies
                           /\ ts[i].dependents = tasks[i].dependents

Keeps(ts) == KeepsTasks(ts) /\ KeepsLists(ts)

LEMMA KeepsPreserves ==
  ASSUME DOMAIN tasks \subseteq TaskIds, KeepsTasks(tasks') PROVE Preserves
BY DEF KeepsTasks, Preserves, Known, Archived, Same

\* A new task is above all others.
LEMMA NewTaskPreserves ==
  ASSUME TasksInv, DOMAIN tasks \subseteq TaskIds, NEW id \in TaskIds, IsNextTaskId(id),
         NEW task, tasks' = WithTask(id, task)
  PROVE  /\ Preserves
         /\ id \in DOMAIN tasks' /\ tasks'[id] = task
         /\ \A i \in TaskIds : Known(tasks, i) => i < id
<1>1. /\ DOMAIN tasks' = DOMAIN tasks \cup {id}
      /\ tasks'[id] = task
      /\ \A i \in DOMAIN tasks : i # id =>
            tasks'[i].priority = tasks[i].priority /\ tasks'[i].group = tasks[i].group
  BY DEF WithTask, TasksInv, NoNewLock, TaskFields
<1>2. \A i \in DOMAIN tasks : i < id
  BY DEF IsNextTaskId
<1>3. \A i \in TaskIds : i \in Int
  BY BoundsAssumption DEF TaskIds
<1>4. \A i \in TaskIds : Known(tasks, i) => i < id
  BY <1>2, <1>3 DEF Known
<1>5. id \notin DOMAIN tasks
  BY <1>2, <1>3
<1>6. \A i \in TaskIds : Known(tasks, i) => Known(tasks', i)
  BY <1>1 DEF Known
<1>7. ASSUME NEW i \in DOMAIN tasks, Archived(tasks, i) PROVE Archived(tasks', i)
  <2>1. PICK j \in DOMAIN tasks :
            i < j /\ tasks[j].group = Archive /\ Same(tasks[j].priority, tasks[i].priority)
    BY <1>7 DEF Archived
  <2>2. j # id /\ i # id
    BY <1>5
  <2>3. QED
    BY <1>1, <2>1, <2>2 DEF Archived
<1>8. Preserves
  BY <1>1, <1>4, <1>3, <1>6, <1>7 DEF Preserves, Same
<1>9. QED
  BY <1>1, <1>4, <1>8

\* Tasks that have a later copy go: among the copies, the last one stays.
LEMMA RemovalPreserves ==
  ASSUME TasksInv, DOMAIN tasks \subseteq TaskIds, NEW removed,
         \A i \in removed \cap DOMAIN tasks : Archived(tasks, i),
         tasks' = Without(removed)
  PROVE  Preserves
<1>1. /\ DOMAIN tasks' = DOMAIN tasks \ removed
      /\ \A i \in DOMAIN tasks' :
            tasks'[i].priority = tasks[i].priority /\ tasks'[i].group = tasks[i].group
  BY DEF Without, TasksInv, NoNewLock, TaskFields
<1>2. \A i \in TaskIds : i \in Int
  BY BoundsAssumption DEF TaskIds
<1>3. ASSUME NEW i \in TaskIds, Known(tasks, i) PROVE Known(tasks', i)
  <2> DEFINE T == {j \in DOMAIN tasks : i <= j}
  <2>1. T \in SUBSET TaskIds /\ T # {}
    BY <1>3 DEF Known
  <2>2. PICK m \in T : \A j \in T : j <= m
    <3> HIDE DEF T
    <3>1. QED
      BY <2>1, LargestId
  <2>3. m \notin removed
    <3> SUFFICES ASSUME m \in removed PROVE FALSE
      OBVIOUS
    <3>0. Archived(tasks, m)
      OBVIOUS
    <3>1. PICK j \in DOMAIN tasks : m < j
      BY <3>0 DEF Archived
    <3>2. j \in T /\ j \in Int /\ m \in Int
      BY <1>2, <3>1
    <3>3. QED
      BY <2>2, <3>1, <3>2
  <2>4. QED
    BY <1>1, <2>3 DEF Known
<1>4. ASSUME NEW i \in DOMAIN tasks \cap DOMAIN tasks', Archived(tasks, i) PROVE Archived(tasks', i)
  <2> DEFINE T == {j \in DOMAIN tasks : i < j /\ tasks[j].group = Archive
                                         /\ Same(tasks[j].priority, tasks[i].priority)}
  <2>1. T \in SUBSET TaskIds /\ T # {}
    BY <1>4 DEF Archived
  <2>2. PICK m \in T : \A j \in T : j <= m
    <3> HIDE DEF T
    <3>1. QED
      BY <2>1, LargestId
  <2>3. m \notin removed
    <3> SUFFICES ASSUME m \in removed PROVE FALSE
      OBVIOUS
    <3>0. Archived(tasks, m)
      OBVIOUS
    <3>1. PICK j \in DOMAIN tasks :
              m < j /\ tasks[j].group = Archive /\ Same(tasks[j].priority, tasks[m].priority)
      BY <3>0 DEF Archived
    <3>2. j \in T /\ j \in Int /\ m \in Int
      BY <1>2, <3>1 DEF Same
    <3>3. QED
      BY <2>2, <3>1, <3>2
  <2>4. QED
    BY <1>1, <2>3 DEF Archived
<1>5. QED
  BY <1>1, <1>3, <1>4 DEF Preserves, Same

-----------------------------------------------------------------------------
(* What the steps of the daemon do to the content *)

LEMMA SetStatusContent ==
  ASSUME TasksInv, NEW ids, NEW status PROVE Keeps(SetStatus(ids, status))
BY DEF TasksInv, NoNewLock, TaskFields, Keeps, KeepsTasks, KeepsLists, SetStatus, Same

LEMMA SameContent == Keeps(tasks)
BY DEF Keeps, KeepsTasks, KeepsLists, Same

LEMMA GroupStatusNoReset ==
  ASSUME NEW gs, NoReset(gs), NEW names, NEW status \in {"Running", "Paused"}
  PROVE  NoReset(SetGroupStatus(gs, names, status))
BY DEF NoReset, SetGroupStatus

LEMMA PausedNoReset ==
  ASSUME NEW gs, NoReset(gs), NEW failed PROVE NoReset(PausedOnFailure(gs, failed))
<1>1. PauseOnFailure \in {"none", "group", "all"}
  BY SettingsAssumption
<1>2. /\ NoReset(SetGroupStatus(gs, failed, "Paused"))
      /\ NoReset(SetGroupStatus(gs, DOMAIN gs, "Paused"))
  BY GroupStatusNoReset
<1>3. \/ PausedOnFailure(gs, failed) = SetGroupStatus(gs, failed, "Paused")
      \/ PausedOnFailure(gs, failed) = SetGroupStatus(gs, DOMAIN gs, "Paused")
      \/ PausedOnFailure(gs, failed) = gs
  BY <1>1 DEF PausedOnFailure
<1>4. QED
  BY <1>2, <1>3

LEMMA SpawnProcessContent ==
  ASSUME TasksInv, NoReset(groups), NEW id, SpawnProcess(id)
  PROVE  Keeps(tasks') /\ NoReset(groups')
<1>1. \/ tasks' = tasks /\ groups' = groups
      \/ tasks' = SetStatus({id}, "Running") /\ groups' = groups
      \/ /\ tasks' = SetStatus({id}, "FailedToSpawn")
         /\ groups' = PausedOnFailure(groups, {tasks[id].group})
  BY DEF SpawnProcess, SaveOrShutdown, NoChange
<1>2. QED
  BY <1>1, SetStatusContent, SameContent, PausedNoReset

LEMMA HandleFinishedTasksContent ==
  ASSUME TasksInv, NoReset(groups), HandleFinishedTasks
  PROVE  Keeps(tasks') /\ NoReset(groups')
<1> DEFINE exit == [s \in Finished |-> ChildAt(children, s)]
           ended(i) == \E s \in Finished : exit[s].task = i
           result(i) == exit[CHOOSE s \in Finished : exit[s].task = i].proc
<1>1. \/ tasks' = tasks /\ groups' = groups
      \/ /\ tasks' = [i \in DOMAIN tasks |->
                        IF ended(i) THEN [tasks[i] EXCEPT !.status = result(i)] ELSE tasks[i]]
         /\ \E failed : groups' = PausedOnFailure(groups, failed)
  BY DEF HandleFinishedTasks, SaveOrShutdown, NoChange
<1> HIDE DEF exit, ended, result
<1>2. Keeps(tasks')
  BY <1>1, SameContent DEF TasksInv, NoNewLock, TaskFields, Keeps, KeepsTasks, KeepsLists
<1>3. NoReset(groups')
  BY <1>1, PausedNoReset
<1>4. QED
  BY <1>2, <1>3

LEMMA DaemonContent ==
  ASSUME TasksInv, NoReset(groups), DaemonStep
  PROVE  Keeps(tasks') /\ NoReset(groups')
<1>1. CASE UNCHANGED <<tasks, groups>>
  BY <1>1, SameContent
<1>2. CASE HandleFinishedTasks
  BY <1>2, HandleFinishedTasksContent
<1>3. CASE HandleGroupResets
  <2> DEFINE reset == {g \in DOMAIN groups :
                          groups[g].status = "Reset" /\ ~HasGroupActiveTasks(g)}
  <2>1. reset = {}
    BY DEF NoReset
  <2>2. /\ tasks' = [i \in DOMAIN tasks \ ResetTasks(reset) |-> tasks[i]]
        /\ groups' = SetGroupStatus(groups, reset, "Running")
    BY <1>3 DEF HandleGroupResets
  <2>3. ResetTasks(reset) = {}
    BY <2>1 DEF ResetTasks
  <2> HIDE DEF reset
  <2>4. QED
    BY <2>2, <2>3, GroupStatusNoReset DEF Keeps, KeepsTasks, KeepsLists, Same
<1>4. CASE EnqueueDelayedTasks
  <2>1. /\ groups' = groups
        /\ tasks' = tasks \/ \E due : tasks' = SetStatus(due, "Queued")
    BY <1>4 DEF EnqueueDelayedTasks, NoChange, SaveOrShutdown
  <2>2. QED
    BY <2>1, SetStatusContent, SameContent
<1>5. CASE CheckFailedDependencies
  <2>1. groups' = groups /\ \E failed : tasks' = SetStatus(failed, "DependencyFailed")
    BY <1>5 DEF CheckFailedDependencies
  <2>2. QED
    BY <2>1, SetStatusContent
<1>6. CASE SpawnNew
  <2>1. UNCHANGED <<tasks, groups>> \/ \E id \in TaskIds : SpawnProcess(id)
    BY <1>6 DEF SpawnNew, NoChange
  <2>2. QED
    BY <1>1, <2>1, SpawnProcessContent
<1>7. CASE StartStep
  <2>1. UNCHANGED <<tasks, groups>> \/ \E id \in TaskIds : StartNext(id)
    BY <1>7 DEF StartStep, StartDone, SaveOrShutdown
  <2>2. ASSUME NEW id \in TaskIds, StartNext(id)
        PROVE  Keeps(tasks') /\ NoReset(groups')
    <3>1. \/ tasks' = SetStatus(Continued({id}), "Running") /\ groups' = groups
          \/ SpawnProcess(id)
      BY <2>2 DEF StartNext
    <3>2. QED
      BY <3>1, SetStatusContent, SpawnProcessContent
  <2>3. QED
    BY <1>1, <2>1, <2>2
<1>8. CASE HandleShutdown \/ ProcessExit
  BY <1>1, <1>8 DEF HandleShutdown, NoChange, ProcessExit, ProcessChanges
<1>9. QED
  BY <1>2, <1>3, <1>4, <1>5, <1>6, <1>7, <1>8 DEF DaemonStep, TaskHandlerStep

LEMMA GroupContent ==
  ASSUME NoReset(groups), NEW name, NEW n, GroupAdd(name, n) \/ GroupRemove(name)
  PROVE  Keeps(tasks') /\ NoReset(groups')
<1>1. tasks' = tasks
  BY DEF GroupAdd, GroupRemove, SaveOrFailure, Refuse, NoChange
<1>2. CASE GroupAdd(name, n)
  <2>1. \/ groups' = groups
        \/ groups' = [g \in DOMAIN groups \cup {name} |->
              IF g = name THEN [status |-> "Running", parallel_tasks |-> n] ELSE groups[g]]
    BY <1>2 DEF GroupAdd, SaveOrFailure, Refuse, NoChange
  <2>2. QED
    BY <1>1, <2>1, SameContent DEF NoReset
<1>3. CASE GroupRemove(name)
  <2>1. groups' = groups \/ groups' = [g \in DOMAIN groups \ {name} |-> groups[g]]
    BY <1>3 DEF GroupRemove, SaveOrFailure, Refuse, NoChange
  <2>2. QED
    BY <1>1, <2>1, SameContent DEF NoReset
<1>4. QED
  BY <1>2, <1>3

-----------------------------------------------------------------------------
(* What the requests of sessions do to the content *)

LEMMA EditRequestContent ==
  ASSUME TasksInv, NEW ids, EditRequest(ids)
  PROVE  /\ Keeps(tasks') /\ groups' = groups
         /\ response' = "Success" => ids \subseteq DOMAIN tasks
<1>1. PICK locked :
          tasks' = [i \in DOMAIN tasks |->
                      IF i \in locked
                      THEN [tasks[i] EXCEPT !.status = "Locked", !.previous = tasks[i].status]
                      ELSE tasks[i]]
  BY DEF EditRequest
<1>2. Keeps(tasks')
  BY <1>1 DEF TasksInv, NoNewLock, TaskFields, Keeps, KeepsTasks, KeepsLists, Same
<1>3. QED
  BY <1>2 DEF EditRequest, Return, WithStatus

LEMMA UnlockedContent ==
  ASSUME TasksInv, NEW ids PROVE Keeps(Unlocked(ids))
BY DEF TasksInv, NoNewLock, TaskFields, Keeps, KeepsTasks, KeepsLists, Unlocked, Same

\* Edits that leave alone what stands for the content.
LEMMA EditContent ==
  ASSUME TasksInv, NEW edits, Edit(edits),
         \A i \in DOMAIN edits \cap DOMAIN tasks : Same(edits[i].priority, tasks[i].priority)
  PROVE  KeepsTasks(tasks') /\ groups' = groups
<1> DEFINE edited == [i \in DOMAIN tasks |->
              IF i \in DOMAIN edits
              THEN [Unlocked({i})[i] EXCEPT !.dependencies = edits[i].dependencies,
                                            !.priority = edits[i].priority]
              ELSE tasks[i]]
           dropped(d) ==
              {i \in DOMAIN edits : d \in tasks[i].dependencies \ edits[i].dependencies}
           gained(d) ==
              {i \in DOMAIN edits : d \in edits[i].dependencies \ tasks[i].dependencies}
<1>1. \A i \in DOMAIN tasks : /\ DOMAIN edited[i] = TaskFields
                              /\ Same(edited[i].priority, tasks[i].priority)
                              /\ edited[i].group = tasks[i].group
  <2>1. ASSUME NEW i \in DOMAIN tasks
        PROVE  DOMAIN Unlocked({i})[i] = TaskFields /\ Unlocked({i})[i].group = tasks[i].group
    BY UnlockedLocks, UnlockedContent DEF NoNewLock, Unlocked, Keeps, KeepsTasks, KeepsLists
  <2>2. QED
    BY <2>1 DEF TasksInv, NoNewLock, TaskFields, Same
<1>2. \/ tasks' = tasks
      \/ tasks' = [d \in DOMAIN tasks |-> [edited[d] EXCEPT
                      !.dependents = (@ \ dropped(d)) \cup gained(d)]]
  BY DEF Edit, Refuse, NoChange, SaveOrFailure
<1> HIDE DEF edited, dropped, gained
<1>3. KeepsTasks(tasks')
  BY <1>1, <1>2, SameContent DEF TaskFields, Keeps, KeepsTasks
<1>4. groups' = groups
  BY DEF Edit, Refuse, NoChange, SaveOrFailure
<1>5. QED
  BY <1>3, <1>4

\* A restart in place with the content the tasks have.
LEMMA RestartContent ==
  ASSUME TasksInv, NEW ids, NEW status, NEW priority, NEW now,
         RestartMultiple(ids, status, priority, now),
         \A i \in ids \cap DOMAIN tasks : Same(priority[i], tasks[i].priority)
  PROVE  Keeps(tasks') /\ groups' = groups
BY DEF RestartMultiple, Restarted, TasksInv, NoNewLock, WithStatus, TaskFields, Keeps,
       KeepsTasks, KeepsLists, Same

-----------------------------------------------------------------------------
(* What the steps of sessions do to what is remembered *)

LEMMA OtherStep ==
  ASSUME ContentInv, SessionInv', Preserves, NoReset(groups'), UNCHANGED session
  PROVE  ContentInv'
<1>1. \A c \in Clients : Memory(tasks', session'[c])
  BY PreservesMemory DEF ContentInv
<1>2. QED
  BY <1>1 DEF ContentInv, Preserves

LEMMA ContentStep ==
  ASSUME ContentInv, SessionInv', Preserves, NoReset(groups'),
         NEW c \in Clients, NEW s, Continue(c, s), Memory(tasks', s)
  PROVE  ContentInv'
<1>1. session' = [session EXCEPT ![c] = s] /\ session = [d \in Clients |-> session[d]]
  BY DEF Continue, ContentInv, SessionInv, SessionsInv
<1>2. \A d \in Clients : session'[d] = s \/ session'[d] = session[d]
  BY <1>1
<1>3. \A d \in Clients : Memory(tasks', session[d])
  BY PreservesMemory DEF ContentInv
<1>4. \A d \in Clients : Memory(tasks', session'[d])
  BY <1>2, <1>3
<1>5. QED
  BY <1>4 DEF ContentInv, Preserves

LEMMA LookStep ==
  ASSUME ContentInv, SessionInv', OnlyLooks,
         NEW c \in Clients, NEW s, Continue(c, s), Memory(tasks, s)
  PROVE  ContentInv'
<1>1. tasks' = tasks /\ groups' = groups
  BY DEF OnlyLooks, vars
<1>2. Preserves
  BY <1>1, SameContent, KeepsPreserves DEF ContentInv, Keeps
<1>3. QED
  BY <1>1, <1>2, ContentStep DEF ContentInv

\* A session that neither edits, nor restarts in place, nor archives.
LEMMA PlainMemory ==
  ASSUME NEW ts, NEW s, s.command \notin {"edit", "restart_in_place", "archive"},
         s.at \notin {"Editor", "Replacing", "Grouping"}
  PROVE  Memory(ts, s) /\ Memory(ts, Adding(s)) /\ Memory(ts, Over)
BY IdleFields DEF Memory, PlaceOfCommand, EditMemory, ArchiveMemory, Adding

LEMMA OverMemory ==
  ASSUME NEW ts PROVE Memory(ts, Over)
BY IdleFields DEF Memory, PlaceOfCommand, EditMemory, ArchiveMemory

LEMMA EndStep ==
  ASSUME ContentInv, SessionInv', KeepsTasks(tasks'), groups' = groups,
         NEW c \in Clients, End(c)
  PROVE  ContentInv'
<1>1. Preserves
  BY KeepsPreserves DEF ContentInv, Keeps
<1>2. QED
  BY <1>1, OverMemory, ContentStep DEF End, ContentInv

LEMMA ExistingRemembered ==
  ASSUME DOMAIN tasks \subseteq TaskIds, NEW i \in DOMAIN tasks
  PROVE  i \in TaskIds /\ Known(tasks, i) /\ Remembers(tasks, i, tasks[i].priority)
<1>1. \A j \in TaskIds : j \in Int
  BY BoundsAssumption DEF TaskIds
<1>2. QED
  BY <1>1 DEF Known, Remembers, Same

LEMMA BeginEditContent ==
  ASSUME ContentInv, SessionInv', NEW c \in Clients, NEW ids, BeginEdit(c, ids)
  PROVE  ContentInv'
<1>1. /\ Keeps(tasks') /\ groups' = groups
      /\ response' = "Success" => ids \subseteq DOMAIN tasks
  BY EditRequestContent DEF BeginEdit, ContentInv, SessionInv
<1>2. CASE End(c)
  BY <1>1, <1>2, EndStep DEF Keeps
<1> DEFINE s == [New("edit", "Editor") EXCEPT !.ids = ids,
                                              !.seen = [i \in ids |-> tasks[i]]]
<1>3. CASE response' = "Success" /\ Continue(c, s)
  <2>1. /\ s.command = "edit" /\ s.at = "Editor" /\ s.ids = ids
        /\ s.seen = [i \in ids |-> tasks[i]]
    BY NewFields DEF Fields
  <2>2. Continue(c, s)
    BY <1>3
  <2> HIDE DEF s
  <2>3. Memory(tasks, s)
    BY <1>1, <1>3, <2>1, ExistingRemembered
       DEF Memory, PlaceOfCommand, EditMemory, ArchiveMemory, ContentInv
  <2>4. Preserves
    BY <1>1, KeepsPreserves DEF ContentInv, Keeps
  <2>5. Memory(tasks', s)
    BY <2>3, <2>4, PreservesMemory
  <2>6. QED
    BY <1>1, <2>2, <2>4, <2>5, ContentStep DEF ContentInv
<1>4. QED
  BY <1>2, <1>3 DEF BeginEdit

LEMMA SendEditsContent ==
  ASSUME ContentInv, SessionInv', NEW c \in Clients, SendEdits(c)
  PROVE  ContentInv'
<1>1. Memory(tasks, session[c]) /\ session[c].command = "edit"
  BY DEF ContentInv, Memory, PlaceOfCommand, SendEdits, IsAt
<1>2. PICK mode, sent, edits :
          /\ sent \in Submitted(mode, session[c].ids)
          /\ edits \in EditsOf(c, sent) /\ Edit(edits)
  BY DEF SendEdits
<1>3. sent \subseteq session[c].ids
  BY <1>2 DEF Submitted
<1>4. /\ DOMAIN edits = sent
      /\ \A i \in sent : Same(edits[i].priority, session[c].seen[i].priority)
  BY <1>2 DEF EditsOf, Same
<1>5. \A i \in DOMAIN edits \cap DOMAIN tasks : Same(edits[i].priority, tasks[i].priority)
  BY <1>1, <1>3, <1>4 DEF Memory, EditMemory, Remembers, Same
<1>6. KeepsTasks(tasks') /\ groups' = groups
  BY <1>2, <1>5, EditContent DEF ContentInv, SessionInv
<1>7. QED
  BY <1>6, EndStep DEF SendEdits

LEMMA RestoreEditsContent ==
  ASSUME ContentInv, SessionInv', NEW c \in Clients, RestoreEdits(c)
  PROVE  ContentInv'
<1>1. tasks' = Unlocked(session[c].ids) /\ groups' = groups
  BY DEF RestoreEdits, EditRestore
<1>2. Keeps(tasks')
  BY <1>1, UnlockedContent DEF ContentInv, SessionInv
<1>3. QED
  BY <1>1, <1>2, EndStep DEF RestoreEdits, Keeps

LEMMA BeginAddingContent ==
  ASSUME ContentInv, SessionInv', NEW c \in Clients, NEW ids, NEW status, NEW immediate,
         NEW toGroup, NEW count, NEW priorities, NEW group,
         \/ BeginRestart(c, ids, status, immediate)
         \/ BeginCopy(c, ids, status, immediate, toGroup, count)
         \/ BeginImport(c, priorities, group)
  PROVE  ContentInv'
<1>1. CASE BeginRestart(c, ids, status, immediate)
  <2>1. PICK todo : Continue(c, Adding([New("restart", "Adding") EXCEPT
            !.todo = todo, !.status = status, !.immediate = immediate]))
    BY <1>1 DEF BeginRestart
  <2> DEFINE s == [New("restart", "Adding") EXCEPT
            !.todo = todo, !.status = status, !.immediate = immediate]
  <2>2. s.command = "restart" /\ s.at = "Adding" /\ Continue(c, Adding(s))
    BY <2>1, NewFields DEF Fields
  <2> HIDE DEF s
  <2>3. Memory(tasks, Adding(s))
    BY <2>2, PlainMemory
  <2>4. QED
    BY <1>1, <2>2, <2>3, LookStep DEF BeginRestart, Looks
<1>2. CASE BeginCopy(c, ids, status, immediate, toGroup, count)
  <2>1. PICK todo : Continue(c, Adding([New("copy", "Adding") EXCEPT
            !.todo = todo, !.status = status, !.immediate = immediate]))
    BY <1>2 DEF BeginCopy
  <2> DEFINE s == [New("copy", "Adding") EXCEPT
            !.todo = todo, !.status = status, !.immediate = immediate]
  <2>2. s.command = "copy" /\ s.at = "Adding" /\ Continue(c, Adding(s))
    BY <2>1, NewFields DEF Fields
  <2> HIDE DEF s
  <2>3. Memory(tasks, Adding(s))
    BY <2>2, PlainMemory
  <2>4. QED
    BY <1>2, <2>2, <2>3, LookStep DEF BeginCopy, Looks
<1>3. CASE BeginImport(c, priorities, group)
  <2>1. PICK todo : Continue(c, Adding([New("import", "Adding") EXCEPT !.todo = todo]))
    BY <1>3 DEF BeginImport
  <2> DEFINE s == [New("import", "Adding") EXCEPT !.todo = todo]
  <2>2. s.command = "import" /\ s.at = "Adding" /\ Continue(c, Adding(s))
    BY <2>1, NewFields DEF Fields
  <2> HIDE DEF s
  <2>3. Memory(tasks, Adding(s))
    BY <2>2, PlainMemory
  <2>4. QED
    BY <1>3, <2>2, <2>3, LookStep DEF BeginImport, Looks
<1>4. QED
  BY <1>1, <1>2, <1>3

LEMMA BeginRestartInPlaceContent ==
  ASSUME ContentInv, SessionInv', NEW c \in Clients, NEW ids, NEW status, NEW immediate,
         BeginRestartInPlace(c, ids, status, immediate)
  PROVE  ContentInv'
<1> DEFINE done == ids \cap WithStatus(Results)
           s == [New("restart_in_place", "Replacing") EXCEPT
                    !.ids = done, !.seen = [i \in done |-> tasks[i]],
                    !.status = status, !.immediate = immediate]
<1>1. /\ s.command = "restart_in_place" /\ s.at = "Replacing" /\ s.ids = done
      /\ s.seen = [i \in done |-> tasks[i]]
  BY NewFields DEF Fields
<1>2. Continue(c, s)
  BY DEF BeginRestartInPlace
<1>3. done \subseteq DOMAIN tasks
  BY DEF WithStatus
<1> HIDE DEF s, done
<1>4. Memory(tasks, s)
  BY <1>1, <1>3, ExistingRemembered
     DEF Memory, PlaceOfCommand, EditMemory, ArchiveMemory, ContentInv
<1>5. QED
  BY <1>2, <1>4, LookStep DEF BeginRestartInPlace, Looks

LEMMA ReplaceContent ==
  ASSUME ContentInv, SessionInv', NEW c \in Clients, Replace(c)
  PROVE  ContentInv'
<1> DEFINE s == session[c]
           priority == [i \in s.ids |-> s.seen[i].priority]
<1>1. Memory(tasks, s) /\ s.command = "restart_in_place"
  BY DEF ContentInv, Memory, PlaceOfCommand, Replace, IsAt
<1>2. RestartMultiple(s.ids, s.status, priority, s.immediate)
  BY DEF Replace
<1>3. \A i \in s.ids \cap DOMAIN tasks : Same(priority[i], tasks[i].priority)
  BY <1>1 DEF Memory, EditMemory, Remembers, Same
<1> HIDE DEF priority
<1>4. Keeps(tasks') /\ groups' = groups
  BY <1>2, <1>3, RestartContent DEF ContentInv, SessionInv
<1>5. QED
  BY <1>4, EndStep DEF Replace, Keeps

LEMMA AddTaskContent ==
  ASSUME ContentInv, NEW name, NEW status, NEW deps, NEW priority, NEW now,
         AddTask(name, status, deps, priority, now)
  PROVE  /\ Preserves /\ groups' = groups
         /\ response' # "Failure" =>
               \E id \in DOMAIN tasks' :
                  /\ \A i \in TaskIds : Known(tasks, i) => i < id
                  /\ tasks'[id].group = name /\ tasks'[id].priority = priority
<1>1. \/ tasks' = tasks /\ response' = "Failure"
      \/ \E id \in TaskIds :
            IsNextTaskId(id) /\ tasks' = WithTask(id, NewTask(name, status, deps, priority))
  BY DEF AddTask, SaveOrFailure, Refuse, NoChange, Return
<1>2. groups' = groups
  BY DEF AddTask, SaveOrFailure, Refuse, NoChange
<1>3. CASE tasks' = tasks /\ response' = "Failure"
  BY <1>2, <1>3, SameContent, KeepsPreserves DEF ContentInv, Keeps
<1>4. ASSUME NEW id \in TaskIds, IsNextTaskId(id),
             tasks' = WithTask(id, NewTask(name, status, deps, priority))
      PROVE  /\ Preserves
             /\ id \in DOMAIN tasks'
             /\ \A i \in TaskIds : Known(tasks, i) => i < id
             /\ tasks'[id].group = name /\ tasks'[id].priority = priority
  BY <1>4, NewTaskPreserves DEF ContentInv, SessionInv, NewTask
<1>5. QED
  BY <1>1, <1>2, <1>3, <1>4

\* An addition for archive puts a later copy of the task into the archive.
LEMMA AddNextContent ==
  ASSUME ContentInv, SessionInv', NEW c \in Clients, AddNext(c)
  PROVE  ContentInv'
<1> DEFINE s == session[c]
           request == Head(s.todo)
           todo == Tail(s.todo)
           ids == IF s.command = "archive" THEN s.ids \cup {request.from} ELSE s.ids
           t == [s EXCEPT !.todo = todo, !.ids = ids]
<1>1. /\ s.at = "Adding" /\ s.todo # << >>
      /\ Continue(c, IF Abandons(s.command, response') THEN Over ELSE Adding(t))
  BY DEF AddNext, IsAt
<1>2. /\ Preserves /\ groups' = groups
      /\ response' # "Failure" =>
            \E id \in DOMAIN tasks' :
               /\ \A i \in TaskIds : Known(tasks, i) => i < id
               /\ tasks'[id].group = request.group /\ tasks'[id].priority = request.priority
  <2>1. AddTask(request.group, s.status, {}, request.priority, s.immediate)
    BY DEF AddNext
  <2>2. QED
    BY <2>1, AddTaskContent
<1>3. Memory(tasks, s) /\ Memory(tasks', s) /\ DOMAIN s = Fields
      /\ s.command \notin {"edit", "restart_in_place"}
  BY <1>1, <1>2, PreservesMemory
     DEF ContentInv, Memory, PlaceOfCommand, SessionInv, SessionsInv, SessionOK
<1>4. t.command = s.command /\ t.at = "Adding" /\ t.todo = todo /\ t.ids = ids
  BY <1>1, <1>3 DEF Fields
<1> HIDE DEF t
<1>5. CASE Continue(c, Over)
  BY <1>2, <1>5, OverMemory, ContentStep DEF ContentInv
<1>6. CASE s.command # "archive" /\ Continue(c, Adding(t))
  <2>1. Memory(tasks', Adding(t))
    BY <1>3, <1>4, <1>6, PlainMemory
  <2>2. QED
    BY <1>2, <1>6, <2>1, ContentStep DEF ContentInv
<1>7. CASE s.command = "archive" /\ response' # "Failure" /\ Continue(c, t)
  <2>1. PICK S : s.todo \in Seq(S)
    BY <1>3, <1>7 DEF Memory, ArchiveMemory
  <2>2. /\ 1 \in DOMAIN s.todo /\ request = s.todo[1]
        /\ todo \in Seq(S)
        /\ \A k \in DOMAIN todo : k + 1 \in DOMAIN s.todo /\ todo[k] = s.todo[k + 1]
    BY <1>1, <2>1
  <2> DEFINE from == request.from
  <2>3. /\ from \in TaskIds /\ Known(tasks, from) /\ Known(tasks', from)
        /\ from \in DOMAIN tasks' => Same(tasks'[from].priority, request.priority)
        /\ request.group = Archive
    BY <1>3, <1>7, <2>2 DEF Memory, ArchiveMemory, Remembers
  <2>4. from \in DOMAIN tasks' => Archived(tasks', from)
    BY <1>2, <1>7, <2>3 DEF Archived, Same
  <2> HIDE DEF from
  <2>5. \A i \in ids : i \in TaskIds /\ Known(tasks', i)
                       /\ (i \in DOMAIN tasks' => Archived(tasks', i))
    BY <1>3, <1>7, <2>3, <2>4 DEF Memory, ArchiveMemory, from
  <2>6. \A k \in DOMAIN todo :
            Remembers(tasks', todo[k].from, todo[k].priority) /\ todo[k].group = Archive
    BY <1>3, <1>7, <2>2 DEF Memory, ArchiveMemory
  <2> HIDE DEF ids, todo
  <2>7. ArchiveMemory(tasks', t)
    BY <1>4, <2>2, <2>5, <2>6 DEF ArchiveMemory
  <2>8. Memory(tasks', t)
    BY <1>4, <1>7, <2>7 DEF Memory, PlaceOfCommand, EditMemory
  <2>9. QED
    BY <1>2, <1>7, <2>8, ContentStep DEF ContentInv
<1>8. QED
  BY <1>1, <1>4, <1>5, <1>6, <1>7 DEF Abandons, Adding

LEMMA BeginArchiveContent ==
  ASSUME ContentInv, SessionInv', NEW c \in Clients, NEW ids, BeginArchive(c, ids)
  PROVE  ContentInv'
<1>1. PICK sources \in InOrder(Archivable(ids)) :
          Continue(c, [New("archive", IF Archive \in DOMAIN groups THEN "Adding"
                                                                  ELSE "Grouping")
              EXCEPT !.todo = [k \in DOMAIN sources |-> CopyOf(sources[k], Archive)]])
  BY DEF BeginArchive
<1> DEFINE at == IF Archive \in DOMAIN groups THEN "Adding" ELSE "Grouping"
           todo == [k \in DOMAIN sources |-> CopyOf(sources[k], Archive)]
           s == [New("archive", at) EXCEPT !.todo = todo]
<1>2. s.command = "archive" /\ s.at = at /\ s.todo = todo /\ s.ids = {} /\ Continue(c, s)
  BY <1>1, NewFields DEF Fields
<1>3. Archivable(ids) \subseteq DOMAIN tasks
  BY DEF Archivable, WithStatus
<1>4. Cardinality(Archivable(ids)) \in Nat
  <2>1. 0 \in Int /\ MaxTasks - 1 \in Int
    BY BoundsAssumption
  <2>2. IsFiniteSet(TaskIds)
    BY <2>1, FS_Interval DEF TaskIds
  <2>3. IsFiniteSet(Archivable(ids))
    BY <1>3, <2>2, FS_Subset DEF ContentInv
  <2>4. QED
    BY <2>3, FS_CardinalityType
<1>5. /\ DOMAIN sources = 1 .. Cardinality(Archivable(ids))
      /\ \A k \in DOMAIN sources : sources[k] \in DOMAIN tasks
  BY <1>3 DEF InOrder
<1>6. \A k \in DOMAIN todo :
          Remembers(tasks, todo[k].from, todo[k].priority) /\ todo[k].group = Archive
  BY <1>5, ExistingRemembered DEF CopyOf, ContentInv
<1>7. \E S : todo \in Seq(S)
  <2> DEFINE S == {todo[k] : k \in DOMAIN todo}
             n == Cardinality(Archivable(ids))
  <2>1. n \in Nat /\ DOMAIN todo = 1 .. n
    BY <1>4, <1>5
  <2> HIDE DEF n
  <2>2. todo \in [1 .. n -> S]
    BY <2>1
  <2> HIDE DEF todo, S
  <2>3. todo \in Seq(S)
    BY <2>1, <2>2
  <2>4. QED
    BY <2>3
<1>8. at \in {"Adding", "Grouping"}
  OBVIOUS
<1> HIDE DEF todo, s, at
<1>9. Memory(tasks, s)
  BY <1>2, <1>6, <1>7, <1>8 DEF Memory, PlaceOfCommand, EditMemory, ArchiveMemory
<1>10. QED
  BY <1>2, <1>9, LookStep DEF BeginArchive, Looks

LEMMA CreateArchiveContent ==
  ASSUME ContentInv, SessionInv', NEW c \in Clients, CreateArchive(c)
  PROVE  ContentInv'
<1> DEFINE s == session[c]
           t == [s EXCEPT !.at = "Adding"]
<1>1. Keeps(tasks') /\ NoReset(groups')
  BY GroupContent DEF CreateArchive, ContentInv
<1>2. Preserves
  BY <1>1, KeepsPreserves DEF ContentInv, Keeps
<1>3. s.command = "archive" /\ DOMAIN s = Fields /\ Memory(tasks', s)
  BY <1>2, PreservesMemory DEF CreateArchive, IsAt, ContentInv, Memory, PlaceOfCommand,
                              SessionInv, SessionsInv, SessionOK
<1>4. /\ t.command = "archive" /\ t.at = "Adding" /\ t.todo = s.todo /\ t.ids = s.ids
  BY <1>3 DEF Fields
<1>5. Continue(c, t) \/ Continue(c, Over)
  BY DEF CreateArchive
<1> HIDE DEF t
<1>6. Memory(tasks', t)
  BY <1>3, <1>4 DEF Memory, PlaceOfCommand, EditMemory, ArchiveMemory
<1>7. QED
  BY <1>1, <1>2, <1>5, <1>6, OverMemory, ContentStep

\* What archive removes has a later copy.
LEMMA RemovedArchived ==
  ASSUME ContentInv, NEW c \in Clients, RemoveSources(c)
  PROVE  /\ Preserves /\ groups' = groups
         /\ \A i \in DOMAIN tasks \ DOMAIN tasks' : Archived(tasks, i)
<1> DEFINE removed == Removable(session[c].ids)
<1>1. groups' = groups /\ (tasks' = tasks \/ tasks' = Without(removed))
  BY DEF RemoveSources, Remove, SaveOrFailure, NoChange
<1>2. removed \subseteq session[c].ids
  BY DEF Removable
<1>3. \A i \in removed \cap DOMAIN tasks : Archived(tasks, i)
  BY <1>2 DEF RemoveSources, ContentInv, Memory, ArchiveMemory
<1> HIDE DEF removed
<1>4. CASE tasks' = tasks
  <2>1. Preserves
    BY <1>4, SameContent, KeepsPreserves DEF ContentInv, Keeps
  <2>2. QED
    BY <1>1, <1>4, <2>1
<1>5. CASE tasks' = Without(removed)
  <2>1. Preserves
    BY <1>3, <1>5, RemovalPreserves DEF ContentInv, SessionInv
  <2>2. (DOMAIN tasks \ DOMAIN tasks') \subseteq removed \cap DOMAIN tasks
    BY <1>5 DEF Without
  <2>3. QED
    BY <1>1, <1>3, <2>1, <2>2
<1>6. QED
  BY <1>1, <1>4, <1>5

LEMMA RemoveSourcesContent ==
  ASSUME ContentInv, SessionInv', NEW c \in Clients, RemoveSources(c)
  PROVE  ContentInv'
BY RemovedArchived, OverMemory, ContentStep DEF RemoveSources, End, ContentInv

LEMMA WaitContent ==
  ASSUME ContentInv, SessionInv', NEW c \in Clients, NEW sel, NEW target,
         BeginWait(c, sel, target) \/ Poll(c)
  PROVE  ContentInv'
<1>1. CASE BeginWait(c, sel, target)
  <2> DEFINE s == [New("wait", "Waiting") EXCEPT !.sel = sel, !.target = target]
  <2>1. s.command = "wait" /\ s.at = "Waiting" /\ Continue(c, s)
    BY <1>1, NewFields DEF Fields, BeginWait
  <2> HIDE DEF s
  <2>2. Memory(tasks, s)
    BY <2>1, PlainMemory
  <2>3. QED
    BY <1>1, <2>1, <2>2, LookStep DEF BeginWait, Looks
<1>2. CASE Poll(c)
  <2> DEFINE s == session[c]
             reached == {i \in Watched(c) : ReachedTarget(i, s.target)}
             ids == Watched(c) \ reached
             t == [s EXCEPT !.ids = ids, !.finished = @ \cup reached]
  <2>1. /\ s.at = "Waiting" /\ DOMAIN s = Fields
        /\ s.command \notin {"edit", "restart_in_place", "archive"}
    BY <1>2 DEF Poll, IsAt, ContentInv, Memory, PlaceOfCommand, SessionInv, SessionsInv,
                SessionOK
  <2>2. AfterPoll(c) = Over \/ AfterPoll(c) = t
    BY DEF AfterPoll
  <2> HIDE DEF reached, ids
  <2>3. t.command = s.command /\ t.at = s.at
    BY <2>1 DEF Fields
  <2> HIDE DEF t
  <2>4. Memory(tasks, AfterPoll(c))
    BY <2>1, <2>2, <2>3, PlainMemory, OverMemory
  <2>5. QED
    BY <1>2, <2>4, LookStep DEF Poll
<1>3. QED
  BY <1>1, <1>2

LEMMA QuitContent ==
  ASSUME ContentInv, SessionInv', NEW c \in Clients, Quit(c)
  PROVE  ContentInv'
BY SameContent, EndStep DEF Quit, vars, Keeps

-----------------------------------------------------------------------------
LEMMA ContentInitInv == SessionInit => ContentInv
<1> SUFFICES ASSUME SessionInit PROVE ContentInv
  OBVIOUS
<1>1. NoReset(groups)
  BY DEF SessionInit, NoReset
<1>2. DOMAIN tasks \subseteq TaskIds
  BY InitialTasksAssumption DEF SessionInit, IsPartialFn
<1>3. Memory(tasks, Idle)
  BY IdleFields, PlainMemory DEF Idle
<1>4. QED
  BY <1>1, <1>2, <1>3, SessionInitInv DEF ContentInv, SessionInit

LEMMA ContentNextInv ==
  ASSUME ContentInv, [SessionNext]_<<vars, sessionVars>>
  PROVE  ContentInv'
<1>0. SessionInv'
  BY SessionNextInv DEF ContentInv
<1>1. CASE (DaemonStep \/ OtherClients) /\ UNCHANGED session
  <2>1. Keeps(tasks') /\ NoReset(groups')
    BY <1>1, DaemonContent, GroupContent DEF ContentInv, SessionInv, OtherClients, ClientGroup
  <2>2. QED
    BY <1>0, <1>1, <2>1, KeepsPreserves, OtherStep DEF ContentInv, Keeps
<1>2. ASSUME NEW c \in Clients, EditSession(c) PROVE ContentInv'
  BY <1>0, <1>2, BeginEditContent, SendEditsContent, RestoreEditsContent DEF EditSession
<1>3. ASSUME NEW c \in Clients, AddingSession(c) PROVE ContentInv'
  <2>1. CASE Replace(c) \/ AddNext(c)
    BY <1>0, <2>1, ReplaceContent, AddNextContent
  <2>2. CASE \E n \in 1 .. MaxImported, group \in GroupNames :
                \E priorities \in [1 .. n -> Priorities] : BeginImport(c, priorities, group)
    BY <1>0, <2>2, BeginAddingContent
  <2>3. ASSUME NEW ids, NEW status, NEW immediate,
               \/ BeginRestart(c, ids, status, immediate)
               \/ BeginRestartInPlace(c, ids, status, immediate)
               \/ \E toGroup \in ToGroup, count \in 1 .. MaxCopies :
                      BeginCopy(c, ids, status, immediate, toGroup, count)
        PROVE  ContentInv'
    BY <1>0, <2>3, BeginAddingContent, BeginRestartInPlaceContent
  <2>4. QED
    BY <1>3, <2>1, <2>2, <2>3 DEF AddingSession
<1>4. ASSUME NEW c \in Clients, ArchiveSession(c) PROVE ContentInv'
  BY <1>0, <1>4, BeginArchiveContent, CreateArchiveContent, RemoveSourcesContent
     DEF ArchiveSession
<1>5. ASSUME NEW c \in Clients, WaitSession(c) PROVE ContentInv'
  BY <1>0, <1>5, WaitContent DEF WaitSession
<1>6. ASSUME NEW c \in Clients, Quit(c) PROVE ContentInv'
  BY <1>0, <1>6, QuitContent
<1>7. CASE UNCHANGED <<vars, sessionVars>>
  <2>1. UNCHANGED <<tasks, groups, session>>
    BY <1>7 DEF vars, sessionVars
  <2>2. QED
    BY <1>0, <2>1, SameContent, KeepsPreserves, OtherStep DEF ContentInv, Keeps
<1>8. QED
  BY <1>1, <1>2, <1>3, <1>4, <1>5, <1>6, <1>7 DEF SessionNext

\* archive.rs: whatever stops a session in the middle, and whoever else archives, copies,
\* restarts or removes groups meanwhile, a task that archive removes has its content in
\* another task, which is in the archive; nobody edits the content.
THEOREM ArchiveKeepsContent ==
  ASSUME ~EditsContent PROVE SessionSpec => ArchiveLosesNothing
<1>1. SessionSpec => []ContentInv
  BY ContentInitInv, ContentNextInv, PTL DEF SessionSpec
<1>2. ASSUME ContentInv, NEW c \in Clients, RemoveSources(c),
             NEW i \in DOMAIN tasks \ DOMAIN tasks'
      PROVE  HasCopy(i)
  <2>1. Archived(tasks, i)
    BY <1>2, RemovedArchived
  <2>2. \A j \in TaskIds : j \in Int
    BY BoundsAssumption DEF TaskIds
  <2>3. QED
    BY <1>2, <2>1, <2>2 DEF Archived, HasCopy, ContentInv, Same
<1>3. ContentInv =>
        [\A c \in Clients :
            RemoveSources(c) => \A i \in DOMAIN tasks \ DOMAIN tasks' : HasCopy(i)
        ]_<< vars, sessionVars >>
  BY <1>2
<1>4. QED
  BY <1>1, <1>3, PTL DEF ArchiveLosesNothing

-----------------------------------------------------------------------------
(* The lists of dependencies and dependents *)

\* The lists name no id that could be given out again.
NamesKnown(ts) ==
    \A i \in DOMAIN ts : \A d \in ts[i].dependencies \cup ts[i].dependents :
        d \in TaskIds /\ Known(ts, d)

ListsInv(ts) == Indexed(ts) /\ NamesKnown(ts)

LEMMA KeptLists ==
  ASSUME ListsInv(tasks), KeepsLists(tasks') PROVE ListsInv(tasks')
BY DEF ListsInv, Indexed, NamesKnown, Known, KeepsLists

\* Nobody names the new task yet.
LEMMA AddedLists ==
  ASSUME ContentInv, ListsInv(tasks), NEW id \in TaskIds, IsNextTaskId(id),
         NEW task, task.dependencies = {}, task.dependents = {}, tasks' = WithTask(id, task)
  PROVE  ListsInv(tasks')
<1>1. /\ Preserves
      /\ \A i \in TaskIds : Known(tasks, i) => i < id
  BY NewTaskPreserves DEF ContentInv, SessionInv
<1>2. id \in Int
  BY BoundsAssumption DEF TaskIds
<1>3. \A i \in DOMAIN tasks : id \notin tasks[i].dependencies \cup tasks[i].dependents
  BY <1>1, <1>2 DEF ListsInv, NamesKnown
<1>4. /\ DOMAIN tasks' = DOMAIN tasks \cup {id}
      /\ tasks'[id] = task
      /\ \A i \in DOMAIN tasks : i # id => tasks'[i] = tasks[i]
  BY DEF WithTask
<1>5. Indexed(tasks')
  BY <1>3, <1>4 DEF ListsInv, Indexed
<1>6. NamesKnown(tasks')
  BY <1>1, <1>4 DEF ListsInv, NamesKnown, Preserves
<1>7. QED
  BY <1>5, <1>6 DEF ListsInv

LEMMA EditedLists ==
  ASSUME ContentInv, ListsInv(tasks), NEW edits, Edit(edits) PROVE ListsInv(tasks')
<1> DEFINE edited == [i \in DOMAIN tasks |->
              IF i \in DOMAIN edits
              THEN [Unlocked({i})[i] EXCEPT !.dependencies = edits[i].dependencies,
                                            !.priority = edits[i].priority]
              ELSE tasks[i]]
           dropped(d) ==
              {i \in DOMAIN edits : d \in tasks[i].dependencies \ edits[i].dependencies}
           gained(d) ==
              {i \in DOMAIN edits : d \in edits[i].dependencies \ tasks[i].dependencies}
           ts == [d \in DOMAIN tasks |-> [edited[d] EXCEPT
                      !.dependents = (@ \ dropped(d)) \cup gained(d)]]
<1>1. CASE tasks' = tasks
  BY <1>1
<1>2. CASE ValidEdit(edits) /\ tasks' = ts
  <2>1. \A i \in DOMAIN tasks :
           /\ DOMAIN edited[i] = TaskFields
           /\ edited[i].dependents = tasks[i].dependents
           /\ edited[i].dependencies = IF i \in DOMAIN edits THEN edits[i].dependencies
                                                             ELSE tasks[i].dependencies
    <3>1. ASSUME NEW i \in DOMAIN tasks
          PROVE  /\ DOMAIN Unlocked({i})[i] = TaskFields
                 /\ Unlocked({i})[i].dependents = tasks[i].dependents
      BY UnlockedLocks, UnlockedContent
         DEF NoNewLock, Unlocked, Keeps, KeepsLists, ContentInv, SessionInv
    <3>2. QED
      BY <3>1 DEF ContentInv, SessionInv, TasksInv, NoNewLock, TaskFields
  <2> HIDE DEF edited
  <2>2. /\ DOMAIN ts = DOMAIN tasks
        /\ \A i \in DOMAIN tasks :
              /\ ts[i].dependents = (tasks[i].dependents \ dropped(i)) \cup gained(i)
              /\ ts[i].dependencies = IF i \in DOMAIN edits THEN edits[i].dependencies
                                                            ELSE tasks[i].dependencies
    BY <2>1 DEF TaskFields
  <2>3. \A i \in DOMAIN edits :
            i \in DOMAIN tasks /\ edits[i].dependencies \subseteq DOMAIN tasks
    BY <1>2 DEF ValidEdit
  <2>4. \A i, d :
           /\ i \in dropped(d) <=> /\ i \in DOMAIN edits
                                  /\ d \in tasks[i].dependencies \ edits[i].dependencies
           /\ i \in gained(d) <=> /\ i \in DOMAIN edits
                                 /\ d \in edits[i].dependencies \ tasks[i].dependencies
    OBVIOUS
  <2> HIDE DEF ts, dropped, gained
  <2>5. Indexed(ts)
    <3> SUFFICES ASSUME NEW i \in DOMAIN tasks, NEW d \in DOMAIN tasks
                 PROVE  d \in ts[i].dependencies <=> i \in ts[d].dependents
      BY <2>2 DEF Indexed
    <3>1. d \in tasks[i].dependencies <=> i \in tasks[d].dependents
      BY DEF ListsInv, Indexed
    <3>2. CASE i \in DOMAIN edits
      BY <2>4, <2>2, <3>1, <3>2
    <3>3. CASE i \notin DOMAIN edits
      BY <2>4, <2>2, <3>1, <3>3
    <3>4. QED
      BY <3>2, <3>3
  <2>6. \A d \in DOMAIN tasks : d \in TaskIds /\ Known(tasks, d)
    BY ExistingRemembered DEF ContentInv
  <2>7. NamesKnown(ts)
    <3> SUFFICES ASSUME NEW i \in DOMAIN tasks,
                        NEW d \in ts[i].dependencies \cup ts[i].dependents
                 PROVE  d \in TaskIds /\ Known(tasks, d)
      BY <2>2 DEF NamesKnown, Known
    <3>1. \/ d \in DOMAIN tasks
          \/ d \in tasks[i].dependencies \cup tasks[i].dependents
      BY <2>4, <2>2, <2>3
    <3>2. QED
      BY <2>6, <3>1 DEF ListsInv, NamesKnown
  <2>8. QED
    BY <1>2, <2>5, <2>7 DEF ListsInv
<1>3. QED
  BY <1>1, <1>2 DEF Edit, Refuse, NoChange, SaveOrFailure

LEMMA RemovedLists ==
  ASSUME ContentInv, ListsInv(tasks), Preserves, NEW removed, tasks' = Without(removed)
  PROVE  ListsInv(tasks')
<1>1. /\ DOMAIN tasks' = DOMAIN tasks \ removed
      /\ \A i \in DOMAIN tasks' :
            /\ tasks'[i].dependencies = tasks[i].dependencies
            /\ tasks'[i].dependents = tasks[i].dependents
                  \ {j \in removed : j \in DOMAIN tasks /\ i \in tasks[j].dependencies}
  BY DEF Without, ContentInv, SessionInv, TasksInv, NoNewLock, TaskFields
<1>2. Indexed(tasks')
  BY <1>1 DEF ListsInv, Indexed
<1>3. NamesKnown(tasks')
  BY <1>1 DEF ListsInv, NamesKnown, Preserves
<1>4. QED
  BY <1>2, <1>3 DEF ListsInv

\* No step of a session or of the daemon between them does more to the lists.
LEMMA ListsNext ==
  ASSUME ContentInv, ListsInv(tasks), [SessionNext]_<<vars, sessionVars>>
  PROVE  ListsInv(tasks')
<1>1. CASE DaemonStep \/ OtherClients
  <2>1. Keeps(tasks')
    BY <1>1, DaemonContent, GroupContent DEF ContentInv, SessionInv, OtherClients, ClientGroup
  <2>2. QED
    BY <2>1, KeptLists DEF Keeps
<1>2. ASSUME UNCHANGED tasks PROVE ListsInv(tasks')
  BY <1>2
<1>3. ASSUME NEW c \in Clients, EditSession(c) PROVE ListsInv(tasks')
  <2>1. ASSUME NEW ids, BeginEdit(c, ids) PROVE ListsInv(tasks')
    BY <2>1, EditRequestContent, KeptLists DEF BeginEdit, ContentInv, SessionInv, Keeps
  <2>2. CASE SendEdits(c)
    BY <2>2, EditedLists DEF SendEdits
  <2>3. CASE RestoreEdits(c)
    BY <2>3, UnlockedContent, KeptLists
       DEF RestoreEdits, EditRestore, ContentInv, SessionInv, Keeps
  <2>4. QED
    BY <1>3, <2>1, <2>2, <2>3 DEF EditSession
<1>4. ASSUME NEW c \in Clients, AddNext(c) PROVE ListsInv(tasks')
  <2> DEFINE s == session[c]
             request == Head(s.todo)
             task == NewTask(request.group, s.status, {}, request.priority)
  <2>1. AddTask(request.group, s.status, {}, request.priority, s.immediate)
    BY <1>4 DEF AddNext
  <2>2. tasks' = tasks \/ \E id \in TaskIds : IsNextTaskId(id) /\ tasks' = WithTask(id, task)
    BY <2>1 DEF AddTask, SaveOrFailure, Refuse, NoChange
  <2>3. task.dependencies = {} /\ task.dependents = {}
    BY DEF NewTask
  <2> HIDE DEF task
  <2>4. QED
    BY <2>2, <2>3, AddedLists
<1>5. ASSUME NEW c \in Clients, Replace(c) PROVE ListsInv(tasks')
  <2> DEFINE s == session[c]
             priority == [i \in s.ids |-> s.seen[i].priority]
  <2>1. RestartMultiple(s.ids, s.status, priority, s.immediate)
    BY <1>5 DEF Replace
  <2> HIDE DEF priority
  <2>2. KeepsLists(tasks')
    BY <2>1 DEF RestartMultiple, Restarted, ContentInv, SessionInv, TasksInv, NoNewLock,
                WithStatus, TaskFields, KeepsLists
  <2>3. QED
    BY <2>2, KeptLists
<1>6. ASSUME NEW c \in Clients, RemoveSources(c) PROVE ListsInv(tasks')
  <2>1. tasks' = tasks \/ \E removed : tasks' = Without(removed)
    BY <1>6 DEF RemoveSources, Remove, SaveOrFailure, NoChange
  <2>2. QED
    BY <1>6, <2>1, RemovedArchived, RemovedLists
<1>7. ASSUME NEW c \in Clients, CreateArchive(c) PROVE ListsInv(tasks')
  BY <1>7, GroupContent, KeptLists DEF CreateArchive, ContentInv, Keeps
<1>8. ASSUME NEW c \in Clients, AddingSession(c) PROVE ListsInv(tasks')
  BY <1>4, <1>5, <1>8
     DEF AddingSession, BeginRestart, BeginRestartInPlace, BeginCopy, BeginImport, Looks,
         OnlyLooks, vars
<1>9. ASSUME NEW c \in Clients, ArchiveSession(c) PROVE ListsInv(tasks')
  BY <1>6, <1>7, <1>9 DEF ArchiveSession, BeginArchive, Looks, OnlyLooks, vars
<1>10. ASSUME NEW c \in Clients, WaitSession(c) \/ Quit(c) PROVE ListsInv(tasks')
  BY <1>10 DEF WaitSession, BeginWait, Poll, Looks, OnlyLooks, Quit, vars
<1>11. QED
  BY <1>1, <1>2, <1>3, <1>8, <1>9, <1>10 DEF SessionNext, vars

\* The tasks reached over unfinished dependents, and the largest set that is closed under
\* them.
LEMMA MirrorsRemove ==
  ASSUME DOMAIN tasks \subseteq TaskIds, Indexed(tasks), NEW ids
  PROVE  Archivable(ids) = Removable(ids)
<1> DEFINE allowed == ids \cap WithStatus(Status \ Active)
           succ == UnfinishedDependents
<1>1. allowed \subseteq TaskIds /\ allowed \subseteq DOMAIN tasks
  BY DEF WithStatus
<1>2. \A i \in TaskIds : succ[i] \subseteq DOMAIN tasks
  BY DEF UnfinishedDependents
<1>3. \A i \in DOMAIN tasks, S \in SUBSET allowed :
          ~HasBlockingDependant(i, S) <=> succ[i] \subseteq S
  BY DEF HasBlockingDependant, UnfinishedDependents, Indexed
<1>4. Archivable(ids) = UNION {S \in SUBSET allowed : \A i \in S : succ[i] \subseteq S}
  BY <1>1, <1>3 DEF Archivable
<1>5. Removable(ids) = {i \in allowed : Reachable(succ, i) \subseteq allowed}
  BY DEF Removable, IsTaskRemovable
<1> HIDE DEF succ, allowed
<1>6. \A i \in TaskIds : succ[i] \subseteq TaskIds
  BY <1>2
<1>7. ASSUME NEW S \in SUBSET allowed, \A i \in S : succ[i] \subseteq S, NEW i \in S
      PROVE  i \in Removable(ids)
  <2>1. S \in SUBSET TaskIds /\ succ[i] \subseteq S /\ Closed(succ, S)
    BY <1>1, <1>7 DEF Closed
  <2>2. Reachable(succ, i) \subseteq S
    BY <2>1, ClosedSetHides
  <2>3. QED
    BY <1>5, <2>2
<1>8. ASSUME NEW i \in Removable(ids), NEW j \in succ[i] PROVE j \in Removable(ids)
  <2>1. i \in TaskIds /\ Reachable(succ, i) \subseteq allowed
    BY <1>1, <1>5
  <2>2. j \in Reachable(succ, i)
    BY <1>6, <2>1, ReachableClosed
  <2>3. Reachable(succ, j) \subseteq Reachable(succ, i)
    BY <1>6, <2>1, <2>2, ReachableTransitive
  <2>4. QED
    BY <1>5, <2>1, <2>2, <2>3
<1>9. Removable(ids) \in SUBSET allowed
  BY <1>5
<1>10. QED
  BY <1>4, <1>7, <1>8, <1>9

\* The tasks the daemon begins with are indexed, and name no task above the largest.
InitialLists == \A ts \in InitialTasks : ListsInv(ts)

\* archive.rs: what archive takes for removable from the dependencies is what the daemon
\* takes for removable from the reverse index, whatever the edits, additions and removals
\* before. It needs that no id is given out again: the largest id stays, since what
\* archive removes has a later copy.
THEOREM ArchiveAlwaysMirrors ==
  ASSUME InitialLists PROVE SessionSpec => []ArchiveMirrorsRemove
<1> DEFINE Inv == ContentInv /\ ListsInv(tasks)
<1>1. SessionInit => Inv
  BY ContentInitInv DEF SessionInit, InitialLists
<1>2. Inv /\ [SessionNext]_<<vars, sessionVars>> => Inv'
  BY ContentNextInv, ListsNext
<1>3. Inv => ArchiveMirrorsRemove
  BY MirrorsRemove DEF ContentInv, ListsInv, ArchiveMirrorsRemove
<1>4. QED
  BY <1>1, <1>2, <1>3, PTL DEF SessionSpec

=============================================================================
