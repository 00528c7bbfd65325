--------------------------- MODULE ClientSessions ---------------------------
(***************************************************************************)
(* The commands of the pueue client that need several requests: each looks *)
(* at the daemon's state, decides, and sends requests for what it saw,     *)
(* while the daemon and other clients go on.                               *)
(*   pueue/src/client/commands/{edit,restart,copy,import,archive,remove,   *)
(*   wait}.rs                                                              *)
(*                                                                         *)
(* Each action is one request, handled by the action of MessageHandler,    *)
(* and what the client does with the answer. A user who declines a         *)
(* question or a client that is killed ends the session; the daemon stays. *)
(***************************************************************************)
EXTENDS DaemonProperties, Sequences

CONSTANTS
    Clients,          \* client processes
    SessionCommands,  \* client -> the commands it runs
    InitialTasks,     \* tasks the daemon has at the beginning: values of `tasks`
    Archive,          \* PUEUE_ARCHIVE_GROUP
    EditModes,        \* values of edit_mode: "Toml", "Files"
    EditsContent,     \* whether users also change what stands for the content
    MaxChosen,        \* bound: tasks named by one `restart` or `copy`
    MaxCopies,        \* bound: copies of a task made by one `copy`
    MaxImported,      \* bound: tasks of one imported file
    WaitSelections,   \* what `wait` is asked to wait for
    WaitTargets       \* and for which status

\* A state the daemon may have been started with: nobody is editing.
ASSUME InitialTasksAssumption ==
    \A ts \in InitialTasks :
        IsPartialFn(ts, TaskIds, Task) /\ \A i \in DOMAIN ts : ts[i].status # "Locked"
ASSUME ArchiveAssumption == Archive \in GroupNames \ {Default}
ASSUME SessionBoundsAssumption == MaxChosen \in Nat /\ MaxCopies \in Nat /\ MaxImported \in Nat
ASSUME WaitAssumption ==
    /\ WaitSelections \subseteq TaskSelection
    /\ WaitTargets \subseteq {"Queued", "Running", "Done", "Success"}

VARIABLES
    session,   \* client -> what it is doing
    left       \* history: tasks that sessions left locked

sessionVars == << session, left >>

\* A client without a command. seen is the part of the state it has read that it
\* uses later; todo the AddRequests it has still to send; ids the tasks it has
\* locked, copied or is waiting for.
Idle == [ command |-> "none", at |-> "Idle", seen |-> << >>, todo |-> << >>,
          status |-> "Stashed", immediate |-> FALSE, ids |-> {}, finished |-> {},
          sel |-> [kind |-> "All", ids |-> {}, group |-> Default], target |-> "Done" ]

\* A client process runs one command.
Over == [Idle EXCEPT !.at = "Over"]

\* The client's place and memory change to s.
Continue(c, s) == session' = [session EXCEPT ![c] = s]
End(c) == Continue(c, Over)

IsAt(c, at) == session[c].at = at

LeaveLocked(ids) == left' = (left \cup ids) \cap WithStatus({"Locked"})'

\* The first request of a command, or its question for the state (get_state).
New(command, at) == [Idle EXCEPT !.command = command, !.at = at]

Begins(c, command) == IsAt(c, "Idle") /\ command \in SessionCommands[c]

\* While the mutex is free. What a client does alone commutes with the steps of
\* whoever holds the mutex, and is put here too.
OnlyLooks == stage = "Free" /\ UNCHANGED << vars, left >>

Looks(c, command) == Begins(c, command) /\ OnlyLooks

-----------------------------------------------------------------------------
(* edit.rs *)

\* EditRequest locks the tasks. If it is refused, the tasks before the one that
\* could not be locked stay locked and there is no editor for them.
BeginEdit(c, ids) ==
    /\ Begins(c, "edit")
    /\ EditRequest(ids)
    /\ \/ /\ response' = "Success"
          /\ Continue(c, [New("edit", "Editor") EXCEPT
                            !.ids = ids, !.seen = [i \in ids |-> tasks[i]]])
          /\ LeaveLocked({})
       \/ /\ response' = "Failure"
          /\ End(c)
          /\ LeaveLocked(ids \cap WithStatus(Editable))

\* What comes back from the editor: the folder has a file for every task, from the
\* toml file entries may be deleted. What the user does not change is sent back as it
\* was read.
Submitted(mode, ids) == IF mode = "Toml" THEN SUBSET ids ELSE {ids}
EditsOf(c, sent) ==
    {edits \in [sent -> EditableTask] :
        EditsContent \/ \A i \in sent : edits[i].priority = session[c].seen[i].priority}

SendEdits(c) ==
    /\ IsAt(c, "Editor")
    /\ \E mode \in EditModes : \E sent \in Submitted(mode, session[c].ids) :
        \E edits \in EditsOf(c, sent) :
          /\ Edit(edits)
          /\ LeaveLocked(IF response' = "Success" THEN session[c].ids \ sent
                                                  ELSE session[c].ids)
    /\ End(c)

\* Mutant of RestoreEdits: the client gives up without a word to the daemon.
RestoreEditsNever(c) ==
    /\ IsAt(c, "Editor")
    /\ UNCHANGED vars
    /\ End(c)
    /\ LeaveLocked({})

\* The editor failed, or what it left cannot be read back.
RestoreEdits(c) ==
    /\ IsAt(c, "Editor")
    /\ EditRestore(session[c].ids)
    /\ End(c)
    /\ LeaveLocked({})

-----------------------------------------------------------------------------
(* restart.rs, copy.rs, import.rs: additions, one request each *)

\* The ids one after the other, in ascending order: one sequence.
InOrder(ids) ==
    {order \in [1 .. Cardinality(ids) -> ids] :
        \A k, n \in DOMAIN order : k < n => order[k] < order[n]}

\* No task of the daemon: a task from an imported file.
Imported == MaxTasks

\* The AddRequest for a copy of a task that is in the state the client reads.
CopyOf(i, group) == [from |-> i, group |-> group, priority |-> tasks[i].priority]

\* Additions still to do; a command that has none left is over, but for archive.
Adding(s) == IF s.todo = << >> /\ s.command # "archive" THEN Over ELSE s

\* restart, not in place: the done tasks of the given ones, or all failed ones.
BeginRestart(c, ids, status, immediate) ==
    /\ Looks(c, "restart")
    /\ \E done \in InOrder(ids \cap WithStatus(Results)) :
           Continue(c, Adding([New("restart", "Adding") EXCEPT
              !.todo = [k \in DOMAIN done |-> CopyOf(done[k], tasks[done[k]].group)],
              !.status = status, !.immediate = immediate]))

\* restart in place: one request for all of them, with what was read.
BeginRestartInPlace(c, ids, status, immediate) ==
    /\ Looks(c, "restart_in_place")
    /\ LET done == ids \cap WithStatus(Results)
       IN  Continue(c, [New("restart_in_place", "Replacing") EXCEPT
              !.ids = done, !.seen = [i \in done |-> tasks[i]],
              !.status = status, !.immediate = immediate])

Replace(c) ==
    LET s == session[c]
    IN  /\ IsAt(c, "Replacing")
        /\ RestartMultiple(s.ids, s.status, [i \in s.ids |-> s.seen[i].priority],
                           s.immediate)
        /\ End(c)
        /\ LeaveLocked({})

\* Each of the tasks that exist, count times, to its own group or to the given one.
BeginCopy(c, ids, status, immediate, toGroup, count) ==
    /\ Looks(c, "copy")
    /\ \E copied \in InOrder(ids \cap DOMAIN tasks) :
           LET source(k) == copied[((k - 1) \div count) + 1]
           IN  Continue(c, Adding([New("copy", "Adding") EXCEPT
              !.todo = [k \in 1 .. count * Len(copied) |->
                          CopyOf(source(k), toGroup[tasks[source(k)].group])],
              !.status = status, !.immediate = immediate]))

\* Nothing is read from the daemon; the tasks are stashed in one group.
BeginImport(c, priorities, group) ==
    /\ Looks(c, "import")
    /\ Continue(c, Adding([New("import", "Adding") EXCEPT
          !.todo = [k \in DOMAIN priorities |->
                      [from |-> Imported, group |-> group, priority |-> priorities[k]]]]))

\* Mutant of Abandons: a failed addition is passed over.
AbandonsNever(command, answer) == FALSE

\* Every command but import stops at the first addition that fails.
Abandons(command, answer) == answer = "Failure" /\ command # "import"

AddNext(c) ==
    LET s == session[c]
        request == Head(s.todo)
    IN  /\ IsAt(c, "Adding")
        /\ s.todo # << >>
        /\ AddTask(request.group, s.status, {}, request.priority, s.immediate)
        /\ Continue(c,
              IF Abandons(s.command, response') THEN Over
              ELSE Adding([s EXCEPT
                      !.todo = Tail(@),
                      !.ids = IF s.command = "archive" THEN @ \cup {request.from} ELSE @]))
        /\ LeaveLocked({})

-----------------------------------------------------------------------------
(* archive.rs *)

HasBlockingDependant(i, targets) ==
    \E j \in DOMAIN tasks \ targets : i \in tasks[j].dependencies /\ ~IsDone(tasks[j])

\* Mutant of Archivable: the loop is left after its first round.
ArchivableOnce(ids) ==
    LET allowed == ids \cap WithStatus(Status \ Active)
    IN  {i \in allowed : ~HasBlockingDependant(i, allowed)}

\* The loop that drops tasks until none has a blocking dependant outside the rest
\* ends with the largest such set.
Archivable(ids) ==
    LET allowed == ids \cap WithStatus(Status \ Active)
    IN  UNION {S \in SUBSET allowed : \A i \in S : ~HasBlockingDependant(i, S)}

BeginArchive(c, ids) ==
    /\ Looks(c, "archive")
    /\ \E sources \in InOrder(Archivable(ids)) :
           /\ sources # << >>
           /\ Continue(c, [New("archive", IF Archive \in DOMAIN groups THEN "Adding"
                                                                    ELSE "Grouping")
                  EXCEPT !.todo = [k \in DOMAIN sources |-> CopyOf(sources[k], Archive)]])

CreateArchive(c) ==
    /\ IsAt(c, "Grouping")
    /\ GroupAdd(Archive, 1)
    /\ Continue(c, IF response' = "Success" THEN [session[c] EXCEPT !.at = "Adding"]
                                            ELSE Over)
    /\ LeaveLocked({})

\* The sources go by the request of the remove command.
RemoveSources(c) ==
    /\ IsAt(c, "Adding")
    /\ session[c].command = "archive" /\ session[c].todo = << >>
    /\ Remove(session[c].ids)
    /\ End(c)
    /\ LeaveLocked({})

-----------------------------------------------------------------------------
(* wait.rs *)

BeginWait(c, sel, target) ==
    /\ Looks(c, "wait")
    /\ Continue(c, [New("wait", "Waiting") EXCEPT !.sel = sel, !.target = target])

\* reached_target_status
ReachedTarget(i, target) ==
    CASE target = "Queued" -> i \in WithStatus({"Queued", "Running"} \cup Results)
      [] target = "Running" -> i \in WithStatus({"Running"} \cup Results)
      [] target = "Done" -> i \in WithStatus(Results)
      [] target = "Success" -> i \in WithStatus({"Success"})

\* Mutant of Watched: a task that is gone is still waited for.
WatchedForEver(c) == session[c].ids \cup (Selected(session[c].sel) \ session[c].finished)

\* The tasks to look at in this poll: the ones watched before that are still there
\* and new ones.
Watched(c) ==
    (session[c].ids \cup (Selected(session[c].sel) \ session[c].finished))
        \cap Selected(session[c].sel)

\* What one round of the loop makes of the wait. It ends without tasks, without any to
\* wait for, and, when success is waited for, with the first failure.
AfterPoll(c) ==
    LET s == session[c]
        reached == {i \in Watched(c) : ReachedTarget(i, s.target)}
        failed == {i \in Watched(c) \cap DOMAIN tasks : HasFailed(tasks[i])}
    IN  IF \/ Watched(c) \subseteq reached
           \/ s.target = "Success" /\ failed # {}
        THEN Over
        ELSE [s EXCEPT !.ids = Watched(c) \ reached, !.finished = @ \cup reached]

Poll(c) == IsAt(c, "Waiting") /\ OnlyLooks /\ Continue(c, AfterPoll(c))

-----------------------------------------------------------------------------
(* Next-state relation *)

\* The client is killed, its user declines a question, or its daemon is gone.
Quit(c) ==
    /\ session[c].command # "none"
    /\ stage = "Free"
    /\ UNCHANGED vars
    /\ End(c)
    /\ LeaveLocked(session[c].ids)

EditSession(c) ==
    \/ \E ids \in {S \in IdSets : Cardinality(S) <= MaxEdited} : BeginEdit(c, ids)
    \/ SendEdits(c)
    \/ RestoreEdits(c)

\* The group a copy goes to: the task's own, or one for all.
ToGroup ==
    {[g \in GroupNames |-> g]} \cup {[g \in GroupNames |-> h] : h \in GroupNames}

AddingSession(c) ==
    \/ \E ids \in {S \in IdSets : Cardinality(S) <= MaxChosen},
          status \in {"Queued", "Stashed"} :
        \E immediate \in {FALSE, status = "Queued"} :
            \/ BeginRestart(c, ids, status, immediate)
            \/ BeginRestartInPlace(c, ids, status, immediate)
            \/ \E toGroup \in ToGroup, count \in 1 .. MaxCopies :
                  BeginCopy(c, ids, status, immediate, toGroup, count)
    \/ \E n \in 1 .. MaxImported, group \in GroupNames :
        \E priorities \in [1 .. n -> Priorities] : BeginImport(c, priorities, group)
    \/ Replace(c)
    \/ AddNext(c)

ArchiveSession(c) ==
    \/ \E ids \in IdSets : BeginArchive(c, ids)
    \/ CreateArchive(c)
    \/ RemoveSources(c)

WaitSession(c) ==
    \/ \E sel \in WaitSelections, target \in WaitTargets : BeginWait(c, sel, target)
    \/ Poll(c)

\* Single requests of other clients: those that can make a session's next request fail.
OtherClients == ClientGroup

DaemonStep == TaskHandlerStep \/ StartStep \/ ProcessExit

\* Some tasks are there already.
SessionInit ==
    /\ tasks \in InitialTasks
    /\ groups = [g \in InitialGroups |-> [status |-> "Running", parallel_tasks |-> 1]]
    /\ children = [g \in InitialGroups |-> << >>]
    /\ shutdown = "None"
    /\ disk = Image(tasks, groups)
    /\ stage = "Free"
    /\ pending = {}
    /\ requests = 0
    /\ response = "None"
    /\ restarts = 0
    /\ session = [c \in Clients |-> Idle]
    /\ left = {}

SessionNext ==
    \/ DaemonStep /\ UNCHANGED session /\ LeaveLocked({})
    \/ OtherClients /\ UNCHANGED session /\ LeaveLocked({})
    \/ \E c \in Clients :
        EditSession(c) \/ AddingSession(c) \/ ArchiveSession(c) \/ WaitSession(c) \/ Quit(c)

SessionSpec == SessionInit /\ [][SessionNext]_<< vars, sessionVars >>

-----------------------------------------------------------------------------
(* Properties *)

\* edit.rs:46-49: a locked task is in the editor of some client, or was left by a
\* client that was killed, got its EditRequest or its edits refused, or deleted the
\* task from its file. Nothing else, a failing editor included, leaves a lock behind.
LocksHaveEditors ==
    \A i \in WithStatus({"Locked"}) :
        \/ i \in left
        \/ \E c \in Clients : session[c].command = "edit" /\ i \in session[c].ids

\* archive.rs says that it mirrors the daemon's rule for what can be removed: two
\* algorithms, one over the dependencies, one over the reverse index, agree on every
\* set of tasks, so archive never copies a task that the daemon then refuses to remove
\* for its dependants.
ArchiveMirrorsRemove ==
    stage = "Free" => \A ids \in IdSets : Archivable(ids) = Removable(ids)

HasCopy(i) ==
    \E j \in DOMAIN tasks \ {i} :
        tasks[j].group = Archive /\ tasks[j].priority = tasks[i].priority

\* What archive removes it has copied before: with several clients archiving, groups
\* removed in between and sessions that stop in the middle, a task with the content
\* (its priority stands for it) of each task removed is in the archive, as long as
\* nobody edits the content meanwhile.
ArchiveLosesNothing ==
    [][\A c \in Clients :
          RemoveSources(c) => \A i \in DOMAIN tasks \ DOMAIN tasks' : HasCopy(i)
      ]_<< vars, sessionVars >>

\* A poll of wait ends the wait exactly when every selected task, those added since
\* the wait began included and those removed left out, has its target status or had
\* it in an earlier poll, or when success has become impossible.
WaitEndsInTime ==
    \A c \in Clients :
        IsAt(c, "Waiting") =>
            LET s == session[c]
                waitedFor == {i \in Selected(s.sel) :
                                 i \notin s.finished /\ ~ReachedTarget(i, s.target)}
                hopeless == s.target = "Success" /\ \E i \in waitedFor : HasFailed(tasks[i])
            IN  AfterPoll(c) = Over <=> waitedFor = {} \/ hopeless

=============================================================================
