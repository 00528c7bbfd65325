------------------------------ MODULE TaskLogs ------------------------------
(***************************************************************************)
(* The log files of tasks and those who read them while tasks start,       *)
(* write, pause, end, restart, are removed or reset: a client that runs    *)
(* `pueue follow`, reading the file itself or having the daemon stream it, *)
(* or `pueue log`.                                                         *)
(*                                                                         *)
(* Tasks are those of InternalState as far as logs are concerned, in one   *)
(* group.  A file is a sequence of lines, a line is <<run, number>>, and   *)
(* every start of any task is a run of its own.  A file that is removed    *)
(* stays readable for those who opened it, so files are numbered and       *)
(* `path` says which file, if any, has the name of a task's log.           *)
(***************************************************************************)
EXTENDS Naturals, Sequences, FiniteSets

SeqExt == INSTANCE SequencesExt

CONSTANTS
    Ids,            \* ids of tasks
    Modes,          \* subset of {"local", "remote"}: client.read_local_logs
    LineLimits,     \* numbers of last lines to show; 0 stands for all
    MaxRuns,        \* bound on the starts of tasks
    MaxLines,       \* bound on the lines that one run writes
    MaxAdded        \* bound on the tasks that are added

ASSUME TaskLogsAssumption ==
    /\ Ids \subseteq Nat
    /\ Modes \subseteq {"local", "remote"}
    /\ LineLimits \subseteq Nat
    /\ MaxRuns \in Nat /\ MaxLines \in Nat /\ MaxAdded \in Nat

VARIABLES
    tasks,      \* [Ids -> [status, run]]: run is 0 before the first start
    files,      \* Seq(Seq(lines)): every log file there has ever been
    path,       \* [Ids -> 0..Len(files)]: 0 when the task has no log file
    holder,     \* the ids whose files the holder of the state's lock cleans
    leftovers,  \* the ids whose files a reset has left behind
    runs,       \* the runs so far
    added,      \* the tasks added so far
    follower,   \* the loop that follows a log, in the client or the daemon
    viewer,     \* what the client of the follow has shown and is told
    channel,    \* Seq of messages from the daemon to the viewer
    reader      \* `pueue log`

world == <<tasks, files, path, holder, leftovers, runs, added>>
following == <<follower, viewer, channel>>
vars == <<world, following, reader>>

Statuses == {"none", "Queued", "Running", "Paused", "Done"}
NoTask == [status |-> "none", run |-> 0]

Content(id) == IF path[id] = 0 THEN <<>> ELSE files[path[id]]

(* Task::is_running: a paused task has a process, too.                     *)
IsRunning(task) == task.status \in {"Running", "Paused"}
RunningIds == {id \in Ids : IsRunning(tasks[id])}

Init ==
    /\ tasks = [id \in Ids |-> NoTask]
    /\ files = <<>>
    /\ path = [id \in Ids |-> 0]
    /\ holder = {}
    /\ leftovers = {}
    /\ runs = 0
    /\ added = 0
    /\ follower = [place |-> "idle"]
    /\ viewer = [place |-> "idle", shown |-> <<>>]
    /\ channel = <<>>
    /\ reader = [place |-> "idle"]

-----------------------------------------------------------------------------
(* Tasks, by the daemon and their processes.  Whoever changes the state    *)
(* needs its lock.                                                         *)

Unlocked == holder = {}

Become(id, status) == tasks' = [tasks EXCEPT ![id].status = status]

(* add_task: the id after the largest that is in use.                      *)
IsNext(id) ==
    \A other \in Ids : other < id <=> \E used \in Ids : tasks[used] # NoTask /\ other <= used

AddTask(id) ==
    /\ Unlocked /\ IsNext(id) /\ added < MaxAdded
    /\ tasks' = [tasks EXCEPT ![id] = [status |-> "Queued", run |-> 0]]
    /\ added' = added + 1
    /\ UNCHANGED <<files, path, holder, leftovers, runs, following, reader>>

\* Mutant of OpenedForRun: an existing file is appended to.
OpenedForRunAppending(id) ==
    IF path[id] = 0
    THEN files' = Append(files, <<>>) /\ path' = [path EXCEPT ![id] = Len(files) + 1]
    ELSE UNCHANGED <<files, path>>

(* File::create: an existing file is truncated, and whoever has it open    *)
(* goes on with it; a file without a name stays as it is.                  *)
OpenedForRun(id) ==
    IF path[id] = 0
    THEN files' = Append(files, <<>>) /\ path' = [path EXCEPT ![id] = Len(files) + 1]
    ELSE files' = [files EXCEPT ![path[id]] = <<>>] /\ UNCHANGED path

(* spawn_process: create_log_file_handles, the child, then the status.  A  *)
(* group that is being reset starts a task only when a client asks for it. *)
StartTask(id) ==
    /\ Unlocked /\ tasks[id].status = "Queued" /\ runs < MaxRuns
    /\ OpenedForRun(id)
    /\ tasks' = [tasks EXCEPT ![id] = [status |-> "Running", run |-> runs + 1]]
    /\ runs' = runs + 1
    /\ leftovers' = leftovers \ {id}
    /\ UNCHANGED <<holder, added, following, reader>>

WriteLine(id) ==
    /\ tasks[id].status = "Running" /\ path[id] # 0
    /\ Len(Content(id)) < MaxLines
    /\ files' = [files EXCEPT ![path[id]] =
                     Append(@, <<tasks[id].run, Len(@) + 1>>)]
    /\ UNCHANGED <<tasks, path, holder, leftovers, runs, added, following, reader>>

ChangeStatus(id) ==
    /\ Unlocked
    /\ \/ tasks[id].status = "Running" /\ Become(id, "Paused")
       \/ tasks[id].status = "Paused" /\ Become(id, "Running")
       \/ tasks[id].status = "Queued" /\ Become(id, "Done")  \* DependencyFailed
       \/ tasks[id].status = "Done" /\ Become(id, "Queued")  \* restart in place
    /\ UNCHANGED <<files, path, holder, leftovers, runs, added, following, reader>>

(* A client may request a reset of the group at any time, and starting or  *)
(* pausing the group takes the mark away again, so at each of the next two *)
(* steps the group may or may not be in a reset.                           *)

(* handle_finished_tasks: a child that ends during a reset loses its log   *)
(* at once, while its task stays until the reset is done.                  *)
FinishTask(id) ==
    /\ Unlocked /\ IsRunning(tasks[id])
    /\ Become(id, "Done")
    /\ holder' \in {{}, {id}}
    /\ UNCHANGED <<files, path, leftovers, runs, added, following, reader>>

(* handle_group_resets: with the last child gone all tasks of the group    *)
(* are dropped, the queued and those that ended before the reset, too, and *)
(* nothing is done about their files.                                      *)
FinishReset ==
    /\ Unlocked /\ RunningIds = {}
    /\ tasks' = [id \in Ids |-> NoTask]
    /\ leftovers' = {id \in Ids : path[id] # 0}
    /\ UNCHANGED <<files, path, holder, runs, added, following, reader>>

(* remove and clean drop the task and then its file, and hold the lock all *)
(* the while.                                                              *)
RemoveTask(id) ==
    /\ Unlocked /\ tasks[id].status \in {"Queued", "Done"}
    /\ tasks' = [tasks EXCEPT ![id] = NoTask]
    /\ holder' = {id}
    /\ UNCHANGED <<files, path, leftovers, runs, added, following, reader>>

\* Mutant of CleanLogHandles: the file is not removed.
CleanLogHandlesNot ==
    /\ holder # {}
    /\ holder' = {}
    /\ UNCHANGED <<tasks, files, path, leftovers, runs, added, following, reader>>

CleanLogHandles ==
    /\ holder # {}
    /\ path' = [id \in Ids |-> IF id \in holder THEN 0 ELSE path[id]]
    /\ leftovers' = leftovers \ holder
    /\ holder' = {}
    /\ UNCHANGED <<tasks, files, runs, added, following, reader>>

-----------------------------------------------------------------------------
(* Following a log.  follow_log in the daemon and follow_local_task_logs   *)
(* in the client are the same loop over file and state.  The client's own  *)
(* loop shows what it reads and looks at the task in every second          *)
(* iteration only; the daemon's sends messages.                            *)

Remote == follower.mode = "remote"

(* What the loop tells: the text it read, or how it ended.                 *)
Tell(message) ==
    IF Remote
    THEN channel' = Append(channel, message) /\ UNCHANGED viewer
    ELSE /\ viewer' = IF message.kind = "chunk"
                      THEN [viewer EXCEPT !.shown = @ \o message.text]
                      ELSE [viewer EXCEPT !.place = "ended"]
         /\ UNCHANGED channel

Farewell(kind) ==
    /\ Tell([kind |-> kind])
    /\ follower' = [follower EXCEPT !.place = "ended"]

Goto(place) == follower' = [follower EXCEPT !.place = place]

(* `pueue follow`, with an id or, by 0, for the only task that runs.       *)
Follow ==
    /\ viewer.place = "idle" /\ reader.place = "idle"
    /\ \E mode \in Modes, id \in Ids \cup {0}, lines \in LineLimits :
           follower' = [place |-> IF id = 0 THEN "choosing" ELSE "waiting", mode |-> mode,
                        id |-> id, lines |-> lines, file |-> 0, start |-> 0,
                        offset |-> 0, run |-> 0, check |-> TRUE]
    /\ viewer' = [viewer EXCEPT !.place = "following"]
    /\ UNCHANGED <<world, channel, reader>>

ChooseTask ==
    /\ follower.place = "choosing" /\ Unlocked
    /\ IF Cardinality(RunningIds) = 1
       THEN /\ follower' = [follower EXCEPT !.place = "waiting",
                                !.id = CHOOSE id \in RunningIds : TRUE]
            /\ UNCHANGED <<viewer, channel>>
       ELSE Farewell("failure")
    /\ UNCHANGED <<world, reader>>

\* Mutant of Followable: a task that has ended is still waited for.
FollowableRunning(task) == IsRunning(task)

(* "The task is running or finished, we can start to follow."              *)
Followable(task) == IsRunning(task) \/ task.status = "Done"

(* A task that has not started is waited for.                              *)
AwaitStart ==
    /\ follower.place = "waiting" /\ Unlocked
    /\ \/ tasks[follower.id].status = "none" /\ Farewell("failure")
       \/ /\ Followable(tasks[follower.id])
          /\ Goto("opening") /\ UNCHANGED <<viewer, channel>>
    /\ UNCHANGED <<world, reader>>

(* seek_to_last_lines, where a limit is given.                             *)
SeekTo(limit, length) == IF limit = 0 \/ limit > length THEN 0 ELSE length - limit

OpenLog ==
    /\ follower.place = "opening"
    /\ LET start == SeekTo(follower.lines, Len(Content(follower.id)))
       IN IF path[follower.id] = 0
          THEN Farewell("failure")
          ELSE /\ follower' = [follower EXCEPT !.place = "looking",
                      !.file = path[follower.id], !.run = tasks[follower.id].run,
                      !.start = start, !.offset = start]
               /\ UNCHANGED <<viewer, channel>>
    /\ UNCHANGED <<world, reader>>

(* path.exists(): the name, whatever file it is by now.                    *)
LookForFile ==
    /\ follower.place = "looking"
    /\ IF path[follower.id] = 0
       THEN Farewell("gone")
       ELSE Goto("reading") /\ UNCHANGED <<viewer, channel>>
    /\ UNCHANGED <<world, reader>>

\* Mutants of Unread: the file is opened anew for every read; only one read is made.
UnreadFromStart ==
    SubSeq(files[follower.file], follower.start + 1, Len(files[follower.file]))
UnreadOnce ==
    IF follower.offset > follower.start THEN <<>>
    ELSE SubSeq(files[follower.file], follower.offset + 1, Len(files[follower.file]))

(* read_to_end: what lies behind the cursor of the open file.              *)
Unread == SubSeq(files[follower.file], follower.offset + 1, Len(files[follower.file]))

ReadLog ==
    /\ follower.place = "reading"
    /\ IF Unread = <<>>
       THEN UNCHANGED <<viewer, channel>>
       ELSE Tell([kind |-> "chunk", text |-> Unread])
    /\ follower' = [follower EXCEPT !.offset = @ + Len(Unread),
                        !.place = IF follower.check THEN "checking" ELSE "looking",
                        !.check = Remote \/ ~@]
    /\ UNCHANGED <<world, reader>>

(* The stream ends with the task's run.                                    *)
CheckTask ==
    /\ follower.place = "checking" /\ Unlocked
    /\ \/ tasks[follower.id].status = "none" /\ Farewell("failure")
       \/ /\ IsRunning(tasks[follower.id])
          /\ Goto("looking") /\ UNCHANGED <<viewer, channel>>
       \/ tasks[follower.id].status \in {"Queued", "Done"} /\ Farewell("close")
    /\ UNCHANGED <<world, reader>>

(* remote_follow: an answer that is no Stream, Close or Failure is logged  *)
(* as unhandled, and the client waits for the next one as before; the      *)
(* place "unheeding" only remembers that this has happened.                *)
Heed(message) ==
    CASE message.kind = "chunk" -> [viewer EXCEPT !.shown = @ \o message.text]
      [] message.kind \in {"close", "failure"} -> [viewer EXCEPT !.place = "ended"]
      [] OTHER -> [viewer EXCEPT !.place = "unheeding"]

ReceiveMessage ==
    /\ channel # <<>>
    /\ viewer' = Heed(Head(channel))
    /\ channel' = Tail(channel)
    /\ UNCHANGED <<world, follower, reader>>

-----------------------------------------------------------------------------
(* `pueue log`: get_log clones the state and then reads one file after the *)
(* other; a file that cannot be read fails the request.  With local logs   *)
(* the client gets the tasks alone and reads the files of those that have  *)
(* run, skipping what it cannot open.  Of the copied tasks only the runs   *)
(* matter here.                                                            *)

HasRun(task) == IsRunning(task) \/ task.status = "Done"

RequestLog ==
    /\ viewer.place = "idle" /\ reader.place = "idle" /\ Unlocked
    /\ \E mode \in Modes :
           reader' = [place |-> "reading", mode |-> mode,
                      copy |-> [id \in Ids |-> tasks[id].run],
                      runs |-> runs, leftovers |-> leftovers, output |-> <<>>,
                      left |-> {id \in Ids : IF mode = "remote" THEN tasks[id] # NoTask
                                                               ELSE HasRun(tasks[id])}]
    /\ UNCHANGED <<world, following>>

ReadNext ==
    /\ reader.place = "reading"
    /\ \E id \in reader.left :
           /\ \A other \in reader.left : id <= other
           /\ reader' = IF path[id] # 0
                        THEN [reader EXCEPT !.left = @ \ {id},
                                  !.output = Append(@, [id |-> id, text |-> Content(id)])]
                        ELSE IF reader.mode = "remote"
                             THEN [reader EXCEPT !.place = "failed"]
                             ELSE [reader EXCEPT !.left = @ \ {id}]
    /\ UNCHANGED <<world, following>>

PrintLog ==
    /\ reader.place = "reading" /\ reader.left = {}
    /\ reader' = [reader EXCEPT !.place = "printed"]
    /\ UNCHANGED <<world, following>>

-----------------------------------------------------------------------------
FollowerStep ==
    ChooseTask \/ AwaitStart \/ OpenLog \/ LookForFile \/ ReadLog \/ CheckTask

ReaderStep == ReadNext \/ PrintLog

Next ==
    \/ \E id \in Ids : AddTask(id) \/ StartTask(id) \/ WriteLine(id)
                           \/ ChangeStatus(id) \/ FinishTask(id) \/ RemoveTask(id)
    \/ CleanLogHandles \/ FinishReset
    \/ Follow \/ FollowerStep \/ ReceiveMessage
    \/ RequestLog \/ ReaderStep

(* A handler that holds the lock goes on, and the loops are woken by their *)
(* sleeps; no task has to start, write or end, and nobody has to ask.      *)
Spec ==
    /\ Init /\ [][Next]_vars
    /\ WF_vars(CleanLogHandles)
    /\ WF_vars(FollowerStep)
    /\ WF_vars(ReceiveMessage)
    /\ WF_vars(ReaderStep)

-----------------------------------------------------------------------------
Opened == viewer.place # "idle" /\ follower.file # 0

(* The text that was sent and not yet received.                            *)
TextOf(messages) ==
    SeqExt!FlattenSeq([i \in DOMAIN messages |->
        IF messages[i].kind = "chunk" THEN messages[i].text ELSE <<>>])

(* The run that was being followed still owns the open file.               *)
SameRun == \A i \in DOMAIN files[follower.file] : files[follower.file][i][1] = follower.run

(* follow_log, remote_follow, local_follow: what was shown and what is on  *)
(* its way is, without a gap or a repetition, the part of the file between *)
(* where the follow began and where its cursor is, until the task starts   *)
(* again in the same file.                                                 *)
NothingSkipped ==
    (Opened /\ SameRun /\ Len(files[follower.file]) >= follower.offset) =>
        viewer.shown \o TextOf(channel) =
            SubSeq(files[follower.file], follower.start + 1, follower.offset)

(* The line is of a run that the copied state knows as the task's last, or *)
(* of one that began after the state was copied.                           *)
Recent(run, line) == IF run = 0 THEN reader.runs < line[1] ELSE run <= line[1]

(* spawn_process, clean_log_handles and get_log: a task is never printed   *)
(* with lines older than its last start, and one that has not started is   *)
(* never printed with lines of a task that had its id before, although     *)
(* the files are read after the state was copied and the lock given back.  *)
(* The one exception is a task that has not started since a reset left the *)
(* file of an earlier task with its id behind.                             *)
LogNotOlder ==
    (reader.place = "printed") =>
        \A i \in DOMAIN reader.output :
            \/ reader.output[i].id \in reader.leftovers
            \/ \A k \in DOMAIN reader.output[i].text :
                   Recent(reader.copy[reader.output[i].id], reader.output[i].text[k])

(* Nothing left to follow: the task is gone, or has come to rest.          *)
Over == viewer.place # "idle" /\ follower.id # 0
            /\ tasks[follower.id].status \in {"none", "Done"}

(* follow: a follow whose task has come to rest or is gone ends, but for   *)
(* the farewell that the remote client does not heed.                      *)
FollowsEnd == <>[]Over => <>(viewer.place \in {"ended", "unheeding"})

(* follow.rs:46-47: the log is received until the daemon closes the stream *)
(* once the task finishes.                                                 *)
FollowsAlwaysEnd == <>[]Over => <>(viewer.place = "ended")

Written(line) ==
    Opened /\ \E i \in DOMAIN files[follower.file] :
                  i > follower.start /\ files[follower.file][i] = line

Shown(line) == \E i \in DOMAIN viewer.shown : viewer.shown[i] = line

(* follow: a line that the followed run writes is shown sooner or later,   *)
(* unless the follow ends or the task is started again in the same file.   *)
OutputArrives ==
    \A n \in 1..MaxLines :
        Written(<<follower.run, n>>) ~>
            (\/ Shown(<<follower.run, n>>)
             \/ follower.place = "ended" \/ ~Written(<<follower.run, n>>))
=============================================================================
