--------------------------- MODULE TaskLogProofs ---------------------------
(***************************************************************************)
(* Proofs about the log files of tasks, for every number of tasks, runs    *)
(* and lines: `pueue log` never prints a task with the output of an        *)
(* earlier run or of an earlier task with its id (LogNotOlder), and        *)
(* `pueue follow` shows the log without gaps and repetitions               *)
(* (NothingSkipped).                                                       *)
(*                                                                         *)
(* LogNotOlder compares a copy of the state with files that are read one   *)
(* by one after the lock was given back.  It is not inductive: the         *)
(* invariant says of the files what the reader relies on.  A log holds no  *)
(* line of a run before its task's, no file has two names, a task without  *)
(* a run has no file but one that a reset has left behind or that is about *)
(* to be removed (FilesInv), and while a reader is at work neither tasks   *)
(* nor files fall behind what it has copied (ReaderInv).                   *)
(*                                                                         *)
(* NothingSkipped says nothing of a file that was truncated for a later    *)
(* run, so it is not inductive either: such a file may grow beyond the     *)
(* cursor again.  The invariant (StreamInv) knows that it then holds lines *)
(* of later runs only, and that no process of an earlier run writes to it  *)
(* any more.  What is on its way to a remote client is the messages' text  *)
(* joined by FlattenSeq of the community modules, a recursive function;    *)
(* what it computes is proved from the least number for which it would     *)
(* compute something else.                                                 *)
(***************************************************************************)
EXTENDS TaskLogs, SequenceTheorems, FiniteSetTheorems, WellFoundedInduction, TLAPS

Line == Nat \X Nat
TaskRecord == [status : Statuses, run : Nat]

TypeInv ==
    /\ tasks \in [Ids -> TaskRecord]
    /\ files \in Seq(Seq(Line))
    /\ path \in [Ids -> Nat]
    /\ leftovers \subseteq Ids
    /\ runs \in Nat

\* No line of the text is of a run before this one.
NotBefore(text, run) == \A k \in DOMAIN text : run <= text[k][1]

FilesInv ==
    /\ \A i \in Ids : path[i] <= Len(files)
    /\ \A i, j \in Ids : path[i] = path[j] /\ path[i] # 0 => i = j
    /\ \A i \in Ids : tasks[i].run <= runs
    /\ \A i \in Ids : IsRunning(tasks[i]) => tasks[i].run # 0
    /\ \A i \in Ids : NotBefore(Content(i), tasks[i].run)
    /\ \A i \in Ids : tasks[i].run = 0 /\ path[i] # 0 => i \in leftovers \cup holder

\* No task has run, and no log has a line, before the least run that a reader may see
\* of each task.  A task that was removed has no run, until it is started as another one.
KeepsUp(least) ==
    /\ least \in [Ids -> Nat]
    /\ \A i \in Ids : least[i] <= runs + 1
    /\ \A i \in Ids : tasks[i].run = 0 \/ least[i] <= tasks[i].run
    /\ \A i \in Ids : NotBefore(Content(i), least[i])

Output == [id : Ids, text : Seq(Line)]

Reader == [place : {"reading", "printed", "failed"}, mode : Modes, copy : [Ids -> Nat],
           runs : Nat, leftovers : SUBSET Ids, output : Seq(Output), left : SUBSET Ids]

\* The copied run or, of a task that had not started, the first after the copy.
Least == [i \in Ids |-> IF reader.copy[i] = 0 /\ i \notin reader.leftovers
                        THEN reader.runs + 1 ELSE reader.copy[i]]

OutputNotBefore(least, output) ==
    \A k \in DOMAIN output : NotBefore(output[k].text, least[output[k].id])

ReaderInv ==
    reader.place # "idle" =>
        /\ reader \in Reader
        /\ KeepsUp(Least)
        /\ OutputNotBefore(Least, reader.output)

LogsInv == TypeInv /\ FilesInv /\ ReaderInv

-----------------------------------------------------------------------------
LEMMA LogsInit == Init => LogsInv
<1> SUFFICES ASSUME Init PROVE LogsInv
  OBVIOUS
<1> USE DEF Init
<1>1. \A i \in Ids : tasks[i] = NoTask /\ path[i] = 0 /\ Content(i) = <<>>
  BY DEF Content
<1>2. TypeInv
  BY DEF TypeInv, TaskRecord, Statuses, NoTask
<1>3. FilesInv
  BY <1>1 DEF FilesInv, NotBefore, NoTask, IsRunning
<1>4. ReaderInv
  BY DEF ReaderInv
<1>5. QED
  BY <1>2, <1>3, <1>4 DEF LogsInv

\* What a step of the daemon may do to task and log: the run of a task stays, is
\* forgotten or is a new one, and every line of a log was there or is of the task's run.
LEMMA WorldStep ==
  ASSUME TypeInv, FilesInv, ReaderInv, TypeInv', UNCHANGED reader,
         runs <= runs',
         \A i \in Ids : \/ tasks'[i].run = tasks[i].run
                        \/ tasks'[i].run = 0
                        \/ tasks'[i].run = runs + 1 /\ runs' = runs + 1
                           /\ Content(i)' = <<>>,
         \A i \in Ids : \/ Content(i)' = Content(i)
                        \/ Content(i)' = <<>>
                        \/ /\ tasks'[i].run = tasks[i].run /\ tasks[i].run # 0
                           /\ \E n \in Nat :
                                 Content(i)' = Append(Content(i), <<tasks[i].run, n>>)
  PROVE  /\ \A i \in Ids : tasks'[i].run <= runs'
         /\ \A i \in Ids : NotBefore(Content(i)', tasks'[i].run)
         /\ ReaderInv'
<1>1. \A i \in Ids : /\ tasks[i].run \in Nat /\ tasks'[i].run \in Nat
                     /\ Content(i) \in Seq(Line)
  BY DEF TypeInv, TaskRecord, FilesInv, Content
<1>2. runs \in Nat /\ runs' \in Nat
  BY DEF TypeInv
<1>3. ASSUME NEW i \in Ids, NEW r \in Nat, NotBefore(Content(i), r),
             tasks[i].run = 0 \/ r <= tasks[i].run
      PROVE  NotBefore(Content(i)', r)
  <2>1. CASE Content(i)' = Content(i) \/ Content(i)' = <<>>
    BY <1>3, <2>1 DEF NotBefore
  <2>2. CASE tasks[i].run # 0
             /\ \E n \in Nat : Content(i)' = Append(Content(i), <<tasks[i].run, n>>)
    <3>1. PICK n \in Nat : Content(i)' = Append(Content(i), <<tasks[i].run, n>>)
      BY <2>2
    <3> DEFINE c == Content(i)
    <3>2. c \in Seq(Line) /\ \A k \in DOMAIN c : r <= c[k][1]
      BY <1>1, <1>3 DEF NotBefore
    <3>3. r <= tasks[i].run
      BY <1>3, <2>2
    <3>4. <<tasks[i].run, n>> \in Line /\ <<tasks[i].run, n>>[1] = tasks[i].run
      BY <1>1 DEF Line
    <3> DEFINE l == <<tasks[i].run, n>>
    <3> HIDE DEF c, l
    <3>5. \A k \in DOMAIN Append(c, l) : r <= Append(c, l)[k][1]
      BY <3>2, <3>3, <3>4 DEF l
    <3>6. QED
      BY <3>1, <3>5 DEF NotBefore, c, l
  <2>3. QED
    BY <2>1, <2>2
<1>4. ASSUME NEW i \in Ids PROVE tasks'[i].run <= runs'
  BY <1>1, <1>2 DEF FilesInv
<1>5. ASSUME NEW i \in Ids PROVE NotBefore(Content(i)', tasks'[i].run)
  <2>1. CASE tasks'[i].run = tasks[i].run
    BY <1>1, <1>3, <2>1 DEF FilesInv
  <2>2. CASE tasks'[i].run = 0
    <3>1. NotBefore(Content(i), 0)
      BY <1>1 DEF NotBefore, Line
    <3>2. NotBefore(Content(i)', 0)
      BY <1>1, <1>3, <3>1
    <3>3. QED
      BY <2>2, <3>2
  <2>3. CASE Content(i)' = <<>>
    BY <2>3 DEF NotBefore
  <2>4. QED
    BY <2>1, <2>2, <2>3
<1>6. ReaderInv'
  <2> SUFFICES ASSUME reader.place # "idle" PROVE ReaderInv'
    BY DEF ReaderInv
  <2>1. reader \in Reader /\ KeepsUp(Least) /\ OutputNotBefore(Least, reader.output)
        /\ Least' = Least
    BY DEF ReaderInv, Least
  <2>2. \A i \in Ids : Least[i] \in Nat
    BY <2>1 DEF KeepsUp
  <2>3. ASSUME NEW i \in Ids PROVE Least[i] <= runs' + 1
    BY <1>2, <2>1, <2>2 DEF KeepsUp
  <2>4. ASSUME NEW i \in Ids PROVE tasks'[i].run = 0 \/ Least[i] <= tasks'[i].run
    BY <1>1, <1>2, <2>1, <2>2 DEF KeepsUp
  <2>5. ASSUME NEW i \in Ids PROVE NotBefore(Content(i)', Least[i])
    BY <1>3, <2>1, <2>2 DEF KeepsUp
  <2>6. KeepsUp(Least)'
    BY <2>1, <2>3, <2>4, <2>5 DEF KeepsUp
  <2>7. QED
    BY <2>1, <2>6 DEF ReaderInv
<1>7. QED
  BY <1>4, <1>5, <1>6

-----------------------------------------------------------------------------
(* The daemon and its processes *)

LEMMA ContentTyped ==
  ASSUME TypeInv, FilesInv
  PROVE  \A i \in Ids : /\ Content(i) \in Seq(Line)
                        /\ path[i] # 0 => path[i] \in 1..Len(files)
                                           /\ Content(i) = files[path[i]]
                        /\ tasks[i].run \in Nat
  BY DEF TypeInv, FilesInv, Content, TaskRecord

\* Adding, pausing, ending and removing a task leave all files alone.
LEMMA StatusSteps ==
  ASSUME LogsInv, NEW id \in Ids, UNCHANGED <<files, path, runs, reader>>,
         NEW task \in TaskRecord, tasks' = [tasks EXCEPT ![id] = task],
         task.run = 0 \/ task.run = tasks[id].run,
         IsRunning(task) => task.run # 0,
         leftovers' = leftovers, holder \subseteq holder',
         task.run = 0 /\ path[id] # 0 => id \in leftovers \cup holder'
  PROVE  LogsInv'
<1> USE DEF LogsInv
<1>1. TypeInv'
  BY DEF TypeInv
<1>2. \A i \in Ids : tasks'[i] = IF i = id THEN task ELSE tasks[i]
  BY DEF TypeInv
<1>3. \A i \in Ids : Content(i)' = Content(i)
  BY DEF Content
<1>4. runs <= runs'
  BY DEF TypeInv
<1>5. /\ \A i \in Ids : tasks'[i].run <= runs'
      /\ \A i \in Ids : NotBefore(Content(i)', tasks'[i].run)
      /\ ReaderInv'
  BY <1>1, <1>2, <1>3, <1>4, WorldStep
<1>6. \A i \in Ids : IsRunning(tasks'[i]) => tasks'[i].run # 0
  BY <1>2 DEF FilesInv
<1>7. \A i \in Ids : tasks'[i].run = 0 /\ path'[i] # 0 => i \in leftovers' \cup holder'
  BY <1>2 DEF FilesInv
<1>8. FilesInv'
  BY <1>5, <1>6, <1>7 DEF FilesInv, IsRunning
<1>9. QED
  BY <1>1, <1>5, <1>8

\* The next id is that of no task.
LEMMA NextIsFree == ASSUME NEW id \in Ids, IsNext(id) PROVE tasks[id] = NoTask
<1>1. id \in Nat /\ ~(id < id) /\ id <= id
  BY TaskLogsAssumption
<1>2. QED
  BY <1>1 DEF IsNext

LEMMA AddTaskLogs == ASSUME LogsInv, NEW id \in Ids, AddTask(id) PROVE LogsInv'
<1> DEFINE task == [status |-> "Queued", run |-> 0]
<1>1. task \in TaskRecord /\ task.run = 0 /\ ~IsRunning(task)
  BY DEF TaskRecord, Statuses, IsRunning
<1>2. /\ UNCHANGED <<files, path, runs, reader>> /\ tasks' = [tasks EXCEPT ![id] = task]
      /\ leftovers' = leftovers /\ holder' = holder
  BY DEF AddTask
<1>3. tasks[id].run = 0
  BY NextIsFree DEF AddTask, NoTask
<1>4. path[id] # 0 => id \in leftovers \cup holder'
  BY <1>2, <1>3 DEF LogsInv, FilesInv
<1> HIDE DEF task
<1>5. QED
  BY <1>1, <1>2, <1>4, StatusSteps

LEMMA RemoveTaskLogs == ASSUME LogsInv, NEW id \in Ids, RemoveTask(id) PROVE LogsInv'
<1>1. NoTask \in TaskRecord /\ NoTask.run = 0 /\ ~IsRunning(NoTask)
  BY DEF TaskRecord, Statuses, NoTask, IsRunning
<1>2. /\ UNCHANGED <<files, path, runs, reader>> /\ leftovers' = leftovers
      /\ tasks' = [tasks EXCEPT ![id] = NoTask]
      /\ holder \subseteq holder' /\ id \in holder'
  BY DEF RemoveTask, Unlocked
<1>3. QED
  BY <1>1, <1>2, StatusSteps

\* A task keeps its run and with it the right to its file.
LEMMA BecomeLogs ==
  ASSUME LogsInv, NEW id \in Ids, NEW status \in Statuses, Become(id, status),
         status \in {"Running", "Paused"} => IsRunning(tasks[id]),
         UNCHANGED <<files, path, runs, reader, leftovers>>, holder \subseteq holder'
  PROVE  LogsInv'
<1>1. tasks[id] \in TaskRecord
  BY DEF LogsInv, TypeInv
<1> DEFINE task == [tasks[id] EXCEPT !.status = status]
<1>2. task \in TaskRecord /\ task.run = tasks[id].run /\ task.status = status
  BY <1>1 DEF TaskRecord
<1>3. tasks' = [tasks EXCEPT ![id] = task]
  BY DEF Become
<1>4. IsRunning(task) => task.run # 0
  BY <1>2 DEF LogsInv, FilesInv, IsRunning
<1>5. task.run = 0 /\ path[id] # 0 => id \in leftovers \cup holder'
  BY <1>2 DEF LogsInv, FilesInv
<1> HIDE DEF task
<1>6. QED
  BY <1>2, <1>3, <1>4, <1>5, StatusSteps

LEMMA ChangeStatusLogs == ASSUME LogsInv, NEW id \in Ids, ChangeStatus(id) PROVE LogsInv'
<1>1. PICK status \in Statuses :
          /\ Become(id, status)
          /\ status \in {"Running", "Paused"} => IsRunning(tasks[id])
  BY DEF ChangeStatus, Statuses, IsRunning
<1>2. UNCHANGED <<files, path, runs, reader, leftovers, holder>>
  BY DEF ChangeStatus
<1>3. QED
  BY <1>1, <1>2, BecomeLogs

LEMMA FinishTaskLogs == ASSUME LogsInv, NEW id \in Ids, FinishTask(id) PROVE LogsInv'
<1>1. /\ Become(id, "Done") /\ "Done" \in Statuses /\ holder \subseteq holder'
      /\ UNCHANGED <<files, path, runs, reader, leftovers>>
  BY DEF FinishTask, Unlocked, Statuses
<1>2. "Done" \notin {"Running", "Paused"}
  OBVIOUS
<1>3. QED
  BY <1>1, <1>2, BecomeLogs

\* What keeps its name is left behind.
LEMMA FinishResetLogs == ASSUME LogsInv, FinishReset PROVE LogsInv'
<1> USE DEF LogsInv
<1>1. NoTask \in TaskRecord /\ NoTask.run = 0 /\ ~IsRunning(NoTask)
  BY DEF TaskRecord, Statuses, NoTask, IsRunning
<1>2. /\ UNCHANGED <<files, path, runs, reader>> /\ tasks' = [i \in Ids |-> NoTask]
      /\ leftovers' = {i \in Ids : path[i] # 0}
  BY DEF FinishReset
<1>3. TypeInv' /\ runs <= runs'
  BY <1>1, <1>2 DEF TypeInv
<1>4. \A i \in Ids : tasks'[i] = NoTask /\ Content(i)' = Content(i)
  BY <1>2 DEF Content
<1>5. /\ \A i \in Ids : tasks'[i].run <= runs'
      /\ \A i \in Ids : NotBefore(Content(i)', tasks'[i].run)
      /\ ReaderInv'
  BY <1>1, <1>2, <1>3, <1>4, WorldStep
<1>6. FilesInv'
  BY <1>1, <1>2, <1>4, <1>5 DEF FilesInv
<1>7. QED
  BY <1>3, <1>5, <1>6

\* The file is truncated or new, and in either case the task's alone.
LEMMA StartTaskLogs == ASSUME LogsInv, NEW id \in Ids, StartTask(id) PROVE LogsInv'
<1> USE DEF LogsInv
<1> DEFINE task == [status |-> "Running", run |-> runs + 1]
<1>1. /\ task \in TaskRecord
      /\ \A i \in Ids : tasks'[i] = IF i = id THEN task ELSE tasks[i]
      /\ tasks' \in [Ids -> TaskRecord]
  BY DEF StartTask, TypeInv, TaskRecord, Statuses
<1>2. runs' = runs + 1 /\ runs <= runs' /\ runs' \in Nat
  BY DEF StartTask, TypeInv
<1>3. files \in Seq(Seq(Line)) /\ path \in [Ids -> Nat] /\ Len(files) \in Nat
      /\ \A i \in Ids : path[i] <= Len(files)
  BY DEF TypeInv, FilesInv
<1>4. /\ files' \in Seq(Seq(Line)) /\ path' \in [Ids -> Nat]
      /\ \A i \in Ids : path'[i] <= Len(files')
      /\ \A i, j \in Ids : path'[i] = path'[j] /\ path'[i] # 0 => i = j
      /\ Content(id)' = <<>>
      /\ \A i \in Ids \ {id} : Content(i)' = Content(i)
  <2>1. CASE path[id] = 0
    <3>1. /\ files' = Append(files, <<>>)
          /\ path' = [path EXCEPT ![id] = Len(files) + 1]
      BY <2>1 DEF StartTask, OpenedForRun
    <3>2. /\ files' \in Seq(Seq(Line)) /\ Len(files') = Len(files) + 1
          /\ files'[Len(files) + 1] = <<>>
          /\ \A n \in 1..Len(files) : files'[n] = files[n]
      BY <1>3, <3>1
    <3>3. /\ path' \in [Ids -> Nat]
          /\ \A i \in Ids : path'[i] = IF i = id THEN Len(files) + 1 ELSE path[i]
      BY <1>3, <3>1
    <3>4. ASSUME NEW i \in Ids, NEW j \in Ids, path'[i] = path'[j], path'[i] # 0
          PROVE  i = j
      <4>1. path[i] # Len(files) + 1 /\ path[j] # Len(files) + 1
        BY <1>3
      <4>2. CASE i = id \/ j = id
        BY <3>3, <3>4, <4>1, <4>2
      <4>3. CASE i # id /\ j # id
        BY <3>3, <3>4, <4>3 DEF FilesInv
      <4>4. QED
        BY <4>2, <4>3
    <3>5. \A i \in Ids : path'[i] <= Len(files')
      BY <1>3, <3>2, <3>3
    <3>6. Content(id)' = <<>>
      BY <1>3, <3>2, <3>3 DEF Content
    <3>7. ASSUME NEW i \in Ids \ {id} PROVE Content(i)' = Content(i)
      <4>1. path'[i] = path[i] /\ (path[i] # 0 => path[i] \in 1..Len(files))
        BY <1>3, <3>3
      <4>2. QED
        BY <3>2, <4>1 DEF Content
    <3>8. QED
      BY <3>2, <3>3, <3>4, <3>5, <3>6, <3>7
  <2>2. CASE path[id] # 0
    <3>1. files' = [files EXCEPT ![path[id]] = <<>>] /\ path' = path
      BY <2>2 DEF StartTask, OpenedForRun
    <3>2. path[id] \in 1..Len(files)
      BY <1>3, <2>2
    <3>3. /\ files' \in Seq(Seq(Line)) /\ Len(files') = Len(files)
          /\ files'[path[id]] = <<>>
          /\ \A n \in 1..Len(files) : n # path[id] => files'[n] = files[n]
      BY <1>3, <3>1, <3>2
    <3>4. \A i, j \in Ids : path[i] = path[j] /\ path[i] # 0 => i = j
      BY DEF FilesInv
    <3>5. QED
      BY <1>3, <2>2, <3>1, <3>2, <3>3, <3>4 DEF Content
  <2>3. QED
    BY <2>1, <2>2
<1>5. TypeInv'
  <2>1. leftovers' \subseteq Ids
    BY DEF StartTask, TypeInv
  <2>2. QED
    BY <1>1, <1>2, <1>4, <2>1 DEF TypeInv
<1>6. UNCHANGED reader
  BY DEF StartTask
<1>7. /\ \A i \in Ids : tasks'[i].run <= runs'
      /\ \A i \in Ids : NotBefore(Content(i)', tasks'[i].run)
      /\ ReaderInv'
  BY <1>1, <1>2, <1>4, <1>5, <1>6, WorldStep
<1>8. \A i \in Ids : IsRunning(tasks'[i]) => tasks'[i].run # 0
  BY <1>1, <1>2 DEF FilesInv, TypeInv
<1>9. \A i \in Ids : tasks'[i].run = 0 /\ path'[i] # 0 => i \in leftovers' \cup holder'
  <2>1. tasks'[id].run # 0 /\ leftovers' = leftovers \ {id} /\ holder' = holder
    BY <1>1, <1>2 DEF StartTask, TypeInv
  <2>2. \A i \in Ids \ {id} : tasks'[i] = tasks[i] /\ path'[i] = path[i]
    BY <1>1, <1>3 DEF StartTask, OpenedForRun
  <2>3. QED
    BY <2>1, <2>2 DEF FilesInv
<1>10. FilesInv'
  BY <1>4, <1>7, <1>8, <1>9 DEF FilesInv, IsRunning
<1>11. QED
  BY <1>5, <1>7, <1>10

LEMMA WriteLineLogs == ASSUME LogsInv, NEW id \in Ids, WriteLine(id) PROVE LogsInv'
<1> USE DEF LogsInv
<1>1. /\ tasks[id].run \in Nat /\ tasks[id].run # 0
      /\ path[id] \in 1..Len(files) /\ Content(id) = files[path[id]]
      /\ Content(id) \in Seq(Line)
  BY ContentTyped DEF WriteLine, FilesInv, IsRunning
<1>2. UNCHANGED <<tasks, path, leftovers, runs, reader>> /\ runs <= runs'
  BY DEF WriteLine, TypeInv
<1> DEFINE text == Append(Content(id), <<tasks[id].run, Len(Content(id)) + 1>>)
<1>3. text \in Seq(Line)
  BY <1>1 DEF Line
<1>4. files' = [files EXCEPT ![path[id]] = text]
  BY <1>1 DEF WriteLine
<1>5. files \in Seq(Seq(Line))
  BY DEF TypeInv
<1> HIDE DEF text
<1>6. /\ files' \in Seq(Seq(Line)) /\ Len(files') = Len(files)
      /\ files'[path[id]] = text
      /\ \A n \in 1..Len(files) : n # path[id] => files'[n] = files[n]
  BY <1>1, <1>3, <1>4, <1>5
<1>7. Content(id)' = text
  BY <1>1, <1>2, <1>6 DEF Content
<1>8. ASSUME NEW i \in Ids, i # id PROVE Content(i)' = Content(i)
  <2>1. path[i] # path[id] /\ (path[i] # 0 => path[i] \in 1..Len(files))
    BY <1>1, <1>8, ContentTyped DEF FilesInv
  <2>2. QED
    BY <1>2, <1>6, <2>1 DEF Content
<1>9. TypeInv'
  BY <1>2, <1>6 DEF TypeInv
<1>10. Len(Content(id)) + 1 \in Nat
  BY <1>1
<1>11. \A i \in Ids : \/ Content(i)' = Content(i)
                      \/ /\ tasks'[i].run = tasks[i].run /\ tasks[i].run # 0
                         /\ \E n \in Nat :
                               Content(i)' = Append(Content(i), <<tasks[i].run, n>>)
  BY <1>1, <1>2, <1>7, <1>8, <1>10 DEF text
<1>12. /\ \A i \in Ids : tasks'[i].run <= runs'
       /\ \A i \in Ids : NotBefore(Content(i)', tasks'[i].run)
       /\ ReaderInv'
  BY <1>2, <1>9, <1>11, WorldStep
<1>13. FilesInv'
  <2>1. UNCHANGED <<leftovers, holder>>
    BY DEF WriteLine
  <2>2. QED
    BY <1>2, <1>6, <1>12, <2>1 DEF FilesInv, IsRunning
<1>14. QED
  BY <1>9, <1>12, <1>13

LEMMA CleanLogHandlesLogs == ASSUME LogsInv, CleanLogHandles PROVE LogsInv'
<1> USE DEF LogsInv
<1>1. /\ path' = [i \in Ids |-> IF i \in holder THEN 0 ELSE path[i]]
      /\ leftovers' = leftovers \ holder
  BY DEF CleanLogHandles
<1>2. UNCHANGED <<tasks, files, runs, reader>> /\ runs <= runs'
  BY DEF CleanLogHandles, TypeInv
<1>3. \A i \in Ids : path'[i] = 0 \/ (path'[i] = path[i] /\ i \notin holder)
  BY <1>1 DEF TypeInv
<1>4. \A i \in Ids : Content(i)' = Content(i) \/ Content(i)' = <<>>
  BY <1>2, <1>3 DEF Content
<1>5. TypeInv'
  BY <1>1, <1>2 DEF TypeInv
<1>6. /\ \A i \in Ids : tasks'[i].run <= runs'
      /\ \A i \in Ids : NotBefore(Content(i)', tasks'[i].run)
      /\ ReaderInv'
  BY <1>2, <1>4, <1>5, WorldStep
<1>7. FilesInv'
  <2>1. \A i \in Ids : path'[i] <= Len(files')
    <3>1. ASSUME NEW i \in Ids PROVE path'[i] <= Len(files')
      <4>1. path[i] <= Len(files) /\ Len(files) \in Nat
        BY DEF FilesInv, TypeInv
      <4>2. path'[i] = 0 \/ path'[i] = path[i]
        BY <1>3, <3>1
      <4>3. Len(files') = Len(files)
        BY <1>2
      <4>4. QED
        BY <4>1, <4>2, <4>3
    <3>2. QED
      BY <3>1
  <2>2. \A i, j \in Ids : path'[i] = path'[j] /\ path'[i] # 0 => i = j
    BY <1>3 DEF FilesInv
  <2>3. \A i \in Ids : tasks'[i].run = 0 /\ path'[i] # 0 => i \in leftovers' \cup holder'
    BY <1>1, <1>2, <1>3 DEF FilesInv
  <2>4. QED
    BY <1>2, <1>6, <2>1, <2>2, <2>3 DEF FilesInv, IsRunning
<1>8. QED
  BY <1>5, <1>6, <1>7

-----------------------------------------------------------------------------
(* Readers *)

LEMMA WorldUnchanged ==
  ASSUME LogsInv, UNCHANGED world
  PROVE  /\ TypeInv' /\ FilesInv'
         /\ \A i \in Ids : Content(i)' = Content(i)
  BY DEF LogsInv, world, TypeInv, FilesInv, Content

LEMMA LeastUnchanged ==
  ASSUME UNCHANGED world, KeepsUp(Least), Least' = Least
  PROVE  KeepsUp(Least)'
  BY DEF world, KeepsUp, Content

LEMMA FollowerLogs == ASSUME LogsInv, UNCHANGED <<world, reader>> PROVE LogsInv'
<1>1. TypeInv' /\ FilesInv' /\ Least' = Least
  BY WorldUnchanged DEF Least
<1>2. ReaderInv'
  BY <1>1, LeastUnchanged DEF LogsInv, ReaderInv
<1>3. QED
  BY <1>1, <1>2 DEF LogsInv

\* A task that has no run and no file left behind has no file, and so no line.
LEMMA RequestLogLogs == ASSUME LogsInv, RequestLog PROVE LogsInv'
<1>1. TypeInv' /\ FilesInv' /\ \A i \in Ids : Content(i)' = Content(i)
  BY WorldUnchanged DEF RequestLog
<1>2. UNCHANGED world /\ holder = {}
  BY DEF RequestLog, Unlocked
<1>3. PICK mode \in Modes :
          reader' = [place |-> "reading", mode |-> mode,
                     copy |-> [id \in Ids |-> tasks[id].run],
                     runs |-> runs, leftovers |-> leftovers, output |-> <<>>,
                     left |-> {id \in Ids : IF mode = "remote" THEN tasks[id] # NoTask
                                                              ELSE HasRun(tasks[id])}]
  BY DEF RequestLog
<1>4. \A i \in Ids : tasks[i].run \in Nat /\ runs \in Nat
  BY DEF LogsInv, TypeInv, TaskRecord
<1>5. /\ reader' \in Reader /\ reader'.output = <<>>
      /\ reader'.runs = runs /\ reader'.leftovers = leftovers
      /\ \A i \in Ids : reader'.copy[i] = tasks[i].run
  BY <1>3, <1>4 DEF Reader, LogsInv, TypeInv
<1>6. \A i \in Ids : Least'[i] = IF tasks[i].run = 0 /\ i \notin leftovers
                                 THEN runs + 1 ELSE tasks[i].run
  BY <1>5 DEF Least
<1>7. ASSUME NEW i \in Ids PROVE NotBefore(Content(i), Least'[i])
  <2>1. CASE tasks[i].run = 0 /\ i \notin leftovers
    <3>1. Content(i) = <<>>
      BY <1>2, <2>1 DEF LogsInv, FilesInv, Content
    <3>2. QED
      BY <3>1 DEF NotBefore
  <2>2. CASE ~(tasks[i].run = 0 /\ i \notin leftovers)
    BY <1>6, <2>2 DEF LogsInv, FilesInv
  <2>3. QED
    BY <2>1, <2>2
<1>8. /\ Least' \in [Ids -> Nat]
      /\ \A i \in Ids : Least'[i] <= runs' + 1
      /\ \A i \in Ids : tasks'[i].run = 0 \/ Least'[i] <= tasks'[i].run
  <2>1. \A i \in Ids : Least'[i] \in Nat /\ Least'[i] <= runs + 1
    BY <1>4, <1>6 DEF LogsInv, FilesInv
  <2>2. Least' = [i \in Ids |-> Least'[i]]
    BY DEF Least
  <2>3. QED
    BY <1>2, <1>4, <1>6, <2>1, <2>2 DEF world
<1>9. KeepsUp(Least)'
  BY <1>1, <1>7, <1>8 DEF KeepsUp
<1>10. QED
  BY <1>1, <1>5, <1>9 DEF LogsInv, ReaderInv, OutputNotBefore

LEMMA ReadNextLogs == ASSUME LogsInv, ReadNext PROVE LogsInv'
<1>1. TypeInv' /\ FilesInv' /\ UNCHANGED world
  BY WorldUnchanged DEF ReadNext
<1>2. /\ reader \in Reader /\ KeepsUp(Least)
      /\ OutputNotBefore(Least, reader.output)
  BY DEF LogsInv, ReaderInv, ReadNext
<1>3. PICK id \in reader.left :
          reader' = IF path[id] # 0
                    THEN [reader EXCEPT !.left = @ \ {id},
                              !.output = Append(@, [id |-> id, text |-> Content(id)])]
                    ELSE IF reader.mode = "remote"
                         THEN [reader EXCEPT !.place = "failed"]
                         ELSE [reader EXCEPT !.left = @ \ {id}]
  BY DEF ReadNext
<1>4. id \in Ids /\ Content(id) \in Seq(Line)
  BY <1>2, ContentTyped DEF Reader, LogsInv
<1> DEFINE new == [id |-> id, text |-> Content(id)]
<1>5. new \in Output /\ NotBefore(new.text, Least[new.id])
  BY <1>2, <1>4 DEF Output, KeepsUp
<1>6. reader.output \in Seq(Output) /\ reader.left \subseteq Ids
  BY <1>2 DEF Reader
<1> DEFINE longer == Append(reader.output, new)
<1>7. longer \in Seq(Output) /\ OutputNotBefore(Least, longer)
  <2> HIDE DEF new
  <2>1. QED
    BY <1>2, <1>5, <1>6 DEF OutputNotBefore
<1>8. /\ reader' \in Reader /\ UNCHANGED <<reader.copy, reader.runs, reader.leftovers>>
      /\ reader'.output = reader.output \/ reader'.output = longer
  <2>1. CASE path[id] # 0
    <3>1. reader' = [reader EXCEPT !.left = @ \ {id}, !.output = longer]
      BY <1>3, <2>1
    <3> HIDE DEF longer
    <3>2. QED
      BY <1>2, <1>6, <1>7, <3>1 DEF Reader
  <2>2. CASE path[id] = 0
    BY <1>2, <1>3, <1>6, <2>2 DEF Reader
  <2>3. QED
    BY <2>1, <2>2
<1>9. Least' = Least /\ KeepsUp(Least)'
  <2>1. Least' = Least
    BY <1>8 DEF Least
  <2>2. QED
    BY <1>1, <1>2, <2>1, LeastUnchanged
<1>10. OutputNotBefore(Least', reader'.output)
  <2> HIDE DEF longer
  <2>1. QED
    BY <1>2, <1>7, <1>8, <1>9
<1>11. QED
  BY <1>1, <1>8, <1>9, <1>10 DEF LogsInv, ReaderInv

LEMMA PrintLogLogs == ASSUME LogsInv, PrintLog PROVE LogsInv'
<1>1. TypeInv' /\ FilesInv' /\ UNCHANGED world
  BY WorldUnchanged DEF PrintLog
<1>2. /\ reader \in Reader /\ KeepsUp(Least)
      /\ OutputNotBefore(Least, reader.output)
  BY DEF LogsInv, ReaderInv, PrintLog
<1>3. /\ reader' \in Reader /\ reader'.output = reader.output
      /\ UNCHANGED <<reader.copy, reader.runs, reader.leftovers>>
  BY <1>2 DEF PrintLog, Reader
<1>4. Least' = Least /\ KeepsUp(Least)'
  <2>1. Least' = Least
    BY <1>3 DEF Least
  <2>2. QED
    BY <1>1, <1>2, <2>1, LeastUnchanged
<1>5. QED
  BY <1>1, <1>2, <1>3, <1>4 DEF LogsInv, ReaderInv

-----------------------------------------------------------------------------
LEMMA LogsNext == LogsInv /\ [Next]_vars => LogsInv'
<1> SUFFICES ASSUME LogsInv, [Next]_vars PROVE LogsInv'
  OBVIOUS
<1>1. ASSUME NEW id \in Ids,
             AddTask(id) \/ StartTask(id) \/ WriteLine(id) \/ ChangeStatus(id)
                 \/ FinishTask(id) \/ RemoveTask(id)
      PROVE  LogsInv'
  BY <1>1, AddTaskLogs, StartTaskLogs, WriteLineLogs, ChangeStatusLogs, FinishTaskLogs,
     RemoveTaskLogs
<1>2. CASE CleanLogHandles \/ FinishReset
  BY <1>2, CleanLogHandlesLogs, FinishResetLogs
<1>3. CASE Follow \/ FollowerStep \/ ReceiveMessage
  <2>1. UNCHANGED <<world, reader>>
    BY <1>3 DEF Follow, FollowerStep, ReceiveMessage, ChooseTask, AwaitStart, OpenLog,
                LookForFile, ReadLog, CheckTask
  <2>2. QED
    BY <2>1, FollowerLogs
<1>4. CASE RequestLog \/ ReaderStep
  BY <1>4, RequestLogLogs, ReadNextLogs, PrintLogLogs DEF ReaderStep
<1>5. CASE UNCHANGED vars
  BY <1>5, FollowerLogs DEF vars
<1>6. QED
  BY <1>1, <1>2, <1>3, <1>4, <1>5 DEF Next

\* spawn_process truncates the log before the child writes, remove and clean drop the log
\* before they give back the lock, and get_log reads files after it has copied the state:
\* a task is never printed with the output of a run before its own, nor one that has not
\* started with that of an earlier task with its id, however starts, writes, removals,
\* resets and new tasks fall between the copy and the reads.  The exception is a task that
\* has not started since a reset left a file under its id.
THEOREM LogsNeverOlder == Spec => []LogNotOlder
<1>1. LogsInv => LogNotOlder
  <2> SUFFICES ASSUME LogsInv, reader.place = "printed",
                      NEW i \in DOMAIN reader.output,
                      reader.output[i].id \notin reader.leftovers,
                      NEW k \in DOMAIN reader.output[i].text
               PROVE  Recent(reader.copy[reader.output[i].id], reader.output[i].text[k])
    BY DEF LogNotOlder
  <2> DEFINE id == reader.output[i].id
             line == reader.output[i].text[k]
  <2>1. reader \in Reader /\ OutputNotBefore(Least, reader.output)
    BY DEF LogsInv, ReaderInv
  <2>2. /\ id \in Ids /\ reader.output[i].text \in Seq(Line)
        /\ reader.copy[id] \in Nat /\ reader.runs \in Nat
    <3>1. /\ reader.output \in Seq(Output)
          /\ reader.copy \in [Ids -> Nat] /\ reader.runs \in Nat
      BY <2>1 DEF Reader
    <3>2. reader.output[i] \in Output
      BY <3>1
    <3>3. QED
      BY <3>1, <3>2 DEF Output
  <2>3. line[1] \in Nat
    BY <2>2 DEF Line
  <2>4. Least[id] <= line[1]
    BY <2>1 DEF OutputNotBefore, NotBefore
  <2>5. Least[id] = IF reader.copy[id] = 0 THEN reader.runs + 1 ELSE reader.copy[id]
    BY <2>2 DEF Least
  <2> HIDE DEF id, line
  <2>6. IF reader.copy[id] = 0 THEN reader.runs < line[1] ELSE reader.copy[id] <= line[1]
    BY <2>2, <2>3, <2>4, <2>5
  <2>7. QED
    BY <2>6 DEF Recent, id, line
<1>2. QED
  BY <1>1, LogsInit, LogsNext, PTL DEF Spec

-----------------------------------------------------------------------------
(* Sequences of texts *)

\* A set of numbers that is not empty has a least element: of the sets 0..n, one is
\* smallest.
LEMMA LeastNat == \A A \in SUBSET Nat : A # {} => \E n \in A : \A m \in A : n <= m
<1> SUFFICES ASSUME NEW A \in SUBSET Nat, A # {}
             PROVE  \E n \in A : \A m \in A : n <= m
  OBVIOUS
<1> DEFINE R == StrictSubsetOrdering(Nat)
           F == {0..n : n \in A}
<1>1. ASSUME NEW n \in Nat PROVE 0..n \in FiniteSubsetsOf(Nat)
  <2>1. 0 \in Int /\ n \in Int
    OBVIOUS
  <2>2. IsFiniteSet(0..n)
    BY <2>1, FS_Interval
  <2>3. QED
    BY <2>2 DEF FiniteSubsetsOf
<1>2. F \subseteq FiniteSubsetsOf(Nat) /\ F # {}
  BY <1>1
<1>3. IsWellFoundedOn(R, FiniteSubsetsOf(Nat))
  BY FS_StrictSubsetOrderingWellFounded
<1> HIDE DEF F, R
<1>4. PICK x \in F : \A y \in F : ~(<<y, x>> \in R)
  BY <1>2, <1>3, WFMin
<1>5. PICK n \in A : x = 0..n
  BY DEF F
<1>6. ASSUME NEW m \in A, m < n PROVE FALSE
  <2>1. n \in Nat /\ m \in Nat
    OBVIOUS
  <2>2. 0..m \subseteq 0..n /\ 0..m # 0..n
    <3>1. n \in 0..n /\ n \notin 0..m
      BY <1>6, <2>1
    <3>2. QED
      BY <1>6, <2>1, <3>1
  <2>3. <<0..m, 0..n>> \in R
    BY <2>1, <2>2 DEF R, StrictSubsetOrdering
  <2>4. 0..m \in F
    BY DEF F
  <2>5. QED
    BY <1>4, <1>5, <2>3, <2>4
<1>7. QED
  BY <1>6

\* What FlattenSeq computes: the first parts of s one after the other.
Flat(f, s) == f = [i \in 1..Len(s) |-> IF i = 1 THEN s[i] ELSE f[i - 1] \o s[i]]

LEMMA FlattenIs ==
  ASSUME NEW s, Len(s) # 0
  PROVE  SeqExt!FlattenSeq(s) = (CHOOSE f : Flat(f, s))[Len(s)]
  BY DEF SeqExt!FlattenSeq, Flat

LEMMA FlatFields ==
  ASSUME NEW s, NEW f, Flat(f, s)
  PROVE  /\ DOMAIN f = 1..Len(s)
         /\ \A i \in 1..Len(s) : f[i] = IF i = 1 THEN s[i] ELSE f[i - 1] \o s[i]
<1> DEFINE g == [i \in 1..Len(s) |-> IF i = 1 THEN s[i] ELSE f[i - 1] \o s[i]]
<1>1. f = g
  BY DEF Flat
<1>2. /\ DOMAIN g = 1..Len(s)
      /\ \A i \in 1..Len(s) : g[i] = IF i = 1 THEN s[i] ELSE f[i - 1] \o s[i]
  OBVIOUS
<1>3. QED
  BY <1>1, <1>2, Zenon

\* The texts of the first parts of s, one after the other, exist for every s.
LEMMA FlatExists ==
  ASSUME NEW S
  PROVE  \A s \in Seq(S) : \E f : Flat(f, s)
<1> DEFINE A == {n \in Nat : \E s \in Seq(S) : Len(s) = n /\ ~\E f : Flat(f, s)}
<1>1. SUFFICES ASSUME A # {} PROVE FALSE
  <2>1. \A s \in Seq(S) : Len(s) \in Nat
    OBVIOUS
  <2>2. QED
    BY <1>1, <2>1
<1>2. A \in SUBSET Nat
  OBVIOUS
<1>3. PICK n \in A : \A m \in A : n <= m
  BY <1>1, <1>2, LeastNat
<1>4. n \in Nat
  BY <1>2
<1>5. PICK s \in Seq(S) : Len(s) = n /\ ~\E f : Flat(f, s)
  OBVIOUS
<1>6. ASSUME n = 0 PROVE \E f : Flat(f, s)
  <2> DEFINE f == [i \in 1..Len(s) |-> s[i]]
  <2>1. \A g : f = [i \in 1..Len(s) |-> IF i = 1 THEN s[i] ELSE g[i - 1] \o s[i]]
    BY <1>5, <1>6
  <2>2. Flat(f, s)
    BY <2>1 DEF Flat
  <2>3. QED
    BY <2>2
<1>7. ASSUME n # 0 PROVE \E f : Flat(f, s)
  <2> DEFINE s0 == SubSeq(s, 1, n - 1)
  <2>1. s0 \in Seq(S) /\ Len(s0) = n - 1 /\ \A i \in 1..(n - 1) : s0[i] = s[i]
    BY <1>4, <1>5, <1>7
  <2>2. n - 1 \in Nat /\ ~(n <= n - 1)
    BY <1>4, <1>7
  <2> HIDE DEF s0
  <2>3. n - 1 \notin A
    BY <1>3, <2>2
  <2>4. PICK g : Flat(g, s0)
    BY <2>1, <2>2, <2>3
  <2>5. \A i \in 1..(n - 1) : g[i] = IF i = 1 THEN s0[i] ELSE g[i - 1] \o s0[i]
    BY <2>1, <2>4, FlatFields
  <2> DEFINE f == [i \in 1..n |-> IF i = 1 THEN s[i] ELSE g[i - 1] \o s[i]]
  <2>6. \A i \in 1..(n - 1) : f[i] = g[i]
    <3>1. ASSUME NEW i \in 1..(n - 1) PROVE f[i] = g[i]
      <4>1. i \in 1..n /\ s0[i] = s[i]
        BY <1>4, <2>1
      <4>2. f[i] = IF i = 1 THEN s[i] ELSE g[i - 1] \o s[i]
        BY <4>1
      <4>3. QED
        BY <4>1, <4>2, <2>5
    <3>2. QED
      BY <3>1
  <2>7. \A i \in 1..n : i # 1 => i - 1 \in 1..(n - 1)
    BY <1>4
  <2>8. f = [i \in 1..n |-> IF i = 1 THEN s[i] ELSE f[i - 1] \o s[i]]
    <3> DEFINE h == [i \in 1..n |-> IF i = 1 THEN s[i] ELSE f[i - 1] \o s[i]]
    <3>1. ASSUME NEW i \in 1..n PROVE f[i] = h[i]
      <4>1. CASE i = 1
        BY <4>1
      <4>2. CASE i # 1
        <5>1. f[i - 1] = g[i - 1]
          BY <4>2, <2>6, <2>7
        <5>2. f[i] = g[i - 1] \o s[i] /\ h[i] = f[i - 1] \o s[i]
          BY <4>2
        <5>3. QED
          BY <5>1, <5>2
      <4>3. QED
        BY <4>1, <4>2
    <3>2. f = [i \in 1..n |-> f[i]] /\ h = [i \in 1..n |-> h[i]]
      OBVIOUS
    <3> HIDE DEF f, h
    <3>3. f = h
      BY <3>1, <3>2
    <3>4. QED
      BY <3>3 DEF h
  <2>9. Flat(f, s)
    BY <1>5, <2>8 DEF Flat
  <2>10. QED
    BY <2>9
<1>8. QED
  BY <1>5, <1>6, <1>7
LEMMA FlatChoice ==
  ASSUME NEW S, NEW s \in Seq(S), s # <<>>
  PROVE  \E f : Flat(f, s) /\ SeqExt!FlattenSeq(s) = f[Len(s)]
<1>1. Len(s) # 0
  OBVIOUS
<1>2. Flat(CHOOSE f : Flat(f, s), s)
  BY FlatExists
<1>3. QED
  BY <1>1, <1>2, FlattenIs

LEMMA FlatType ==
  ASSUME NEW S, NEW s \in Seq(Seq(S)), NEW f, Flat(f, s)
  PROVE  \A i \in 1..Len(s) : f[i] \in Seq(S)
<1> DEFINE A == {i \in 1..Len(s) : f[i] \notin Seq(S)}
<1>1. SUFFICES ASSUME A # {} PROVE FALSE
  BY <1>1
<1>2. A \in SUBSET Nat
  OBVIOUS
<1>3. PICK i \in A : \A j \in A : i <= j
  BY <1>1, <1>2, LeastNat
<1>4. f[i] = IF i = 1 THEN s[i] ELSE f[i - 1] \o s[i]
  BY FlatFields
<1>5. i \in 1..Len(s) /\ s[i] \in Seq(S)
  OBVIOUS
<1>6. i # 1 => i - 1 \in 1..Len(s) /\ ~(i <= i - 1)
  BY <1>5
<1>7. i # 1 => f[i - 1] \in Seq(S)
  BY <1>3, <1>6
<1>8. i # 1 => f[i - 1] \o s[i] \in Seq(S)
  BY <1>5, <1>7
<1>9. f[i] \in Seq(S)
  BY <1>4, <1>5, <1>8
<1>10. QED
  BY <1>9

\* The text up to a place depends on the parts up to there only.
LEMMA FlatAgree ==
  ASSUME NEW s, NEW t, NEW f, NEW g, Flat(f, s), Flat(g, t), NEW n \in Nat,
         n <= Len(s), n <= Len(t), Len(s) \in Nat, Len(t) \in Nat,
         \A i \in 1..n : s[i] = t[i]
  PROVE  \A i \in 1..n : f[i] = g[i]
<1> DEFINE A == {i \in 1..n : f[i] # g[i]}
<1>1. SUFFICES ASSUME A # {} PROVE FALSE
  BY <1>1
<1>2. A \in SUBSET Nat
  OBVIOUS
<1>3. PICK i \in A : \A j \in A : i <= j
  BY <1>1, <1>2, LeastNat
<1>4. i \in 1..n /\ i \in 1..Len(s) /\ i \in 1..Len(t)
  OBVIOUS
<1>5. /\ f[i] = IF i = 1 THEN s[i] ELSE f[i - 1] \o s[i]
      /\ g[i] = IF i = 1 THEN t[i] ELSE g[i - 1] \o t[i]
  BY <1>4, FlatFields
<1>6. i # 1 => i - 1 \in 1..n /\ ~(i <= i - 1)
  BY <1>4
<1>7. i # 1 => f[i - 1] = g[i - 1]
  BY <1>3, <1>6
<1>8. QED
  BY <1>3, <1>4, <1>5, <1>7

LEMMA FlattenType ==
  ASSUME NEW S, NEW s \in Seq(Seq(S))
  PROVE  SeqExt!FlattenSeq(s) \in Seq(S)
<1>1. CASE s = <<>>
  BY <1>1 DEF SeqExt!FlattenSeq
<1>2. CASE s # <<>>
  <2>1. PICK f : Flat(f, s) /\ SeqExt!FlattenSeq(s) = f[Len(s)]
    BY <1>2, FlatChoice
  <2>2. Len(s) \in 1..Len(s)
    BY <1>2
  <2>3. QED
    BY <2>1, <2>2, FlatType
<1>3. QED
  BY <1>1, <1>2

LEMMA FlattenAppend ==
  ASSUME NEW S, NEW s \in Seq(Seq(S)), NEW e \in Seq(S)
  PROVE  SeqExt!FlattenSeq(Append(s, e)) = SeqExt!FlattenSeq(s) \o e
<1> DEFINE t == Append(s, e)
           n == Len(s)
<1>1. /\ n \in Nat /\ t \in Seq(Seq(S)) /\ t # <<>> /\ Len(t) = n + 1
      /\ t[n + 1] = e /\ \A i \in 1..n : t[i] = s[i]
  BY AppendProperties
<1> HIDE DEF t
<1>2. PICK g : Flat(g, t) /\ SeqExt!FlattenSeq(t) = g[n + 1]
  BY <1>1, FlatChoice
<1>3. g[n + 1] = IF n + 1 = 1 THEN t[n + 1] ELSE g[n + 1 - 1] \o t[n + 1]
  BY SMTT(30), <1>1, <1>2, FlatFields
<1>4. CASE s = <<>>
  <2>1. SeqExt!FlattenSeq(s) = <<>>
    BY <1>4 DEF SeqExt!FlattenSeq
  <2>2. g[n + 1] = e
    BY <1>1, <1>3, <1>4
  <2>3. e = <<>> \o e
    OBVIOUS
  <2>4. QED
    BY <1>2, <2>1, <2>2, <2>3 DEF t
<1>5. CASE s # <<>>
  <2>1. PICK f : Flat(f, s) /\ SeqExt!FlattenSeq(s) = f[n]
    BY <1>5, FlatChoice
  <2>2. n # 0 /\ n \in 1..n /\ n + 1 - 1 = n
    BY <1>1, <1>5
  <2>3. \A i \in 1..n : f[i] = g[i]
    <3>1. n <= Len(s) /\ n <= Len(t) /\ Len(s) \in Nat /\ Len(t) \in Nat
      BY <1>1
    <3>2. \A i \in 1..n : s[i] = t[i]
      BY <1>1
    <3>3. Flat(f, s) /\ Flat(g, t) /\ n \in Nat
      BY <1>1, <1>2, <2>1
    <3> HIDE DEF n
    <3>4. QED
      BY <3>1, <3>2, <3>3, FlatAgree
  <2>4. g[n + 1] = g[n] \o e
    BY <1>1, <1>3, <2>2
  <2>5. QED
    BY <1>2, <2>1, <2>2, <2>3, <2>4 DEF t
<1>6. QED
  BY <1>4, <1>5

LEMMA FlattenTail ==
  ASSUME NEW S, NEW s \in Seq(Seq(S)), s # <<>>
  PROVE  SeqExt!FlattenSeq(s) = Head(s) \o SeqExt!FlattenSeq(Tail(s))
<1> DEFINE t == Tail(s)
<1>1. PICK n \in Nat : Len(t) = n
  OBVIOUS
<1>2. /\ t \in Seq(Seq(S)) /\ Len(s) = n + 1 /\ Head(s) = s[1] /\ s[1] \in Seq(S)
      /\ \A i \in 1..n : t[i] = s[i + 1] /\ t[i] \in Seq(S)
  BY <1>1
<1> HIDE DEF t
<1>3. PICK f : Flat(f, s) /\ SeqExt!FlattenSeq(s) = f[n + 1]
  BY <1>1, <1>2, FlatChoice
<1>4. \A i \in 1..(n + 1) : f[i] = IF i = 1 THEN s[i] ELSE f[i - 1] \o s[i]
  BY SMTT(30), <1>1, <1>2, <1>3, FlatFields
<1>5. CASE t = <<>>
  <2>1. SeqExt!FlattenSeq(t) = <<>>
    BY <1>5 DEF SeqExt!FlattenSeq
  <2>2. f[n + 1] = s[1] /\ s[1] = s[1] \o <<>>
    BY <1>1, <1>2, <1>4, <1>5
  <2>4. QED
    BY <1>1, <1>2, <1>3, <2>1, <2>2 DEF t
<1>6. CASE t # <<>>
  <2>1. PICK g : Flat(g, t) /\ SeqExt!FlattenSeq(t) = g[n]
    BY <1>1, <1>2, <1>6, FlatChoice
  <2>2. /\ \A i \in 1..n : g[i] = IF i = 1 THEN t[i] ELSE g[i - 1] \o t[i]
        /\ \A i \in 1..n : g[i] \in Seq(S)
    BY <1>1, <1>2, <2>1, FlatFields, FlatType
  <2>3. ASSUME NEW i \in 1..n, NEW m \in 1..(n + 1), m = i + 1
        PROVE  f[m] = f[i] \o t[i]
    <3>1. m # 1 /\ m - 1 = i /\ s[m] = t[i]
      BY <1>1, <1>2, <2>3
    <3>2. f[m] = f[m - 1] \o s[m]
      BY <1>4, <3>1
    <3>3. QED
      BY <3>1, <3>2
  <2> DEFINE Good(i) == \A m \in 1..(n + 1) : m = i + 1 => f[m] = s[1] \o g[i]
             B == {i \in 1..n : ~Good(i)}
  <2>4. ASSUME NEW k \in 1..n, ~Good(k) PROVE FALSE
    <3> HIDE DEF Good
    <3>1. B \in SUBSET Nat /\ k \in B
      BY <1>1, <2>4
    <3>2. PICK i \in B : \A j \in B : i <= j
      BY <3>1, LeastNat
    <3>3. i \in 1..n /\ ~Good(i)
      OBVIOUS
    <3>4. \A j \in 1..n : ~Good(j) => i <= j
      BY <1>1, <3>2
    <3> HIDE DEF B
    <3>5. PICK m \in 1..(n + 1) : m = i + 1 /\ f[m] # s[1] \o g[i]
      BY <3>3 DEF Good
    <3>6. f[m] = f[i] \o t[i]
      BY <2>3, <3>3, <3>5
    <3>7. CASE i = 1
      <4>1. f[1] = s[1] /\ g[1] = t[1]
        BY <1>1, <1>4, <2>2, <3>3, <3>5, <3>7
      <4>2. QED
        BY <3>5, <3>6, <3>7, <4>1
    <3>8. CASE i # 1
      <4>1. i - 1 \in 1..n /\ ~(i <= i - 1) /\ i \in 1..(n + 1) /\ i = i - 1 + 1
        BY <1>1, <3>3, <3>8
      <4>2. f[i] = s[1] \o g[i - 1]
        <5>1. Good(i - 1)
          BY <3>4, <4>1
        <5>2. QED
          BY <4>1, <5>1 DEF Good
      <4>3. g[i] = g[i - 1] \o t[i]
        BY <2>2, <3>3, <3>8
      <4>4. s[1] \in Seq(S) /\ g[i - 1] \in Seq(S) /\ t[i] \in Seq(S)
        BY <1>2, <2>2, <3>3, <4>1
      <4>5. \A a, b, c \in Seq(S) : (a \o b) \o c = a \o (b \o c)
        BY SMTT(30), ConcatAssociative
      <4>6. (s[1] \o g[i - 1]) \o t[i] = s[1] \o (g[i - 1] \o t[i])
        BY <4>4, <4>5
      <4>7. QED
        BY <3>5, <3>6, <4>2, <4>3, <4>6
    <3>9. QED
      BY <3>7, <3>8
  <2>5. n \in 1..n
    BY <1>1, <1>2, <1>6
  <2>6. f[n + 1] = s[1] \o g[n]
    <3>1. n + 1 \in 1..(n + 1)
      BY <1>1
    <3>2. QED
      BY <2>4, <2>5, <3>1
  <2>7. QED
    BY <1>1, <1>2, <1>3, <2>1, <2>6 DEF t
<1>7. QED
  BY <1>5, <1>6

-----------------------------------------------------------------------------
\* What the loop tells the client that follows.
Message == [kind : {"chunk"}, text : Seq(Line)] \cup [kind : {"close", "failure", "gone"}]

Follower ==
    [place : {"choosing", "waiting", "opening", "looking", "reading", "checking", "ended"},
     mode : Modes, id : Ids \cup {0}, lines : LineLimits, file : Nat, start : Nat,
     offset : Nat, run : Nat, check : BOOLEAN]

Viewer == [place : {"idle", "following", "ended", "unheeding"}, shown : Seq(Line)]

\* The log is open from OpenLog on, and only a daemon has messages on their way.
FollowerInv ==
    IF viewer.place = "idle"
    THEN follower.place = "idle" /\ viewer.shown = <<>> /\ channel = <<>>
    ELSE /\ follower \in Follower
         /\ follower.place \in {"choosing", "waiting", "opening"} => follower.file = 0
         /\ follower.place \in {"looking", "reading", "checking"} => follower.file # 0
         /\ follower.place \notin {"choosing", "ended"} => follower.id \in Ids
         /\ ~Remote => channel = <<>>
         /\ follower.file <= Len(files)
         /\ follower.start <= follower.offset
         /\ follower.run <= runs

Delivered == viewer.shown \o TextOf(channel)

\* What the follow f was told is the part of its file between the start and the cursor.
Exact(f, text, told) ==
    /\ f.offset <= Len(text)
    /\ told = SubSeq(text, f.start + 1, f.offset)

\* The file of the follow f was truncated for a later run, and only later runs write to it.
Truncated(f, text, ts, names) ==
    /\ f.offset # 0
    /\ \A k \in DOMAIN text : f.run < text[k][1]
    /\ \A i \in Ids : names[i] = f.file /\ IsRunning(ts[i]) => f.run < ts[i].run

StreamInv ==
    viewer.place # "idle" =>
        IF follower.file = 0
        THEN Delivered = <<>>
        ELSE \/ Exact(follower, files[follower.file], Delivered)
             \/ Truncated(follower, files[follower.file], tasks, path)

FollowInv == viewer \in Viewer /\ channel \in Seq(Message) /\ FollowerInv /\ StreamInv

-----------------------------------------------------------------------------
(* The text of messages *)

Text(message) == IF message.kind = "chunk" THEN message.text ELSE <<>>
Texts(messages) == [i \in DOMAIN messages |-> Text(messages[i])]

LEMMA TextOfTexts == \A messages : TextOf(messages) = SeqExt!FlattenSeq(Texts(messages))
  BY DEF TextOf, Texts, Text

LEMMA MessageText == \A m \in Message : Text(m) \in Seq(Line)
  BY DEF Message, Text

LEMMA TextsType == \A c \in Seq(Message) : Texts(c) \in Seq(Seq(Line))
<1> SUFFICES ASSUME NEW c \in Seq(Message) PROVE Texts(c) \in Seq(Seq(Line))
  OBVIOUS
<1>1. \A i \in 1..Len(c) : Text(c[i]) \in Seq(Line)
  BY MessageText
<1>2. QED
  BY <1>1 DEF Texts

LEMMA TextOfType == \A c \in Seq(Message) : TextOf(c) \in Seq(Line)
  BY TextsType, FlattenType, TextOfTexts

LEMMA TextOfNone == TextOf(<<>>) = <<>>
<1>1. Texts(<<>>) = <<>>
  BY DEF Texts
<1>2. QED
  BY <1>1, TextOfTexts DEF SeqExt!FlattenSeq

LEMMA TextOfAppend ==
  ASSUME NEW c \in Seq(Message), NEW m \in Message
  PROVE  TextOf(Append(c, m)) = TextOf(c) \o Text(m)
<1> DEFINE d == Append(c, m)
<1>1. /\ d \in Seq(Message) /\ Len(d) = Len(c) + 1 /\ d[Len(c) + 1] = m
      /\ \A i \in 1..Len(c) : d[i] = c[i]
  BY AppendProperties
<1> HIDE DEF d
<1>2. Texts(d) = Append(Texts(c), Text(m))
  <2>1. Texts(d) \in Seq(Seq(Line)) /\ Texts(c) \in Seq(Seq(Line)) /\ Text(m) \in Seq(Line)
    BY <1>1, TextsType, MessageText
  <2>2. Len(Texts(d)) = Len(c) + 1 /\ Len(Texts(c)) = Len(c) /\ Len(c) \in Nat
    BY <1>1 DEF Texts
  <2>3. \A i \in 1..Len(c) : Texts(d)[i] = Texts(c)[i]
    BY <1>1 DEF Texts
  <2>4. Texts(d)[Len(c) + 1] = Text(m)
    BY <1>1 DEF Texts
  <2> DEFINE a == Texts(d)  b == Texts(c)  t == Text(m)  n == Len(c)
  <2> HIDE DEF a, b, t, n
  <2>5. /\ a \in Seq(Seq(Line)) /\ b \in Seq(Seq(Line)) /\ t \in Seq(Line)
        /\ Len(a) = n + 1 /\ Len(b) = n /\ n \in Nat /\ a[n + 1] = t
        /\ \A i \in 1..n : a[i] = b[i]
    BY <2>1, <2>2, <2>3, <2>4 DEF a, b, t, n
  <2>6. a = Append(b, t)
    BY <2>5
  <2>7. QED
    BY <2>6 DEF a, b, t
<1>3. QED
  BY <1>2, TextOfTexts, TextsType, MessageText, FlattenAppend DEF d

LEMMA TextOfTail ==
  ASSUME NEW c \in Seq(Message), c # <<>>
  PROVE  TextOf(c) = Text(Head(c)) \o TextOf(Tail(c))
<1>1. Texts(c) \in Seq(Seq(Line)) /\ Texts(c) # <<>>
  BY TextsType DEF Texts
<1>2. Head(Texts(c)) = Text(Head(c))
  BY DEF Texts
<1>3. Tail(Texts(c)) = Texts(Tail(c))
  BY DEF Texts
<1>4. QED
  BY <1>1, <1>2, <1>3, TextOfTexts, FlattenTail

-----------------------------------------------------------------------------
(* Following a log *)

LEMMA FollowInit == Init => FollowInv
  BY DEF Init, FollowInv, Viewer, FollowerInv, StreamInv

LEMMA DeliveredType ==
  ASSUME FollowInv
  PROVE  /\ Delivered \in Seq(Line)
         /\ viewer.shown \in Seq(Line) /\ TextOf(channel) \in Seq(Line)
<1>1. viewer.shown \in Seq(Line) /\ channel \in Seq(Message)
  BY DEF FollowInv, Viewer
<1>2. TextOf(channel) \in Seq(Line)
  BY <1>1, TextOfType
<1>3. QED
  BY <1>1, <1>2 DEF Delivered

LEMMA LinesAssociative ==
  \A a, b, c \in Seq(Line) : (a \o b) \o c = a \o (b \o c)
  BY ConcatAssociative

LEMMA NextDelivered == Delivered' = viewer'.shown \o TextOf(channel')
  BY DEF Delivered, TextOf

\* What the loop tells arrives behind all that was told before.
LEMMA TellDelivers ==
  ASSUME FollowInv, viewer.place # "idle", NEW message \in Message, Tell(message)
  PROVE  /\ viewer' \in Viewer /\ channel' \in Seq(Message)
         /\ viewer'.place # "idle"
         /\ ~Remote => channel' = <<>>
         /\ Delivered' = Delivered \o Text(message)
<1>1. /\ viewer \in Viewer /\ channel \in Seq(Message)
      /\ viewer.shown \in Seq(Line) /\ TextOf(channel) \in Seq(Line)
      /\ Text(message) \in Seq(Line)
      /\ ~Remote => channel = <<>>
  BY DeliveredType, MessageText DEF FollowInv, FollowerInv
<1>2. CASE Remote
  <2>1. channel' = Append(channel, message) /\ viewer' = viewer
    BY <1>2 DEF Tell
  <2>2. TextOf(channel') = TextOf(channel) \o Text(message)
    BY <1>1, <2>1, TextOfAppend
  <2>3. viewer.shown \o (TextOf(channel) \o Text(message))
            = (viewer.shown \o TextOf(channel)) \o Text(message)
    BY <1>1, LinesAssociative
  <2>4. Delivered' = Delivered \o Text(message)
    BY <2>1, <2>2, <2>3, NextDelivered DEF Delivered
  <2>5. QED
    BY <1>1, <1>2, <2>1, <2>4
<1>3. CASE ~Remote
  <2>1. /\ channel = <<>> /\ channel' = channel
        /\ viewer' = IF message.kind = "chunk"
                     THEN [viewer EXCEPT !.shown = @ \o message.text]
                     ELSE [viewer EXCEPT !.place = "ended"]
    BY <1>1, <1>3 DEF Tell
  <2>2. CASE message.kind = "chunk"
    <3>1. /\ Text(message) = message.text
          /\ viewer' = [viewer EXCEPT !.shown = @ \o Text(message)]
      BY <2>1, <2>2 DEF Text
    <3>2. viewer.shown \o Text(message) \in Seq(Line)
      BY <1>1
    <3>3. /\ viewer' \in Viewer /\ viewer'.place = viewer.place
          /\ viewer'.shown = viewer.shown \o Text(message)
      BY <1>1, <3>1, <3>2 DEF Viewer
    <3>4. Delivered = viewer.shown /\ Delivered' = viewer'.shown
      <4>1. TextOf(channel) = <<>> /\ TextOf(channel') = <<>>
        BY <2>1, TextOfNone
      <4>2. viewer'.shown \in Seq(Line)
        BY <3>2, <3>3
      <4>3. QED
        BY <1>1, <4>1, <4>2, NextDelivered DEF Delivered
    <3>5. QED
      BY <1>1, <2>1, <3>3, <3>4
  <2>3. CASE message.kind # "chunk"
    <3>1. Text(message) = <<>> /\ viewer' = [viewer EXCEPT !.place = "ended"]
      BY <2>1, <2>3 DEF Text
    <3>2. viewer' \in Viewer /\ viewer'.place = "ended" /\ viewer'.shown = viewer.shown
      BY <1>1, <3>1 DEF Viewer
    <3>3. Delivered = viewer.shown /\ Delivered' = viewer'.shown
      <4>1. TextOf(channel) = <<>> /\ TextOf(channel') = <<>>
        BY <2>1, TextOfNone
      <4>2. viewer'.shown \in Seq(Line)
        BY <1>1, <3>2
      <4>3. QED
        BY <1>1, <3>2, <4>1, <4>2, NextDelivered DEF Delivered
    <3>4. viewer.shown \o <<>> = viewer.shown
      BY <1>1
    <3>5. QED
      BY <1>1, <2>1, <3>1, <3>2, <3>3, <3>4
  <2>4. QED
    BY <2>2, <2>3
<1>4. QED
  BY <1>2, <1>3

\* A client that receives a message only moves its text.
LEMMA ReceiveDelivers ==
  ASSUME FollowInv, viewer.place # "idle", ReceiveMessage
  PROVE  /\ viewer' \in Viewer /\ channel' \in Seq(Message)
         /\ viewer'.place # "idle"
         /\ ~Remote => channel' = <<>>
         /\ Delivered' = Delivered
<1>1. /\ viewer \in Viewer /\ channel \in Seq(Message)
      /\ viewer.shown \in Seq(Line)
      /\ channel # <<>> /\ Remote
  BY DeliveredType DEF FollowInv, FollowerInv, ReceiveMessage
<1>2. /\ Head(channel) \in Message /\ Tail(channel) \in Seq(Message)
  BY <1>1
<1> DEFINE m == Head(channel)
<1> HIDE DEF m
<1>3. viewer' = Heed(m) /\ channel' = Tail(channel) /\ m \in Message
  BY <1>2 DEF ReceiveMessage, m
<1>4. /\ Text(m) \in Seq(Line) /\ TextOf(channel') \in Seq(Line)
      /\ TextOf(channel) = Text(m) \o TextOf(channel')
  BY <1>1, <1>2, <1>3, MessageText, TextOfType, TextOfTail DEF m
<1>5. /\ viewer' \in Viewer /\ viewer'.place # "idle"
      /\ viewer'.shown = viewer.shown \o Text(m)
  <2>1. CASE m.kind = "chunk"
    <3>1. viewer' = [viewer EXCEPT !.shown = @ \o m.text] /\ Text(m) = m.text
      BY <1>3, <2>1 DEF Heed, Text
    <3>2. viewer.shown \o Text(m) \in Seq(Line)
      BY <1>1, <1>4
    <3>3. QED
      BY <1>1, <3>1, <3>2 DEF Viewer
  <2>2. CASE m.kind # "chunk"
    <3>1. /\ Text(m) = <<>>
          /\ \E place \in {"ended", "unheeding"} : viewer' = [viewer EXCEPT !.place = place]
      BY <1>3, <2>2 DEF Heed, Text, Message
    <3>2. viewer.shown \o <<>> = viewer.shown
      BY <1>1
    <3>3. PICK place \in {"ended", "unheeding"} : viewer' = [viewer EXCEPT !.place = place]
      BY <3>1
    <3>4. viewer' \in Viewer /\ viewer'.place = place /\ viewer'.shown = viewer.shown
      BY <1>1, <3>3 DEF Viewer
    <3>5. QED
      BY <3>1, <3>2, <3>4
  <2>3. QED
    BY <2>1, <2>2
<1>6. viewer.shown \o (Text(m) \o TextOf(channel'))
          = (viewer.shown \o Text(m)) \o TextOf(channel')
  BY <1>1, <1>4, LinesAssociative
<1>7. Delivered' = Delivered
  BY <1>4, <1>5, <1>6, NextDelivered DEF Delivered
<1>8. QED
  BY <1>1, <1>2, <1>3, <1>5, <1>7

\* Parts of a file.
LEMMA NoPart == ASSUME NEW f \in Seq(Line), NEW a \in Nat PROVE SubSeq(f, a + 1, a) = <<>>
  OBVIOUS

LEMMA PartOfLonger ==
  ASSUME NEW f \in Seq(Line), NEW l \in Line, NEW a \in Nat, NEW b \in Nat, b <= Len(f)
  PROVE  SubSeq(Append(f, l), a + 1, b) = SubSeq(f, a + 1, b)
  OBVIOUS

LEMMA PartsJoin ==
  ASSUME NEW f \in Seq(Line), NEW a \in Nat, NEW b \in Nat, a <= b, b <= Len(f)
  PROVE  SubSeq(f, a + 1, b) \o SubSeq(f, b + 1, Len(f)) = SubSeq(f, a + 1, Len(f))
<1> DEFINE left == SubSeq(f, a + 1, b)
           right == SubSeq(f, b + 1, Len(f))
           whole == SubSeq(f, a + 1, Len(f))
<1>1. /\ left \in Seq(Line) /\ Len(left) = b - a
      /\ \A i \in 1..(b - a) : left[i] = f[a + i]
  OBVIOUS
<1>2. /\ right \in Seq(Line) /\ Len(right) = Len(f) - b
      /\ \A i \in 1..(Len(f) - b) : right[i] = f[b + i]
  OBVIOUS
<1>3. /\ whole \in Seq(Line) /\ Len(whole) = Len(f) - a
      /\ \A i \in 1..(Len(f) - a) : whole[i] = f[a + i]
  OBVIOUS
<1> HIDE DEF left, right, whole
<1>4. left \o right \in Seq(Line) /\ Len(left \o right) = Len(f) - a
  <2>1. /\ left \o right \in Seq(Line)
        /\ Len(left \o right) = Len(left) + Len(right)
    BY <1>1, <1>2, ConcatProperties
  <2>2. QED
    BY <1>1, <1>2, <2>1
<1>5. ASSUME NEW i \in 1..(Len(f) - a) PROVE (left \o right)[i] = f[a + i]
  <2>1. CASE i <= b - a
    BY <1>1, <1>2, <2>1
  <2>2. CASE ~(i <= b - a)
    <3>1. i - (b - a) \in 1..(Len(f) - b) /\ b + (i - (b - a)) = a + i
      BY <2>2
    <3>2. (left \o right)[i] = right[i - (b - a)]
      BY <1>1, <1>2, <2>2, <3>1
    <3>3. QED
      BY <1>2, <3>1, <3>2
  <2>3. QED
    BY <2>1, <2>2
<1>6. left \o right = whole
  <2> DEFINE both == left \o right
             n == Len(f) - a
  <2>1. /\ both \in Seq(Line) /\ Len(both) = n
        /\ whole \in Seq(Line) /\ Len(whole) = n
    BY <1>3, <1>4
  <2>2. n \in Nat
    OBVIOUS
  <2>3. \A i \in 1..n : both[i] = whole[i]
    BY <1>3, <1>5
  <2> HIDE DEF both, n
  <2>4. both = whole
    BY <2>1, <2>2, <2>3
  <2>5. QED
    BY <2>4 DEF both
<1>7. QED
  BY <1>6 DEF left, right, whole

\* What a step of the daemon may do to the file n: it leaves it alone, truncates it for
\* a later run or appends a line of the running task whose log it is; and a process that
\* writes to the file did so before or is of a later run.
Writes(n) ==
    \/ files'[n] = files[n]
    \/ files'[n] = <<>> /\ \A i \in Ids : path'[i] = n => runs < tasks'[i].run
    \/ \E i \in Ids, k \in Nat :
           /\ path[i] = n /\ IsRunning(tasks[i])
           /\ files'[n] = Append(files[n], <<tasks[i].run, k>>)

\* The same for the file of the follow f, from the text old to the text new.
FileStep(f, old, new, ts, next, names, renamed, r) ==
    /\ f.start \in Nat /\ f.offset \in Nat /\ f.run \in Nat /\ r \in Nat
    /\ f.start <= f.offset /\ f.run <= r
    /\ old \in Seq(Line) /\ new \in Seq(Line)
    /\ \A i \in Ids : ts[i].run \in Nat /\ next[i].run \in Nat
    /\ \/ new = old
       \/ new = <<>> /\ \A i \in Ids : renamed[i] = f.file => r < next[i].run
       \/ \E i \in Ids, k \in Nat : /\ names[i] = f.file /\ IsRunning(ts[i])
                                    /\ new = Append(old, <<ts[i].run, k>>)
    /\ \A i \in Ids : renamed[i] = f.file /\ IsRunning(next[i]) =>
          \/ names[i] = f.file /\ IsRunning(ts[i]) /\ next[i].run = ts[i].run
          \/ r < next[i].run

\* The part that the follow was told is as exact as before, or the file is of a later run.
LEMMA StreamStep ==
  ASSUME NEW f, NEW old, NEW new, NEW ts, NEW next, NEW names, NEW renamed, NEW r, NEW told,
         FileStep(f, old, new, ts, next, names, renamed, r),
         Exact(f, old, told) \/ Truncated(f, old, ts, names)
  PROVE  Exact(f, new, told) \/ Truncated(f, new, next, renamed)
<1> USE DEF FileStep
<1>1. CASE Exact(f, old, told) /\ (new # <<>> \/ f.offset = 0)
  <2>1. f.offset <= Len(old) /\ told = SubSeq(old, f.start + 1, f.offset)
    BY <1>1 DEF Exact
  <2>2. CASE new = old
    BY <2>1, <2>2 DEF Exact
  <2>3. CASE new = <<>>
    <3>1. f.offset = 0 /\ f.start = 0
      BY <1>1, <2>3
    <3>2. SubSeq(old, 0 + 1, 0) = <<>> /\ SubSeq(new, 0 + 1, 0) = <<>> /\ 0 <= Len(new)
      BY NoPart
    <3>3. QED
      BY <2>1, <3>1, <3>2 DEF Exact
  <2>4. CASE \E i \in Ids, k \in Nat : new = Append(old, <<ts[i].run, k>>)
    <3>1. PICK i \in Ids, k \in Nat : new = Append(old, <<ts[i].run, k>>)
      BY <2>4
    <3> DEFINE l == <<ts[i].run, k>>
    <3>2. l \in Line
      BY DEF Line
    <3> HIDE DEF l
    <3>3. new = Append(old, l)
      BY <3>1 DEF l
    <3>4. Len(new) = Len(old) + 1 /\ Len(old) \in Nat
      BY <3>2, <3>3
    <3>5. SubSeq(new, f.start + 1, f.offset) = SubSeq(old, f.start + 1, f.offset)
      <4>1. PICK a \in Nat, b \in Nat : a = f.start /\ b = f.offset
        OBVIOUS
      <4>2. b <= Len(old) /\ old \in Seq(Line)
        BY <2>1, <4>1
      <4> HIDE DEF FileStep
      <4>3. SubSeq(Append(old, l), a + 1, b) = SubSeq(old, a + 1, b)
        BY <3>2, <4>2, PartOfLonger
      <4>4. QED
        BY <3>3, <4>1, <4>3
    <3>6. f.offset <= Len(new)
      BY <2>1, <3>4
    <3>7. QED
      BY <2>1, <3>5, <3>6 DEF Exact
  <2>5. QED
    BY <2>2, <2>3, <2>4
<1>2. CASE Exact(f, old, told) /\ new = <<>> /\ f.offset # 0
  <2>1. CASE new = old
    BY <1>2, <2>1 DEF Exact
  <2>2. CASE \A i \in Ids : renamed[i] = f.file => r < next[i].run
    <3>1. \A i \in Ids : renamed[i] = f.file => f.run < next[i].run
      BY <2>2
    <3>2. \A k \in DOMAIN new : f.run < new[k][1]
      BY <1>2
    <3>3. QED
      BY <1>2, <3>1, <3>2 DEF Truncated
  <2>3. ASSUME NEW i \in Ids, NEW k \in Nat, new = Append(old, <<ts[i].run, k>>)
        PROVE  FALSE
    <3>1. Len(Append(old, <<ts[i].run, k>>)) = Len(old) + 1 /\ Len(old) \in Nat
      OBVIOUS
    <3>2. QED
      BY <1>2, <2>3, <3>1
  <2>4. QED
    BY <2>1, <2>2, <2>3
<1>3. CASE Truncated(f, old, ts, names)
  <2>1. /\ f.offset # 0 /\ \A k \in DOMAIN old : f.run < old[k][1]
        /\ \A i \in Ids : names[i] = f.file /\ IsRunning(ts[i]) => f.run < ts[i].run
    BY <1>3 DEF Truncated
  <2>2. \A i \in Ids : renamed[i] = f.file /\ IsRunning(next[i]) => f.run < next[i].run
    BY <2>1
  <2>3. \A k \in DOMAIN new : f.run < new[k][1]
    <3>1. CASE new = old \/ new = <<>>
      BY <2>1, <3>1
    <3>2. CASE \E i \in Ids, k \in Nat : /\ names[i] = f.file /\ IsRunning(ts[i])
                                         /\ new = Append(old, <<ts[i].run, k>>)
      <4>1. PICK i \in Ids, k \in Nat : /\ names[i] = f.file /\ IsRunning(ts[i])
                                        /\ new = Append(old, <<ts[i].run, k>>)
        BY <3>2
      <4> DEFINE l == <<ts[i].run, k>>
      <4>2. f.run < l[1] /\ l \in Line
        BY <2>1, <4>1 DEF Line
      <4> HIDE DEF l
      <4>3. new = Append(old, l)
        BY <4>1 DEF l
      <4>4. QED
        BY <2>1, <4>2, <4>3
    <3>3. QED
      BY <3>1, <3>2
  <2>4. QED
    BY <2>1, <2>2, <2>3 DEF Truncated
<1>4. QED
  BY <1>1, <1>2, <1>3

LEMMA WorldFollow ==
  ASSUME LogsInv, LogsInv', FollowInv, UNCHANGED following,
         Len(files) <= Len(files'), runs <= runs',
         \A n \in 1..Len(files) : Writes(n),
         \A i \in Ids : path'[i] # 0 /\ path'[i] <= Len(files) /\ IsRunning(tasks'[i]) =>
             \/ path[i] = path'[i] /\ IsRunning(tasks[i]) /\ tasks'[i].run = tasks[i].run
             \/ runs < tasks'[i].run
  PROVE  FollowInv'
<1>1. /\ files \in Seq(Seq(Line)) /\ files' \in Seq(Seq(Line))
      /\ Len(files) \in Nat /\ Len(files') \in Nat
      /\ runs \in Nat /\ runs' \in Nat
      /\ \A i \in Ids : tasks[i].run \in Nat /\ tasks'[i].run \in Nat
      /\ \A i \in Ids : path[i] \in Nat /\ path'[i] \in Nat
  BY DEF LogsInv, TypeInv, TaskRecord
<1>2. UNCHANGED <<follower, viewer, channel>> /\ Delivered' = Delivered
  BY DEF following, Delivered, TextOf
<1>3. viewer' \in Viewer /\ channel' \in Seq(Message)
  BY <1>2 DEF FollowInv
<1>4. CASE viewer.place = "idle"
  BY <1>2, <1>3, <1>4 DEF FollowInv, FollowerInv, StreamInv
<1>5. CASE viewer.place # "idle"
  <2>1. /\ follower \in Follower
        /\ follower.place \in {"choosing", "waiting", "opening"} => follower.file = 0
        /\ follower.place \in {"looking", "reading", "checking"} => follower.file # 0
        /\ follower.place \notin {"choosing", "ended"} => follower.id \in Ids
        /\ ~Remote => channel = <<>>
        /\ follower.file <= Len(files)
        /\ follower.start <= follower.offset
        /\ follower.run <= runs
    BY <1>5 DEF FollowInv, FollowerInv
  <2>2. /\ follower.file \in Nat /\ follower.start \in Nat /\ follower.offset \in Nat
        /\ follower.run \in Nat
    BY <2>1 DEF Follower
  <2>3. FollowerInv'
    <3>1. follower.file <= Len(files') /\ follower.run <= runs'
      BY <1>1, <2>1, <2>2
    <3>2. QED
      BY <1>2, <1>5, <2>1, <3>1 DEF FollowerInv, Remote
  <2>4. CASE follower.file = 0
    BY <1>2, <1>3, <1>5, <2>3, <2>4 DEF FollowInv, StreamInv
  <2>5. CASE follower.file # 0
    <3> DEFINE n == follower.file
    <3>1. n \in 1..Len(files)
      BY <1>1, <2>1, <2>2, <2>5
    <3>2. files[n] \in Seq(Line) /\ files'[n] \in Seq(Line)
      BY <1>1, <3>1
    <3>3. \/ Exact(follower, files[n], Delivered)
          \/ Truncated(follower, files[n], tasks, path)
      BY <1>5, <2>5 DEF FollowInv, StreamInv
    <3>4. Writes(n)
      BY <3>1
    <3>5. follower.start \in Nat /\ follower.offset \in Nat /\ follower.run \in Nat
          /\ follower.start <= follower.offset /\ follower.run <= runs
      BY <2>1, <2>2
    <3>6. \A i \in Ids : path'[i] = n /\ IsRunning(tasks'[i]) =>
             \/ path[i] = n /\ IsRunning(tasks[i]) /\ tasks'[i].run = tasks[i].run
             \/ runs < tasks'[i].run
      BY <3>1
    <3>7. \/ Exact(follower, files'[n], Delivered)
          \/ Truncated(follower, files'[n], tasks', path')
      <4>1. FileStep(follower, files[n], files'[n], tasks, tasks', path, path', runs)
        BY <1>1, <3>2, <3>4, <3>5, <3>6 DEF FileStep, Writes
      <4>2. QED
        BY <3>3, <4>1, StreamStep
    <3>8. QED
      BY <1>2, <1>3, <1>5, <2>3, <2>5, <3>7 DEF FollowInv, StreamInv
  <2>6. QED
    BY <2>4, <2>5
<1>6. QED
  BY <1>4, <1>5

-----------------------------------------------------------------------------
LEMMA StatusFollow ==
  ASSUME LogsInv, LogsInv', FollowInv, UNCHANGED <<files, path, runs, following>>,
         \A i \in Ids : IsRunning(tasks'[i]) =>
             IsRunning(tasks[i]) /\ tasks'[i].run = tasks[i].run
  PROVE  FollowInv'
<1>1. Len(files) <= Len(files') /\ runs <= runs'
  BY DEF LogsInv, TypeInv
<1>2. \A n \in 1..Len(files) : Writes(n)
  BY DEF Writes
<1>3. UNCHANGED following
  OBVIOUS
<1>4. QED
  BY <1>1, <1>2, <1>3, WorldFollow

LEMMA TasksFollow ==
  ASSUME LogsInv, LogsInv', FollowInv, NEW id \in Ids,
         AddTask(id) \/ ChangeStatus(id) \/ FinishTask(id) \/ RemoveTask(id)
  PROVE  FollowInv'
<1>1. tasks \in [Ids -> TaskRecord]
  BY DEF LogsInv, TypeInv
<1>2. CASE AddTask(id)
  <2>1. UNCHANGED <<files, path, runs, following>>
    BY <1>2 DEF AddTask
  <2>2. \A i \in Ids : IsRunning(tasks'[i]) =>
             IsRunning(tasks[i]) /\ tasks'[i].run = tasks[i].run
    BY <1>1, <1>2 DEF AddTask, IsRunning
  <2>3. QED
    BY <2>1, <2>2, StatusFollow
<1>3. CASE RemoveTask(id)
  <2>1. UNCHANGED <<files, path, runs, following>>
    BY <1>3 DEF RemoveTask
  <2>2. \A i \in Ids : IsRunning(tasks'[i]) =>
             IsRunning(tasks[i]) /\ tasks'[i].run = tasks[i].run
    BY <1>1, <1>3 DEF RemoveTask, IsRunning, NoTask
  <2>3. QED
    BY <2>1, <2>2, StatusFollow
<1>4. CASE ChangeStatus(id) \/ FinishTask(id)
  <2>1. UNCHANGED <<files, path, runs, following>>
    BY <1>4 DEF ChangeStatus, FinishTask
  <2>2. PICK status : /\ Become(id, status)
                      /\ status \in {"Running", "Paused"} => IsRunning(tasks[id])
    BY <1>4 DEF ChangeStatus, FinishTask, IsRunning
  <2>3. tasks'[id] = [tasks[id] EXCEPT !.status = status]
        /\ \A i \in Ids \ {id} : tasks'[i] = tasks[i]
    BY <1>1, <2>2 DEF Become
  <2>4. tasks'[id].status = status /\ tasks'[id].run = tasks[id].run
    BY <1>1, <2>3 DEF TaskRecord
  <2>5. \A i \in Ids : IsRunning(tasks'[i]) =>
             IsRunning(tasks[i]) /\ tasks'[i].run = tasks[i].run
    BY <2>2, <2>3, <2>4 DEF IsRunning
  <2>6. QED
    BY <2>1, <2>5, StatusFollow
<1>5. QED
  BY <1>2, <1>3, <1>4

LEMMA FinishResetFollow ==
  ASSUME LogsInv, LogsInv', FollowInv, FinishReset
  PROVE  FollowInv'
<1>1. UNCHANGED <<files, path, runs, following>>
  BY DEF FinishReset
<1>2. \A i \in Ids : ~IsRunning(tasks'[i])
  BY DEF FinishReset, IsRunning, NoTask
<1>3. QED
  BY <1>1, <1>2, StatusFollow

LEMMA StartTaskFollow ==
  ASSUME LogsInv, LogsInv', FollowInv, NEW id \in Ids, StartTask(id)
  PROVE  FollowInv'
<1>1. /\ tasks \in [Ids -> TaskRecord] /\ path \in [Ids -> Nat]
      /\ files \in Seq(Seq(Line)) /\ Len(files) \in Nat /\ runs \in Nat
      /\ \A i \in Ids : path[i] <= Len(files)
      /\ \A i, j \in Ids : path[i] = path[j] /\ path[i] # 0 => i = j
  BY DEF LogsInv, TypeInv, FilesInv
<1>2. /\ runs' = runs + 1 /\ UNCHANGED following
      /\ \A i \in Ids : tasks'[i] = IF i = id THEN [status |-> "Running", run |-> runs + 1]
                                              ELSE tasks[i]
  BY <1>1 DEF StartTask
<1>3. runs <= runs' /\ tasks'[id].run = runs + 1 /\ runs < tasks'[id].run
  BY <1>1, <1>2
<1>4. CASE path[id] = 0
  <2>1. /\ files' = Append(files, <<>>)
        /\ path' = [path EXCEPT ![id] = Len(files) + 1]
    BY <1>4 DEF StartTask, OpenedForRun
  <2>2. /\ Len(files') = Len(files) + 1
        /\ \A n \in 1..Len(files) : files'[n] = files[n]
    BY <1>1, <2>1
  <2>3. \A i \in Ids : path'[i] = IF i = id THEN Len(files) + 1 ELSE path[i]
    BY <1>1, <2>1
  <2>4. \A i \in Ids : path'[i] # 0 /\ path'[i] <= Len(files) /\ IsRunning(tasks'[i]) =>
            path[i] = path'[i] /\ IsRunning(tasks[i]) /\ tasks'[i].run = tasks[i].run
    BY <1>1, <1>2, <2>3
  <2>5. \A n \in 1..Len(files) : Writes(n)
    BY <2>2 DEF Writes
  <2>6. Len(files) <= Len(files')
    BY <1>1, <2>2
  <2>7. QED
    BY <1>2, <1>3, <2>4, <2>5, <2>6, WorldFollow
<1>5. CASE path[id] # 0
  <2>1. files' = [files EXCEPT ![path[id]] = <<>>] /\ path' = path
    BY <1>5 DEF StartTask, OpenedForRun
  <2>2. path[id] \in 1..Len(files)
    BY <1>1, <1>5
  <2>3. /\ Len(files') = Len(files) /\ files'[path[id]] = <<>>
        /\ \A n \in 1..Len(files) : n # path[id] => files'[n] = files[n]
    BY <1>1, <2>1, <2>2
  <2>4. \A i \in Ids : path'[i] # 0 /\ path'[i] <= Len(files) /\ IsRunning(tasks'[i]) =>
             \/ path[i] = path'[i] /\ IsRunning(tasks[i]) /\ tasks'[i].run = tasks[i].run
             \/ runs < tasks'[i].run
    BY <1>2, <1>3, <2>1
  <2>5. ASSUME NEW n \in 1..Len(files) PROVE Writes(n)
    <3>1. CASE n # path[id]
      BY <2>3, <3>1 DEF Writes
    <3>2. CASE n = path[id]
      <4>1. \A i \in Ids : path'[i] = n => i = id
        BY <1>1, <1>5, <2>1, <3>2
      <4>2. QED
        BY <1>3, <2>3, <3>2, <4>1 DEF Writes
    <3>3. QED
      BY <3>1, <3>2
  <2>6. Len(files) <= Len(files')
    BY <1>1, <2>3
  <2>7. QED
    BY <1>2, <1>3, <2>4, <2>5, <2>6, WorldFollow
<1>6. QED
  BY <1>4, <1>5

LEMMA WriteLineFollow ==
  ASSUME LogsInv, LogsInv', FollowInv, NEW id \in Ids, WriteLine(id)
  PROVE  FollowInv'
<1>1. /\ files \in Seq(Seq(Line)) /\ path[id] \in 1..Len(files) /\ IsRunning(tasks[id])
      /\ Content(id) = files[path[id]] /\ Content(id) \in Seq(Line)
  BY ContentTyped DEF WriteLine, LogsInv, TypeInv, IsRunning
<1>2. /\ UNCHANGED <<tasks, path, runs>> /\ runs <= runs'
      /\ files' = [files EXCEPT ![path[id]] =
                      Append(Content(id), <<tasks[id].run, Len(Content(id)) + 1>>)]
  BY <1>1 DEF WriteLine, LogsInv, TypeInv
<1>3. UNCHANGED following
  BY DEF WriteLine
<1> DEFINE text == Append(Content(id), <<tasks[id].run, Len(Content(id)) + 1>>)
<1>4. Len(Content(id)) + 1 \in Nat
  BY <1>1
<1>5. files' = [files EXCEPT ![path[id]] = text]
  BY <1>2
<1> HIDE DEF text
<1>6. /\ Len(files') = Len(files) /\ files'[path[id]] = text
      /\ \A n \in 1..Len(files) : n # path[id] => files'[n] = files[n]
  BY <1>1, <1>5
<1>7. ASSUME NEW n \in 1..Len(files) PROVE Writes(n)
  <2>1. CASE n # path[id]
    BY <1>6, <2>1 DEF Writes
  <2>2. CASE n = path[id]
    <3>1. files'[n] = Append(files[n], <<tasks[id].run, Len(Content(id)) + 1>>)
      BY <1>1, <1>6, <2>2 DEF text
    <3>2. QED
      BY <1>1, <1>4, <2>2, <3>1 DEF Writes
  <2>3. QED
    BY <2>1, <2>2
<1>8. Len(files) <= Len(files')
  BY <1>1, <1>6
<1>9. QED
  BY <1>2, <1>3, <1>7, <1>8, WorldFollow

LEMMA CleanLogHandlesFollow ==
  ASSUME LogsInv, LogsInv', FollowInv, CleanLogHandles
  PROVE  FollowInv'
<1>1. path' = [i \in Ids |-> IF i \in holder THEN 0 ELSE path[i]]
  BY DEF CleanLogHandles
<1>2. /\ UNCHANGED <<tasks, files, runs>> /\ runs <= runs' /\ Len(files) <= Len(files')
      /\ path \in [Ids -> Nat]
  BY DEF CleanLogHandles, LogsInv, TypeInv
<1>3. UNCHANGED following
  BY DEF CleanLogHandles
<1>4. \A i \in Ids : path'[i] = 0 \/ path'[i] = path[i]
  BY <1>1, <1>2
<1>5. \A n \in 1..Len(files) : Writes(n)
  BY <1>2 DEF Writes
<1>6. \A i \in Ids : path'[i] # 0 /\ path'[i] <= Len(files) /\ IsRunning(tasks'[i]) =>
          path[i] = path'[i] /\ IsRunning(tasks[i]) /\ tasks'[i].run = tasks[i].run
  BY <1>2, <1>4
<1>7. QED
  BY <1>2, <1>3, <1>5, <1>6, WorldFollow

-----------------------------------------------------------------------------
(* The loop *)

\* A step of the loop or of the client that neither opens nor reads the file.
LEMMA LoopStep ==
  ASSUME FollowInv, viewer.place # "idle", UNCHANGED world,
         follower' \in Follower,
         UNCHANGED <<follower.mode, follower.file, follower.start, follower.offset,
                     follower.run>>,
         follower'.place \in {"choosing", "waiting", "opening"} => follower'.file = 0,
         follower'.place \in {"looking", "reading", "checking"} => follower'.file # 0,
         follower'.place \notin {"choosing", "ended"} => follower'.id \in Ids,
         viewer' \in Viewer, channel' \in Seq(Message), viewer'.place # "idle",
         ~Remote => channel' = <<>>,
         Delivered' = Delivered
  PROVE  FollowInv'
<1>1. UNCHANGED <<tasks, files, path, runs>>
  BY DEF world
<1>2. FollowerInv'
  BY <1>1 DEF FollowInv, FollowerInv, Remote
<1>3. follower.file = 0 => Delivered = <<>>
  BY DEF FollowInv, StreamInv
<1>4. follower.file # 0 => \/ Exact(follower, files[follower.file], Delivered)
                           \/ Truncated(follower, files[follower.file], tasks, path)
  BY DEF FollowInv, StreamInv
<1>5. follower'.file # 0 => \/ Exact(follower', files'[follower'.file], Delivered')
                            \/ Truncated(follower', files'[follower'.file], tasks', path')
  BY <1>1, <1>4 DEF Exact, Truncated
<1>6. StreamInv'
  BY <1>3, <1>5 DEF StreamInv
<1>7. QED
  BY <1>2, <1>6 DEF FollowInv

LEMMA RestOfFile ==
  ASSUME NEW f \in Seq(Line), NEW b \in Nat
  PROVE  LET rest == SubSeq(f, b + 1, Len(f))
         IN  /\ rest \in Seq(Line) /\ Len(rest) \in Nat
             /\ b <= Len(f) => b + Len(rest) = Len(f)
<1> DEFINE rest == SubSeq(f, b + 1, Len(f))
<1>1. rest \in Seq(Line)
  OBVIOUS
<1>2. Len(rest) \in Nat
  BY <1>1
<1>3. b <= Len(f) => b + Len(rest) = Len(f)
  OBVIOUS
<1>4. QED
  BY <1>1, <1>2, <1>3

\* Where the loop stands when it is under way.
LEMMA Following ==
  ASSUME FollowInv, follower.place # "idle"
  PROVE  /\ viewer.place # "idle" /\ follower \in Follower
         /\ viewer \in Viewer /\ channel \in Seq(Message)
         /\ follower.place \in {"choosing", "waiting", "opening"} => follower.file = 0
         /\ follower.place \in {"looking", "reading", "checking"} => follower.file # 0
         /\ follower.place \notin {"choosing", "ended"} => follower.id \in Ids
         /\ ~Remote => channel = <<>>
  BY DEF FollowInv, FollowerInv

LEMMA FarewellFollow ==
  ASSUME FollowInv, follower.place # "idle", UNCHANGED world,
         NEW kind \in {"close", "failure", "gone"}, Farewell(kind)
  PROVE  FollowInv'
<1>1. /\ viewer.place # "idle" /\ follower \in Follower
      /\ viewer \in Viewer /\ channel \in Seq(Message)
  BY Following
<1> DEFINE m == [kind |-> kind]
<1>2. m \in Message /\ Text(m) = <<>>
  BY DEF Message, Text
<1>3. Tell(m) /\ follower' = [follower EXCEPT !.place = "ended"]
  BY DEF Farewell
<1> HIDE DEF m
<1>4. /\ viewer' \in Viewer /\ channel' \in Seq(Message) /\ viewer'.place # "idle"
      /\ ~Remote => channel' = <<>>
      /\ Delivered' = Delivered \o <<>>
  BY <1>1, <1>2, <1>3, TellDelivers
<1>5. Delivered' = Delivered
  BY <1>4, DeliveredType
<1>6. /\ follower' \in Follower /\ follower'.place = "ended"
      /\ UNCHANGED <<follower.mode, follower.file, follower.start, follower.offset,
                     follower.run>>
  BY <1>1, <1>3 DEF Follower
<1>7. QED
  BY <1>1, <1>4, <1>5, <1>6, LoopStep

LEMMA DeliveredSame ==
  ASSUME FollowInv, UNCHANGED <<viewer, channel>>
  PROVE  Delivered' = Delivered
  BY DEF Delivered, TextOf

LEMMA GotoFollow ==
  ASSUME FollowInv, follower.place # "idle", UNCHANGED <<world, viewer, channel>>,
         NEW place, Goto(place),
         \/ place = "opening" /\ follower.place = "waiting"
         \/ place \in {"looking", "reading"} /\ follower.place \in {"looking", "checking"}
  PROVE  FollowInv'
<1>1. /\ viewer.place # "idle" /\ follower \in Follower
      /\ viewer \in Viewer /\ channel \in Seq(Message)
      /\ follower.place = "waiting" => follower.file = 0
      /\ follower.place \in {"looking", "checking"} => follower.file # 0
      /\ follower.id \in Ids
      /\ ~Remote => channel = <<>>
  BY Following
<1>2. /\ follower' \in Follower /\ follower'.place = place /\ follower'.id = follower.id
      /\ UNCHANGED <<follower.mode, follower.file, follower.start, follower.offset,
                     follower.run>>
  BY <1>1 DEF Follower, Goto
<1>3. /\ viewer' \in Viewer /\ channel' \in Seq(Message) /\ viewer'.place # "idle"
      /\ ~Remote => channel' = <<>>
      /\ Delivered' = Delivered
  BY <1>1, DeliveredSame
<1>4. UNCHANGED world
  OBVIOUS
<1>5. QED
  BY <1>1, <1>2, <1>3, <1>4, LoopStep

LEMMA FollowFollow == ASSUME LogsInv, FollowInv, Follow PROVE FollowInv'
<1>1. PICK mode \in Modes, id \in Ids \cup {0}, lines \in LineLimits :
           follower' = [place |-> IF id = 0 THEN "choosing" ELSE "waiting", mode |-> mode,
                        id |-> id, lines |-> lines, file |-> 0, start |-> 0,
                        offset |-> 0, run |-> 0, check |-> TRUE]
  BY DEF Follow
<1>2. /\ viewer.place = "idle" /\ viewer' = [viewer EXCEPT !.place = "following"]
      /\ UNCHANGED <<world, channel>>
  BY DEF Follow
<1>3. viewer \in Viewer /\ viewer.shown = <<>> /\ channel = <<>>
  BY <1>2 DEF FollowInv, FollowerInv
<1>4. viewer' \in Viewer /\ viewer'.place = "following" /\ viewer'.shown = <<>>
  BY <1>2, <1>3 DEF Viewer
<1>5. /\ follower' \in Follower /\ follower'.file = 0 /\ follower'.run = 0
      /\ follower'.start = 0 /\ follower'.offset = 0
      /\ follower'.place = IF id = 0 THEN "choosing" ELSE "waiting"
      /\ follower'.id = id
  BY <1>1 DEF Follower
<1>6. Len(files') \in Nat /\ runs' \in Nat
  BY <1>2 DEF LogsInv, TypeInv, world
<1>7. FollowerInv'
  BY <1>2, <1>3, <1>4, <1>5, <1>6 DEF FollowerInv
<1>8. Delivered' = <<>>
  BY <1>2, <1>3, <1>4, TextOfNone, NextDelivered
<1>9. channel' \in Seq(Message)
  BY <1>2, <1>3
<1>10. QED
  BY <1>4, <1>5, <1>7, <1>8, <1>9 DEF FollowInv, StreamInv

LEMMA ChooseTaskFollow == ASSUME FollowInv, ChooseTask PROVE FollowInv'
<1>1. follower.place = "choosing" /\ UNCHANGED world
  BY DEF ChooseTask
<1>2. CASE Cardinality(RunningIds) = 1
  <2>1. RunningIds # {}
    BY <1>2, FS_EmptySet
  <2>2. (CHOOSE id \in RunningIds : TRUE) \in Ids
    BY <2>1 DEF RunningIds
  <2> DEFINE id == CHOOSE i \in RunningIds : TRUE
  <2>3. /\ follower' = [follower EXCEPT !.place = "waiting", !.id = id]
        /\ UNCHANGED <<viewer, channel>>
    BY <1>2 DEF ChooseTask
  <2>4. id \in Ids
    BY <2>2
  <2> HIDE DEF id
  <2>5. /\ viewer.place # "idle" /\ follower \in Follower /\ follower.file = 0
        /\ viewer \in Viewer /\ channel \in Seq(Message)
        /\ ~Remote => channel = <<>>
    BY <1>1, Following
  <2>6. /\ follower' \in Follower /\ follower'.place = "waiting" /\ follower'.id = id
        /\ UNCHANGED <<follower.mode, follower.file, follower.start, follower.offset,
                       follower.run>>
    BY <2>3, <2>4, <2>5 DEF Follower
  <2>7. /\ viewer' \in Viewer /\ channel' \in Seq(Message) /\ viewer'.place # "idle"
        /\ ~Remote => channel' = <<>>
        /\ Delivered' = Delivered
    BY <2>3, <2>5, DeliveredSame
  <2>8. QED
    BY <1>1, <2>4, <2>5, <2>6, <2>7, LoopStep
<1>3. CASE Cardinality(RunningIds) # 1
  BY <1>1, <1>3, FarewellFollow DEF ChooseTask
<1>4. QED
  BY <1>2, <1>3

LEMMA AwaitStartFollow == ASSUME FollowInv, AwaitStart PROVE FollowInv'
<1>1. follower.place = "waiting" /\ UNCHANGED world
  BY DEF AwaitStart
<1>2. CASE Farewell("failure")
  BY <1>1, <1>2, FarewellFollow
<1>3. CASE Goto("opening") /\ UNCHANGED <<viewer, channel>>
  BY <1>1, <1>3, GotoFollow
<1>4. QED
  BY <1>2, <1>3 DEF AwaitStart

LEMMA LookForFileFollow == ASSUME FollowInv, LookForFile PROVE FollowInv'
<1>1. follower.place = "looking" /\ UNCHANGED world
  BY DEF LookForFile
<1>2. CASE Farewell("gone")
  BY <1>1, <1>2, FarewellFollow
<1>3. CASE Goto("reading") /\ UNCHANGED <<viewer, channel>>
  BY <1>1, <1>3, GotoFollow
<1>4. QED
  BY <1>2, <1>3 DEF LookForFile

LEMMA CheckTaskFollow == ASSUME FollowInv, CheckTask PROVE FollowInv'
<1>1. follower.place = "checking" /\ UNCHANGED world
  BY DEF CheckTask
<1>2. CASE Farewell("failure") \/ Farewell("close")
  BY <1>1, <1>2, FarewellFollow
<1>3. CASE Goto("looking") /\ UNCHANGED <<viewer, channel>>
  BY <1>1, <1>3, GotoFollow
<1>4. QED
  BY <1>2, <1>3 DEF CheckTask

LEMMA ReceiveMessageFollow == ASSUME FollowInv, ReceiveMessage PROVE FollowInv'
<1>1. viewer.place # "idle" /\ UNCHANGED <<world, follower>>
  BY DEF ReceiveMessage, FollowInv, FollowerInv
<1>2. /\ viewer' \in Viewer /\ channel' \in Seq(Message) /\ viewer'.place # "idle"
      /\ ~Remote => channel' = <<>>
      /\ Delivered' = Delivered
  BY <1>1, ReceiveDelivers
<1>3. /\ follower \in Follower
      /\ follower.place \in {"choosing", "waiting", "opening"} => follower.file = 0
      /\ follower.place \in {"looking", "reading", "checking"} => follower.file # 0
      /\ follower.place \notin {"choosing", "ended"} => follower.id \in Ids
  BY <1>1 DEF FollowInv, FollowerInv
<1>4. UNCHANGED <<follower.mode, follower.file, follower.start, follower.offset,
                  follower.run>>
  BY <1>1
<1>5. QED
  BY <1>1, <1>2, <1>3, <1>4, LoopStep

\* The log is opened where it is to be shown from, and nothing was told before.
LEMMA OpenLogFollow == ASSUME LogsInv, FollowInv, OpenLog PROVE FollowInv'
<1>1. follower.place = "opening" /\ UNCHANGED world
  BY DEF OpenLog
<1>2. CASE Farewell("failure")
  BY <1>1, <1>2, FarewellFollow
<1>3. CASE path[follower.id] # 0 /\ ~Farewell("failure")
  <2> DEFINE start == SeekTo(follower.lines, Len(Content(follower.id)))
             file == path[follower.id]
             run == tasks[follower.id].run
  <2>1. /\ follower' = [follower EXCEPT !.place = "looking", !.file = file, !.run = run,
                                        !.start = start, !.offset = start]
        /\ UNCHANGED <<viewer, channel>>
    BY <1>3 DEF OpenLog
  <2>2. /\ viewer.place # "idle" /\ follower \in Follower /\ follower.id \in Ids
        /\ viewer \in Viewer /\ channel \in Seq(Message) /\ follower.file = 0
        /\ ~Remote => channel = <<>>
    BY <1>1, Following
  <2>3. /\ file \in 1..Len(files) /\ Content(follower.id) = files[file]
        /\ files[file] \in Seq(Line) /\ run \in Nat /\ run <= runs
        /\ Len(files) \in Nat
    BY <1>3, <2>2, ContentTyped DEF LogsInv, FilesInv, TypeInv
  <2>4. start \in Nat /\ start <= Len(files[file])
    <3>1. follower.lines \in Nat
      BY <2>2, TaskLogsAssumption DEF Follower
    <3>2. Len(files[file]) \in Nat
      BY <2>3
    <3> HIDE DEF file
    <3>3. QED
      BY <2>3, <3>1, <3>2 DEF SeekTo
  <2>5. file # 0 /\ file \in Nat /\ file <= Len(files)
    BY <2>3
  <2> HIDE DEF start, file, run
  <2>6. /\ follower' \in Follower /\ follower'.place = "looking"
        /\ follower'.file = file /\ follower'.run = run
        /\ follower'.start = start /\ follower'.offset = start
        /\ follower'.id = follower.id /\ follower'.mode = follower.mode
    BY <2>1, <2>2, <2>3, <2>4, <2>5 DEF Follower
  <2>7. UNCHANGED <<files, runs>>
    BY <1>1 DEF world
  <2>8. FollowerInv'
    BY <2>1, <2>2, <2>3, <2>4, <2>5, <2>6, <2>7 DEF FollowerInv, Remote
  <2>9. Delivered' = <<>>
    BY <2>1, <2>2, DeliveredSame DEF FollowInv, StreamInv
  <2>10. SubSeq(files[file], start + 1, start) = <<>>
    BY <2>3, <2>4, NoPart
  <2>11. Exact(follower', files'[follower'.file], Delivered')
    BY <2>4, <2>6, <2>7, <2>9, <2>10 DEF Exact
  <2>12. QED
    BY <2>1, <2>2, <2>8, <2>5, <2>6, <2>11 DEF FollowInv, StreamInv
<1>4. QED
  BY <1>2, <1>3 DEF OpenLog

\* A read tells what lies behind the cursor and moves it to the end of the file.
LEMMA ReadLogFollow == ASSUME LogsInv, FollowInv, ReadLog PROVE FollowInv'
<1>1. follower.place = "reading" /\ UNCHANGED world
  BY DEF ReadLog
<1>2. /\ viewer.place # "idle" /\ follower \in Follower /\ follower.id \in Ids
      /\ viewer \in Viewer /\ channel \in Seq(Message) /\ follower.file # 0
      /\ ~Remote => channel = <<>>
  BY <1>1, Following
<1> DEFINE text == files[follower.file]
<1>3. /\ follower.file \in 1..Len(files) /\ follower.file \in Nat
      /\ files \in Seq(Seq(Line))
      /\ follower.start \in Nat /\ follower.offset \in Nat /\ follower.run \in Nat
      /\ follower.start <= follower.offset /\ follower.run <= runs
      /\ follower.file <= Len(files)
  BY <1>2 DEF FollowInv, FollowerInv, Follower, LogsInv, TypeInv
<1>4. text \in Seq(Line) /\ Len(text) \in Nat
  BY <1>3
<1>5. Unread = SubSeq(text, follower.offset + 1, Len(text))
  BY DEF Unread
<1> HIDE DEF text
<1>6. /\ Unread \in Seq(Line) /\ Len(Unread) \in Nat
      /\ follower.offset <= Len(text) => follower.offset + Len(Unread) = Len(text)
  BY <1>3, <1>4, <1>5, RestOfFile
<1> DEFINE place == IF follower.check THEN "checking" ELSE "looking"
           check == Remote \/ ~follower.check
           offset == follower.offset + Len(Unread)
<1>7. follower' = [follower EXCEPT !.offset = offset, !.place = place, !.check = check]
  BY DEF ReadLog
<1>8. /\ offset \in Nat /\ follower.offset <= offset
      /\ place \in {"checking", "looking"} /\ check \in BOOLEAN
  <2>1. check \in BOOLEAN
    BY DEF Remote
  <2>2. QED
    BY <1>3, <1>6, <2>1
<1> HIDE DEF place, check, offset
<1>9. /\ follower' \in Follower /\ follower'.place \in {"checking", "looking"}
      /\ follower'.offset = offset
      /\ UNCHANGED <<follower.mode, follower.file, follower.start, follower.id,
                     follower.run>>
  BY <1>2, <1>7, <1>8 DEF Follower
<1>10. /\ viewer' \in Viewer /\ channel' \in Seq(Message) /\ viewer'.place # "idle"
       /\ ~Remote => channel' = <<>>
       /\ Delivered' = Delivered \o Unread
  <2>1. CASE Unread = <<>>
    <3>1. UNCHANGED <<viewer, channel>>
      BY <2>1 DEF ReadLog
    <3>2. Delivered = Delivered \o <<>>
      BY DeliveredType
    <3>3. QED
      BY <1>2, <2>1, <3>1, <3>2, DeliveredSame
  <2>2. CASE Unread # <<>>
    <3> DEFINE m == [kind |-> "chunk", text |-> Unread]
    <3>1. Tell(m)
      BY <2>2 DEF ReadLog
    <3>2. m \in Message /\ Text(m) = Unread
      BY <1>6 DEF Message, Text
    <3> HIDE DEF m
    <3>3. QED
      BY <1>2, <3>1, <3>2, TellDelivers
  <2>3. QED
    BY <2>1, <2>2
<1>11. UNCHANGED <<tasks, files, path, runs>>
  BY <1>1 DEF world
<1>12. FollowerInv'
  BY <1>2, <1>3, <1>8, <1>9, <1>10, <1>11 DEF FollowerInv, Remote
<1>13. CASE Exact(follower, text, Delivered)
  <2>1. /\ follower.offset <= Len(text)
        /\ Delivered = SubSeq(text, follower.start + 1, follower.offset)
    BY <1>13 DEF Exact
  <2>2. offset = Len(text)
    BY <1>6, <2>1 DEF offset
  <2>3. Delivered' = SubSeq(text, follower.start + 1, Len(text))
    BY <1>3, <1>4, <1>5, <1>10, <2>1, PartsJoin
  <2>4. Exact(follower', text, Delivered')
    BY <1>4, <1>9, <2>2, <2>3 DEF Exact
  <2>5. QED
    BY <1>2, <1>9, <1>10, <1>11, <1>12, <2>4 DEF FollowInv, StreamInv, text
<1>14. CASE Truncated(follower, text, tasks, path)
  <2>1. offset # 0
    BY <1>3, <1>8, <1>14 DEF Truncated
  <2>2. Truncated(follower', text, tasks, path)
    BY <1>9, <1>14, <2>1 DEF Truncated
  <2>3. QED
    BY <1>2, <1>9, <1>10, <1>11, <1>12, <2>2 DEF FollowInv, StreamInv, text
<1>15. QED
  BY <1>2, <1>13, <1>14 DEF FollowInv, StreamInv, text

-----------------------------------------------------------------------------
LEMMA FollowNext == LogsInv /\ LogsInv' /\ FollowInv /\ [Next]_vars => FollowInv'
<1> SUFFICES ASSUME LogsInv, LogsInv', FollowInv, [Next]_vars PROVE FollowInv'
  OBVIOUS
<1>1. ASSUME NEW id \in Ids,
             AddTask(id) \/ StartTask(id) \/ WriteLine(id) \/ ChangeStatus(id)
                 \/ FinishTask(id) \/ RemoveTask(id)
      PROVE  FollowInv'
  BY <1>1, TasksFollow, StartTaskFollow, WriteLineFollow
<1>2. CASE CleanLogHandles \/ FinishReset
  BY <1>2, CleanLogHandlesFollow, FinishResetFollow
<1>3. CASE Follow \/ ReceiveMessage
  BY <1>3, FollowFollow, ReceiveMessageFollow
<1>4. CASE FollowerStep
  BY <1>4, ChooseTaskFollow, AwaitStartFollow, OpenLogFollow, LookForFileFollow,
     ReadLogFollow, CheckTaskFollow DEF FollowerStep
<1>5. CASE RequestLog \/ ReaderStep \/ UNCHANGED vars
  <2>1. UNCHANGED <<world, following>>
    BY <1>5 DEF RequestLog, ReaderStep, ReadNext, PrintLog, vars
  <2>2. UNCHANGED <<files, path, runs, following>> /\ UNCHANGED tasks
    BY <2>1 DEF world
  <2>3. QED
    BY <2>2, StatusFollow
<1>6. QED
  BY <1>1, <1>2, <1>3, <1>4, <1>5 DEF Next

\* follow_log in the daemon and in the client: what a follow has shown and what is on its
\* way to it is, without a gap or a repetition, the part of the open file between where
\* the follow began and where its cursor is, through all pauses, ends and removals of the
\* task, until the task is started again in the same file.
THEOREM StreamsAreWhole == Spec => []NothingSkipped
<1>1. LogsInv /\ FollowInv => NothingSkipped
  <2> SUFFICES ASSUME LogsInv, FollowInv, Opened, SameRun,
                      Len(files[follower.file]) >= follower.offset
               PROVE  Delivered = SubSeq(files[follower.file], follower.start + 1,
                                         follower.offset)
    BY DEF NothingSkipped, Delivered
  <2>1. /\ viewer.place # "idle" /\ follower \in Follower /\ follower.file # 0
        /\ follower.file <= Len(files)
    BY DEF Opened, FollowInv, FollowerInv
  <2> DEFINE text == files[follower.file]
  <2>2. /\ text \in Seq(Line) /\ follower.offset \in Nat /\ follower.run \in Nat
    BY <2>1 DEF Follower, LogsInv, TypeInv
  <2>3. ASSUME Truncated(follower, text, tasks, path) PROVE FALSE
    <3>1. follower.offset # 0 /\ \A k \in DOMAIN text : follower.run < text[k][1]
      BY <2>3 DEF Truncated
    <3>2. 1 \in DOMAIN text /\ text[1] \in Line
      BY <2>2, <3>1
    <3>3. text[1][1] = follower.run
      BY <3>2 DEF SameRun
    <3>4. QED
      BY <2>2, <3>1, <3>2, <3>3
  <2>4. QED
    BY <2>1, <2>3 DEF FollowInv, StreamInv, Exact
<1>2. QED
  BY <1>1, LogsInit, LogsNext, FollowInit, FollowNext, PTL DEF Spec

=============================================================================
