# Verification of pueue

TLA+ models of `pueue`, a manager for shell commands that run in the background: the
daemon `pueued`, the client `pueue` and the protocol between them, with TLC runs on small
instances and proofs for TLAPS. Paths are relative to `src/`; those that begin with
`daemon/` or `client/` are under `src/pueue/src/`.

`pueued` keeps a list of tasks in groups, starts them as processes when a slot of the
group is free and their dependencies have succeeded, and takes requests from `pueue`
clients over a socket. All its state is one structure behind one mutex. Two kinds of
actors take that mutex in turn: the task handler, every 300ms, and one task per client
connection. Child processes exit at any time, and the daemon notices when it looks.

## 1. Inventory

| Component | Code | State | Operations |
|---|---|---|---|
| Internal state | `pueue_lib/src/{state,task}.rs`, `daemon/internal_state/` | tasks, groups, worker pools (`Children`), pending shutdown | add, remove, change status, removability, pause on failure, save, restore |
| Task handler | `daemon/task_handler.rs`, `daemon/process_handler/{spawn,finish}.rs` | none of its own | collect exited children, shut down, complete resets, enqueue delayed tasks, fail dependents, start tasks |
| Request handlers | `daemon/network/message_handler/*.rs`, `daemon/process_handler/{kill,pause,start}.rs` | none of their own | add, enqueue, stash, kill, pause, start, restart, edit (three requests), switch, remove, clean, group, parallel, reset, shutdown |
| Start-up, crash, restore | `daemon/mod.rs`, `daemon/internal_state/state.rs` | - | certificates, secret, pid file, restore, first tick, socket; panic hook |
| State file | `daemon/internal_state/state.rs` (`save`, `restore`) | the file, a `.partial` file beside it | create, write, rename, read; the same compressed |
| Single instance | `daemon/pid.rs`, `pueue_lib/src/network/socket/` | pid file, socket file | check and create, remove at exit and in the panic hook |
| Wire protocol | `pueue_lib/src/network/protocol.rs`, `network_blocking/` | a byte stream | length header, packets of at most 1280 bytes, CBOR |
| Client connection | `pueue_lib/src/network/client.rs`, `daemon/network/socket/mod.rs` | secret, version | handshake, loop of requests and answers |
| Task logs, streams | `pueue_lib/src/log.rs`, `daemon/network/message_handler/log.rs`, `client/commands/{follow.rs,log/}` | a file for each task | create, append, truncate, remove; follow, print, last lines |
| Client sessions | `client/commands/{edit,restart,copy,import,archive,wait,...}.rs` | what each command has read so far | commands of several requests |
| Queries | `client/commands/state/`, `client/task_ids_parser.rs`, `client/commands/reverse.rs` | - | filters, order, limit, columns, tables by group; id ranges; reversal |
| Child processes | `daemon/process_handler/mod.rs`, `pueue/src/process_helper/` | process groups of the operating system | spawn, signal, wait |
| Callbacks, settings, aliases, command line and display, Windows service | `daemon/callbacks.rs`, `pueue_lib/src/settings.rs`, `pueue/src/aliasing.rs`, `client/cli.rs`, `daemon/service.rs`, ... | processes of callbacks, configuration | I/O and formatting |

How they interact: a request handler changes the state and, for kills, pauses and
resumes, signals children in the same critical section. The task handler collects the
exits that follow in a later iteration. `add`, `start` and `restart` with `--immediate`
call `spawn_process`, which the task handler also calls. A failed save begins an
emergency shutdown in the task handler's functions and in kill, pause, start and reset,
and only an error answer in the other requests. A client has one connection and one
request in flight; a command that needs several requests decides on a state that may have
changed by the time its next request arrives. Log files are written by the children, and
read by the daemon, outside the mutex, or by the client itself. Daemons of the same user
meet only in the files and the socket.

What is hard:

- *Interleaving.* A request handled between two iterations sees children that have
  exited and tasks that still say Running; `restart`, `remove`, `start`, `reset` and
  `shutdown` fall into that window. Clients act on states they read earlier. Logs are
  read while they are written, truncated and removed.
- *State kept twice.* Groups and worker pools; task status and child; dependencies and
  the reverse index `dependents`; the daemon's and the client's rule for removals.
- *Crash and restart.* Some handlers save and some do not; files are created and written
  in separate steps. A restart must not run what nobody asked for, and must not fail
  over what an earlier daemon left behind.
- *Partial failure.* The save after a change may fail; a request over several ids
  may fail at one of them; a session may stop between two requests.
- *Liveness.* A queued task, a reset, a shutdown, a follow and a connection must come to
  their end.

What makes each component correct:

- Internal state: tasks, groups and pools agree; the reverse index is exact; no cycle of
  dependencies; a task that an unfinished one needs is not removed.
- Task handler: never too many tasks, no startable task forgotten, no task behind a
  failed one forgotten, resets and shutdowns complete, nothing starts during a shutdown.
- Request handlers: one process per task, a stopped process belongs to a paused task, a
  locked task is not started, a refused request changes nothing.
- Start-up, state file, single instance: one daemon has the state; the next one begins
  with what the last save wrote; a daemon that serves can be reached and knows the secret
  in the file; leftovers of a crash are survived; nothing runs unasked.
- Protocol: what is received is what was sent; nothing is done for a client without the
  secret; both ends come to an end.
- Client sessions: a locked task has an editor, nothing is archived away that was not
  copied, a wait ends when it should.
- Logs: a follow shows everything once and ends; a log is not older than its task, but for
  files that a reset leaves behind (section 5).
- Queries: the answer is the one described, in the tables it belongs to.

`PROJECT.json` lists the components with their status and 40 hazards at their lines.

## 2. Modules

| Module | What it models |
|---|---|
| `InternalState` | the shared state, its types, helpers of `state.rs`, `children.rs` and `task.rs`; saving and `initiate_shutdown` |
| `TaskHandler` | one iteration of the loop, an action for each function it calls |
| `MessageHandler` | an action for each request |
| `Daemon` | environment, start-up, `Next`, fairness |
| `DaemonProperties` | invariants, action properties, liveness, the refinement mapping |
| `TaskLifecycle` | abstract specification: what a client may rely on for each task |
| `ClientSessions` | several clients whose commands are sequences of the requests above, composed with the daemon |
| `Startup` | several daemons over the files they share, step by step |
| `Connection` | one client and its handler on a byte stream: framing, handshake, requests, answers |
| `MessageChannel` | abstract specification: what the protocol promises |
| `TaskLogs` | log files, `pueue follow` and `pueue log` |
| `Queries` | what the client computes alone: queries, tables, id lists, reversal, last lines |
| `MCDaemon`, `MCSessions`, `MCStartup`, `MCConnection`, `MCTaskLogs`, `MCQueries` | values of the constants of the small instances |
| `DaemonProofs` | types; tasks, groups and pools agree |
| `LifecycleProofs` | limits, status and process agree, a shutdown starts nothing; refinement of `TaskLifecycle`, failures change nothing, nothing runs after a restart, a clean exit |
| `DependencyProofs` | reverse index, cycles, switches, dependencies are kept |
| `SessionProofs` | locks, waits, archives |
| `StartupProofs` | one daemon, reachable, with the right secret; a start fails for a reason, the last save is restored |
| `ConnectionProofs` | nothing without the secret, refinement of `MessageChannel`, cut off for a reason |
| `TaskLogProofs` | no log older than its task, a follow without gaps |
| `QueryProofs` | the answers to queries and their tables, lists of ids, last lines |

Each of the first five EXTENDS the one before it, and `ClientSessions` EXTENDS
`DaemonProperties`. The others stand alone: each takes of the rest of the system what it
needs, as described below.

### The daemon: `InternalState` to `Daemon`

| Variable | Code |
|---|---|
| `tasks` | `State::tasks`: group, status, `previous_status`, dependencies, dependents, priority. A `Done` status is named by its result; `Delayed` is `Stashed` with an `enqueue_at` |
| `groups` | `State::groups`: status and `parallel_tasks` |
| `children` | `Children`: group, worker id, child; `proc` is what the operating system knows of the process |
| `shutdown` | `InternalState::shutdown` |
| `disk` | the state file |
| `stage`, `pending` | who holds the mutex and where it is: between the functions of the loop, or between the ids of a start request |
| `requests`, `restarts` | counters that bound a behaviour |
| `response` | the last answer |

Each handler is atomic, since it holds the mutex, with two exceptions. The loop is split
at the functions it calls, and `SpawnNew` at each task it starts, because children exit
and the machine may crash in between and because each function saves. A start of several
ids is split at each id for the same reason. Requests are handled only when `stage` is
`"Free"`.

Choices that a reader might question:

- *Start order.* `StartNext` takes the pending ids in any order: the client chose it.
- *Reset of several named groups* and *switch of several pairs* are sequences of the same
  operation on one group or pair, so one is modelled.
- *Signals.* SIGKILL makes a process die some time later. SIGINT and SIGTERM may be
  ignored, so they change nothing by themselves; a process may exit at any time anyway.
  An exited process that has not been waited for accepts signals, so the error path of
  `perform_action` does not occur.
- *Time* is nondeterministic: a delayed task may be due at any iteration.
- *Panics.* A pause of an id that does not exist and an endless recursion lead to stage
  `"Panicked"`: the panic hook, or the overflowing stack, ends the process. The
  panic for a log file that cannot be created is one of the ways of `Crash`.
- `RecursesForever` describes when `is_task_removable` calls itself without end. A set
  of removable tasks is walked to the end, one with a foreign dependent may be left
  early; the definition asks for the first kind and is exact up to three tasks.
- *Restore.* The default group for tasks whose group is gone is kept in the model,
  although no run reaches it. The steps of a save and of a start are in `Startup`; here a
  save succeeds or fails in one step.
- *Commands* is the set of kinds of request a run lets clients send. `"immediate"` and
  `"restart_immediate"` stand for the flag of add and restart, `"switch_related"`
  for switches of two tasks that depend on each other, `"add_reused"` for additions that
  are given the id of a removed task which a list still names.

### `ClientSessions`

`session` holds, for each client, its command, its place in it and what it remembers: the
part of the state it read, the requests it has still to send, the tasks it has locked or
copied or waits for. Each action is one request, handled by the action of
`MessageHandler`, and what the client does with the answer. Steps a client takes alone
are possible only while the mutex is free; they commute with the steps of its holder.
`left` records the tasks that a session left locked. `Quit` is a user who declines, or a
client that is killed, at any place.

edit (toml file or folder of files, with entries deleted from the toml file, and with a
restore when the editor fails), restart (as a new task or in place), copy, import,
archive and wait are modelled. The content of a task is its priority, which is all that
edits, copies and archives have to preserve here; ids of removed tasks are given out
again as in the daemon.

### `Startup`

A process is named by its pid, and `pc` says which step of `run` it is at: certificate,
key, secret (create, write), pid file (check, open and read, create, write), restore, the
save that follows, the first tick of the task handler, which may save once more, socket
(check, connect, remove, bind, listen), reading the secret, serving, shutdown, panic hook.
A shutdown may come as soon as the task handler runs and looks again. `Crash` is possible
at each step, and `ReusePid` gives the pid of a dead daemon to another program; a later
daemon may get it as well, also when a stale pid file still names it. `real` and `partial`
are the two state files; who has one open matters, as a rename carries an open file with
it. A save opens the partial file, writes it, ends the encoder if it compresses, and
renames; the write and the encoder's end may fail where `DiskFails` is set, and the error
of the latter goes unnoticed. The writes of pid file, certificate and secret do not fail
in the model, but may be cut short by a crash. A state is a version number. `config` has
the two settings that choose the code: compression and unix sockets. Four variables are
history: the last completed save, whether starts overlapped, at which steps processes
crashed, and at which steps writes failed.

### `Connection`

A message is a frame of units: a header with the size, and the units of the payload.
`unsent`, `wire` and `incoming` are the three places where a unit can be: not yet
written, on its way, and in the message being received. `Write`, `ReadHeader` and
`ReadChunk` move any number of units that is possible. An end that closes loses what
it has not written; the other one may read what is on its way. The client and the
daemon's handler are processes with a place each. `sent` and `taken` are the whole
messages sent and received, and the variables of `MessageChannel`. A followed stream ends
with a close, a failure, or the success that says the log file has gone away, and the
client does not take the last one for an end (`Unheeded`): both then wait for good.

### `TaskLogs`

`files` are all files there ever were, since a removed file stays readable for who has it
open; `path` says which of them has the name of a task's log. A line is numbered within
a run of its task. `follower` is the loop of `follow_local_task_logs` or of the daemon's
`follow_log`, a step for each await; `viewer` is the client's screen and `channel`
what is on its way to it. `reader` is `pueue log`, which reads a copy of the state first
and the files after the lock is given back. remove and clean drop the task first and then
its file, under one lock (`RemoveTask`, `CleanLogHandles`); a task that ends during a reset
loses its file at once and stays (`FinishTask`); the end of the reset drops all tasks and
no files (`FinishReset`), and `leftovers` remembers whose files those are.

### `Queries`

A behaviour is one command, computed step by step as the code does: each filter, the
order, the limit, the tables of groups; each range of a list of ids; each pair of a
reversal; each piece of the search for the last lines. Points in time are numbers, two to
a day. The grammar of queries is a parser generator's, so a query is given as what the
grammar makes of it. Numbers of the command line have a width, `MaxUsize`.

The search for the last lines looks at one byte at a time, as the loop of
`seek_to_last_lines` does. The pieces it gets come from a library's reader and have any
length; the reader's buffer, and with it the cursor of the file, may reach any distance
further back. The file may grow while it is searched, but is not truncated.

## 3. Runs

| Run | Asks | Bounds |
|---|---|---|
| `Everything` | types; tasks, groups and pools agree; nothing runs unasked after a restart | every request, saves and spawns may fail, SIGSTOP by users, limits 0 and 1, a second group, 3 requests, 1 restart; 1.0 million states |
| `Requests` | status and process agree; refinement of `TaskLifecycle`; a refused request changes nothing | 4 requests, 2 groups, spawns may fail; 0.5 million |
| `Scheduling` | limits hold; startable tasks start; tasks behind a failed one end | 4 requests, priorities 0 and 1, delayed tasks, fairness with processes that end; 0.1 million |
| `Dependencies` | reverse index, cycles, removal, edits, switches | 3 tasks, so that chains and a pair with a third task exist; 5 requests; deadlock checked; 0.6 million |
| `Endings` | resets and shutdowns end, with everything saved and nothing started on the way | 4 requests, 2 groups, fairness without assuming that processes end by themselves; 82 thousand |
| `Sessions` | locks have editors; archive mirrors the daemon's rule and loses nothing; waits end in time | two clients with one command each, 2 tasks at the beginning and room for a third, 4 requests; 0.8 million |
| `Starting` | one daemon, reachable, with the secret in the file; starts fail only for a reason; the last save is restored | 2 pids (symmetric) that are used again and again, 2 changes of the state, every setting, failing writes; 1.5 million |
| `Protocol` | refinement of `MessageChannel`; nothing without the secret; cut off only for a reason; both ends end | packets of 2 units, payloads of 1 and 5, 4 kinds of secret, commands of up to 3 requests; 7.3 thousand |
| `Logs` | nothing skipped, no log older than its task, follows end, output arrives | 2 ids, 2 tasks added, 2 runs of 2 lines, removals and resets, local and remote; 0.6 million |
| `Queries` | answers, tables, id lists, reversals and last lines against reference definitions | 343 lists of 3 tasks, 333 queries, ids up to 7, files of up to 6 bytes that grow by one, 0 to 3 lines; 0.8 million |
| `CompressedLoss`, `FollowHangs` | one disagreement each, see section 5 | as small as shows it |

The runs of the daemon use `MaxTasks` 2 unless stated: two tasks are enough for a
dependency, for a slot that one takes from the other, and for a request of which one id is
accepted and one is not. Three or four requests cover the sequences the properties are
about: add, one request that puts the task in a state, one that acts on it, and one that
interferes, with any number of loop iterations and process steps in between.
`Dependencies` has five: three to add a chain, one that removes, edits or switches a part
of it, and one more on what is left. `Sessions` begins with two tasks, one dependent on
the other, so that its requests are left for the sessions. In `Starting` two pids are
enough, as each is used by any number of daemons, one after the other, so that a daemon
meets the wrecks of many others: a third process at the same time would be starting beside
a start (`overlapped`), or be one more that is ending. A second change lets a save be
newer than the one before it. In `Protocol` a payload of 5 units takes three reads and the
last one is short. In `Logs` two runs of a task share a file or not, depending on what
happened to the file; the second id is the one a follow does not look at. Widths in
`Queries` are small so that the boundary is within reach.

Every run but `Dependencies` says `CHECK_DEADLOCK FALSE`: the daemon may exit, or panic,
for good; commands and connections end. In `Dependencies` nothing ends the daemon, and
the loop can always go on.

Why runs leave requests out:

- `Requests` has no edits (a refused `edit_request` leaves tasks locked, see below), no
  `restart --immediate` (starts what it refuses), no shutdown and no failing saves (a
  failed save is answered with a failure after the change). It has no restart, since a
  new daemon begins a new `TaskLifecycle`, and no stop signals by users, which
  `ProcessMatchesStatus` says.
- `Scheduling` has neither force-starts nor `parallel`: both exceed the limit on purpose.
- `Dependencies` edits one task at a time, switches independent tasks, gives no id out
  again that a list still names, and has no reset and no start by id: section 5 says why.
- `Endings` has no force-starts, failing saves or `pause_group_on_failure`, for the same
  reason, and no crash.
- `Sessions` lets no user change what stands for the content (`EditsContent`): an edit
  between the copy and the removal of an archive is lost.

The properties of `Startup` say "unless two daemons were started at the same time"
(`overlapped`): `pid.rs` checks and creates its file in two steps, and the properties do
not hold when another start falls in between. `overlapped` also says that a daemon was
started beside one in its panic hook: the hook removes the pid file first, so that the
new daemon may come up, and then whatever socket is there, which may be the new one's. No
property says anything once starts have overlapped, so the constraint `Apart` of the run
leaves those states out. The constraint `StillAtWork` of `Logs` does the same after a log
was printed or a follow has ended, as neither reads a file again.

### Fairness

- Daemon: `WF(TaskHandlerStep)`, as the loop of `task_handler.rs` never ends and the mutex
  is released between iterations; `WF(StartStep)`, as a handler that holds the mutex runs
  to its end; `WF(KilledProcessExit)`, as a process that was sent SIGKILL dies;
  `WF(ProcessExit)`, in `FairProcessesSpec` only: commands that end by themselves. Resets
  and shutdowns do not need the last one.
- `Connection`: `WF` of the client, of the handler, of the stream in each direction, and of
  the exit of the daemon once a shutdown was asked for. Each is a task or process of its
  own that is woken when it can go on.
- `TaskLogs`: `WF` of the follower's loop and of the reader, which sleep for a fixed time,
  of messages on their way, and of the handler that holds the mutex while it cleans logs.

Clients, users, crashes, and the tasks of `TaskLogs` have no fairness. Nothing is assumed
about the order in which tokio's mutex is granted beyond these.

### The properties

Each is described where it is stated, in `DaemonProperties` for the daemon and at the end
of the other modules. Every property of a passing run has a mutant in `PROJECT.json`: a
definition of the model changed as a bug would change the code, which violates the
property in that run. The mutated definitions stand beside the original ones and are
marked `Mutant of`.

Two abstract specifications are shown to be implemented. `TaskLifecycle`: a task is absent,
waiting, active or done; it is launched from waiting only, finished from active only, put
back or discarded from done or waiting, and it is active exactly while it has a process
(`ImplementsLifecycle`, which maps statuses to phases and the pools to the set of
processes). `MessageChannel`: each end receives the messages of the other, whole, each at
most once and in their order (`ExchangesMessages`).

## 4. Proofs

A theorem holds for every value of the constants that the module's own assumptions, and
the assumption named in the theorem, allow. Each proof has an inductive invariant, checked
by TLC on the run of the component before it was proved, and one lemma for each action.

**Types.** `DaemonProofs!TypeCorrect` proves `Spec => []TypeOK` for every number of tasks,
groups, requests and restarts. `TypeOK` is inductive as it stands. It is split into
`StateType`, what handlers save, and `ControlType`, so that one lemma for each way of
ending a handler (`SaveOrShutdownType`, `SaveOrFailureType`) serves all of them.

**Tasks, groups and pools.** `DaemonProofs!Synchronization` proves
`Spec => []Synchronized`, and four theorems give its parts: `ChildrenHaveTasks`,
`OneChildPerTask`, `ActiveTasksHaveChildren`, `PoolsMatchGroups`. The argument:

- The invariant is stated as a predicate `InStep(ts, gs, c)` of what a handler leaves,
  over pools instead of slots; `InStepIsSynchronized` shows that it is the same.
- It is not inductive alone. `Restart` takes tasks and groups from the file, so
  `SyncInv` adds that the tasks of the file are in the groups of the file. Types are
  needed because updates of a record are only known for records.
- The four parts need each other: finishing tasks keeps `ActiveTasksHaveChildren` because
  no child is shared; a start keeps `OneChildPerTask` because a task that has a child is
  active and spawn takes none that is; a reset and the removal of a group lose no child
  because children are in the pool of their task's group.
- Most requests follow from two facts: signals leave every child in its pool
  (`SameChildrenInStep`), and a change within the active tasks or within the others
  leaves the invariant alone (`SameActiveInStep`).

**Children.** The second half of `LifecycleProofs` rests on `SyncInv`:

- `LimitsHold`: `WorkersWithinLimit`, if clients send neither `start` by id, nor
  an immediate start, nor `parallel` (`NoForcing`). Every step but spawn leaves a group its
  limit and at most its workers (`Shrinks`); spawn adds one worker to a pool with a free
  slot.
- `StatusTellsProcess`: `ProcessMatchesStatus`, if users send no SIGSTOP or
  SIGCONT (`NoForeignSignals`). Pause, continue and spawn change status and process
  together. Of every other step it is enough to show that it makes no task active and stops
  or continues no child, since by `SyncInv` a task that has a child after the step is
  active then, and so kept its status.
- `ShutdownStartsNothing`: `NoSpawnDuringShutdown`, if saves work and clients force no
  start. Both are needed: a save that fails in the middle of an iteration begins a
  shutdown, and the spawn loop of that iteration goes on (section 5); and a forced
  start does not look at `shutdown` at all. The invariant says that once a
  shutdown has begun the loop is between two iterations or at its end.

**The life of a task.** In its first half, `LifecycleBetweenStarts` proves
`Spec => Lifecycle!Init /\ [][~Restart => [Lifecycle!Next]_lvars]_vars`: every step that
is not a new daemon is a step of `TaskLifecycle`, or a stutter, for every request and
every failure. Each handler is shown to be one abstract move of a set of tasks, from its
effect on `IsActive` and on the pools; that no launch is of a task that has a process, and
none ends without its task, is `SyncInv` again. `Implementation` is
`Spec => ImplementsLifecycle` as the run checks it, for a daemon that is not started again
(`MaxRestarts = 0`): a new daemon finds tasks that the file has as they were some time
ago, which is no step of the abstract specification. What a start keeps is
`ProcessesAlwaysActive`, the abstract invariant, which holds without an assumption.

In the same module:

- `FailuresChangeNothing`: `FailureChangesNothing`, if saves work and clients send neither
  edit requests nor immediate restarts (`NoPartialRequests`), which do part of their
  work before they fail. The invariant adds that a start of several ids goes on only
  while its answer is a success.
- `NothingRunsAfterRestart`: `NothingRunsUnasked`, if no task is ever
  delayed. Until the first answer after a restart the pools are empty and every group with
  a queued task is paused (`Quiet`). Every step of the task handler keeps that: nothing
  finishes, a reset lets groups run that were not paused, and `SpawnNew` finds nothing. A
  delayed task would be queued in a group that runs, so the invariant also says that
  neither memory nor file has one (`NoDelay`).
- `ExitsClean`: `CleanExitOnDisk`, if saves do not fail. The file may be behind,
  but a task that is active in it has a child (`Recorded`): a step either saves, and then
  `SyncInv` gives the children, or leaves all children where they are. The daemon exits
  only without children.

**Dependencies.** `DependencyProofs` treats a handler by what it does to the two lists of
each task. There are four kinds: it leaves them alone, drops tasks, adds or edits one, or
switches two; everything is proved once for each kind. The state file is part of each
invariant, as `Restart` takes the lists from there.

- `IndexAlwaysRight` and `SwitchAlwaysRenames`: `DependentsIndexed` and `SwitchRenames`, if
  no id is given out again that a list still names and no task is switched with one
  it depends on (`NoIdConfusion`). Without either the index really is wrong (section 5).
  The invariant says for tasks that exist that one lists the other as a dependency exactly
  when that one lists it as a dependent.
- `NeverCircular`: `NoCircularDependencies`, if moreover an edit request names one task
  (`OneEditAtATime`). A cycle would need induction over paths; instead the proof uses that
  what a task reaches is the smallest set that is closed under dependencies: to show
  that `j` is not reachable from `i` it is enough to name a closed set that has `i`'s
  dependencies and not `j`. An edit that passes the check for cycles leaves such a set
  for every task, and a switch maps the sets.
- `DependenciesAreKept`: `UnfinishedDependencyKept`, if moreover no group is reset and
  every change of the lists is saved (`AllSaved`). A set of tasks that may be removed
  together is closed under unfinished dependents by the index.

**Client sessions.** `SessionProofs` proves about `SessionSpec`, for any number of clients:

- `LocksAlwaysHaveEditors`: `LocksHaveEditors`. Whatever a handler does, a task becomes
  locked in the first request of an edit alone, whose client keeps its id until it
  unlocks or gives up.
- `WaitsEndInTime`: `WaitEndsInTime`. The client puts tasks aside at the poll that saw them
  reach their target; the invariant says that nothing else is put aside, so the poll
  decides as one that looks at all of them would (`PollDecides`).
- `ArchiveKeepsContent`: `ArchiveLosesNothing`, if users change no content between the
  copy and the removal (not `EditsContent`), which the code does not prevent (section 5).
  A session knows of a task it has copied that a later copy is in the archive while the
  task exists. That must stay so when others add tasks, so no id may be given out twice:
  what archive removes has a later copy, hence the largest id always stays, and that there
  is a largest one follows from well-foundedness (`LargestId`).
- `ArchiveAlwaysMirrors`: `ArchiveMirrorsRemove`, if the lists are right to begin with
  (`InitialLists`). As no id is given out twice, the reverse index stays right; then the
  search of the client among dependencies and that of the daemon among dependents find the
  same tasks.

**One daemon.** `StartupProofs` proves the types of `Startup`, `OneDaemon`,
`ServingReachable` and `ClientsAuthorised` for any number of daemons, changes, crashes and
reused pids. None is inductive. `StartInv` adds, unless starts overlapped: whoever has the
state has its pid in the pid file; whoever creates that file is alone with it; a daemon
that panics before it listens, and would remove the socket of anybody, is alone too; one
daemon at most listens on the socket, and the socket file is its own until it goes; a
listening daemon knows the secret in the file, because secrets are written only by a start
that saw none and every later step of a start has seen one. A step of one process changes
its own place only, so most steps follow from one lemma (`Advance`) that asks of the new
place what the old one had. Two action properties rest on it:

- `StartsFailForReason`: `FailsOnlyForReason`. `WreckInv` says of each file that is only
  partly there that the process which is writing it exists, was lost at that step or
  failed in it, that
  no pid file names a process before it wrote it, and that the partial file and the socket
  of a start stay as the start left them, since whoever could take them away has gone.
- `LastSaveIsRestored`: `RestoresLastSave`, for compressed states too. `SavedInv` says,
  unless starts overlapped or the end of compressed data could not be written, that nobody
  has the file under its final name open, and that what is about to be renamed is the
  whole state of who renames it.

**The connection.** `ConnectionProofs` holds for every size of packets and messages, every
command and every way the stream cuts what is written.

- `Authorisation`: `OnlyAuthorised`. `SecrecyInv` adds the types to it, and says that no
  unit of the right secret is anywhere between a client without it and the daemon: not in
  what it has still to write, not on the wire, not in the message being received; so the
  daemon is never past the comparison.
- `MessagesAreKept`: `ExchangesMessages`, the refinement of `MessageChannel`. `FramesInv`
  says of each direction that what has been received of the current message, what is on
  the wire and what is unsent are together the frames of the messages sent and not yet
  taken, in their order. So a message is taken only when it was sent, whole.
- `CutOffOnlyForReason`: `CutOffForReason`. `ReasonInv` relates the places of the two
  processes: who waits for an answer has a request under way, which the other one has
  not read, is working on or has answered. So an end that closes has a reason, or the
  other one has all its messages to read first.
- `NobodyWaitsForever`: until both ends are over, one of them has a step of its own to
  take (`SomebodyMoves`), or both wait over a follow whose log file was gone
  (`HungFollow`, the hang that `FollowHangs` shows; `ConnectionsEnd` names it as well).
  `TurnInv` says whose turn it is in every conversation, with the right secret or a wrong
  one; `WordsInv` that what follows the secret are requests, so that every one that
  reaches the daemon has a handler. An end that waits for a message has it, some of it, or
  the end of the stream to read, or the other one is at work.
- `StepsRunOut`: `StepsLeft` is a natural number and every step makes it smaller, by
  whichever process. A message is paid for by the connection or by the request it belongs
  to: three for each unit that is to be written, moved and read. A follow counts
  because `MaxChunks` bounds its portions.

The last two are what `ConnectionsEnd` needs besides fairness: an execution has finitely
many steps, and where it stops without being over, a step of an end was possible, or it is
that hang.

**Logs.** `TaskLogProofs` holds for every number of tasks, runs, lines and messages.

- `LogsNeverOlder`: `LogNotOlder`. Runs are numbered in the order they begin. `Least` is the
  oldest run that a reader may see of a task: the copied one or, of a task that had not
  started, the first one after the copy. No file that has a name is older than that, as a
  task that has not run has no file, or one whose removal is under way or that a reset left
  behind (`leftovers`), which are excepted by name.
- `StreamsAreWhole`: `NothingSkipped`. `StreamInv` says that what the viewer has, followed
  by what is on its way to it, is the part of the open file from the start of the follow
  to its cursor, until a later run truncates the file. Each message is a sequence of
  lines, and the text on its way is their concatenation. Lemmas about `FlattenSeq` say what
  it is after a message is appended or taken; they are inductions over the
  length of the channel, done with the least number for which the statement fails, as
  induction theorems with an operator parameter are out of the provers' reach.

**What the client computes.** `QueryProofs` holds for every list of tasks with ascending
ids, every query, list of ids and file, and numbers of any width. The names of groups and
columns, and the few strings that labels and commands are ordered by, are those of the
module. An order is stated without recursion: an element's place in `Arranged` is one more
than the number of elements before it. `ArrangedIs` proves by counting that this is a
bijection which keeps the order; the rest of the module cites it.

- `StatusAlwaysAnswers`: `StatusAnswersQuery`. The invariant says of each step what the
  list holds: the tasks of the group, those that match as well, a permutation of them in
  order, one end of it. `MatchesAsDocumented` shows that the code's comparisons are those
  of the help, but for the filters named `Odd`. In a table, header and row select the same
  columns by the same `Ascending`, so a text stands under its column's name.
- `IdListsAlwaysAsWritten`: `IdListsAsWritten`. Unless the step after the end overflows, the
  first id beyond the end is the one that ends the loop, and no sum before it wraps
  (`RangeAsWritten`). Ids are distinct, so each is in one pair of a reversal at most.
- `LastLinesAlwaysExact`: `LastLinesExact`. `LogInv` says of every step of the search that
  the newlines found are those of the file behind the place that was reached, that these
  are no more than the lines asked for, that the piece in hand ends right before that
  place, and that the bytes which were there when the search began are still what they
  were.

The proofs assume what the modules assume of their constants, by name: bounds are natural
numbers, the default group is one of the initial groups, `Nobody` is no daemon, packets
have a size, programs are sequences of requests, settings are in their domains, the
tasks sessions begin with are well typed and in groups that exist, and queries are those
the grammar accepts. TLC evaluates the
assumptions in every run.

Only model-checked: liveness (`StartableTasksStart`, `FailedDependenciesEnd`,
`ResetsComplete`, `ShutdownCompletes`, `ConnectionsEnd`, `FollowsEnd`, `OutputArrives`),
because fairness and ENABLED are out of the prover's reach. Of `ConnectionsEnd` only the
passage from a step that is possible to one that is taken is left to TLC.

## 5. Where code and documents disagree

Each of these has a run with a counterexample, and an entry with the quoted line in
`PROJECT.json`.

| Run | What happens |
|---|---|
| `CompressedLoss` | a compressed save writes most of its data when the encoder is dropped (`state.rs:279`), where an error, of a full disk for example, is discarded; the torn file is renamed over the good one, the save succeeds, and the next daemon begins with nothing |
| `FollowHangs` | when the log file goes away the daemon ends a followed stream with an answer that `remote_follow` does not take for an end; client and handler wait for each other |

Seen while modelling, and modelled as the code has it, without a run of their own. In the
daemon:

- A task that fails by itself during a reset sets the group to Paused
  (`pause_group_on_failure`) and the reset is forgotten (`state.rs:246`, against
  `pueue_lib/src/state.rs:17-18`).
- A start request during a shutdown starts a process (`spawn.rs:112`, against
  `process_handler/mod.rs:40`), and the spawn loop goes on after a failed save began an
  emergency shutdown (`spawn.rs:236`).
- A start that names a queued and a locked task starts the locked one too
  (`spawn.rs:129`, against `task.rs:12`). It answers with success for stashed tasks and
  does not start them (`start.rs`, `spawn.rs:121`).
- A reset removes tasks which tasks of other groups wait for; those then start
  (`task_handler.rs:115`, against `cli.rs:70`). It leaves the removed ids in the lists of
  other tasks.
- The id of a removed last task is given out again (`state.rs:85`), also when a task that
  is done still lists it. After a restart in place that task waits for a stranger, which
  does not list it as a dependent although `task.rs:66` calls that list the reverse
  dependency index; an edit or a switch in between can close a cycle.
- A pause of a running task and a missing one ends the daemon (`pause.rs:48`, against
  `response_helper.rs:25`).
- A switch of a task with its dependent makes the dependent depend on itself
  (`switch.rs:103`), and two edits in one request make a cycle that each alone would not
  (`edit.rs:143`, against `tests/client/integration/edit.rs:406`).
- A refused `edit_request` leaves the tasks before the refused one locked
  (`edit.rs:71-78`), and a refused `restart --immediate` starts what may be started
  (`restart.rs:40-58`).
- A kill of everything pauses every group when one of them has queued tasks
  (`kill.rs:68`).
- enqueue, stash, restart, parallel, edit_request and edit_restore do not save, so a
  crash takes their acknowledged change back. Processes outlive a crashed daemon.
- A compressed save that was interrupted leaves a `.partial` file which later saves open
  read-only (`state.rs:271`); `FailsOnlyForReason` counts it as a reason.
- A daemon that gets the pid which a stale pid file names refuses to start, as it finds
  itself running (`pid.rs:24`, against `pid.rs:37-38`); that is common in containers.
  `FailsOnlyForReason` counts it as a reason.
- A reset removes the log files of those tasks only that end while it goes on; those of
  queued tasks and of tasks that ended before it stay (`task_handler.rs:115`). A later task
  with such an id that never starts, as its dependency failed, is shown with the earlier
  one's log (`LogNotOlder` excepts it by name).
- Delayed tasks run after a restart without being asked for, unlike queued ones.
- `send` writes to a child's stdin with a blocking `write_all` while it holds the mutex;
  the comment at `send.rs:8-9` is about another design.

In the client and its sessions:

- A task that is locked in an editor can be removed, archived, enqueued, stashed, started
  and switched, although `edit.rs:20-21` says it is prevented. The edit of a task that was
  switched meanwhile puts the task back. Refused edits, and entries deleted from the toml
  file, leave tasks locked.
- An edit between archive's copies and its removal is lost. The removal asks for a second
  confirmation, after the copies were made. copy and restart stop midway when one of their
  requests is refused.
- wait for Running or Queued does not count Paused, although `wait.rs:147` says that later
  stati qualify; a reused id is taken for the task that had it before.
- Output written between the last read of a followed log and the check of its status is
  not shown when the task ends in that moment. A follow across a restart in place misses
  lines before its cursor. `pueue log` over the daemon fails as a whole when one of the
  tasks has no log file (`log.rs:35-38`), although printing skips such tasks.
- In queries, a date filter with `!=` is never true (`filters.rs:172`) and midnight belongs
  to no day, an order by dependencies compares everything as less (`mod.rs:124`), and
  a filter on `enqueue_at` knows only stashed tasks although the order uses it for queued
  ones too.
- The step of an id range may overflow: the parser then goes on for ever in a release build
  (`task_ids_parser.rs:113`). `ParsesAsWritten` leaves these ranges out, by name.
- `--lines 0`, and a last line without its newline, mean different things to the two
  functions that find the last lines. `seek_to_last_lines` counts newlines: it shows a last
  line that has none in addition to the number asked for, although its result is said to
  tell whether there were fewer lines than that (`log.rs:133`). With `--lines 0` and a
  newline at the end it seeks nothing and shows whatever the reader had buffered.

## 6. Not modelled

- Callbacks: commands that are started with the data of a finished task; nothing in the
  daemon depends on how they end.
- Settings, aliases, the command line: deserialisation, textual replacement, declarations.
  The settings that steer the daemon and the clients are constants of the models.
- Display: colours, headings, JSON, wording.
- TLS and compression, which are libraries, and the Windows service and process control,
  which are glue to another platform.
- `env` and `send`: they touch a task's environment and a child's input, which no property
  tells apart. The text of commands, labels, paths and environments, for the same reason.
- Failing writes of the pid file, the certificates and the secret; a log file that is
  truncated by a restart while its last lines are searched.
- Children of a process: a process group is one process. `restart` with an editor is a
  restart of changed tasks; `export` writes the state it has read.

## 7. What could follow

1. Processes of an earlier daemon: orphans after a crash, two processes for one task.
