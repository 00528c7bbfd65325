------------------------------ MODULE Startup ------------------------------
(***************************************************************************)
(* Several pueued processes of one user, one after the other or at the     *)
(* same time, over the files they share: certificates, secret, pid file,   *)
(* state file and socket. Each process may crash between any two steps,    *)
(* writes of the state may fail, and pids are given out again, to other    *)
(* programs and to later daemons.                                          *)
(*   pueue/src/daemon/mod.rs (run), pid.rs, network/certificate.rs,        *)
(*   network/socket/unix.rs, internal_state/state.rs (save, restore_state),*)
(*   pueue_lib/src/secret.rs                                               *)
(***************************************************************************)
EXTENDS Naturals, FiniteSets

CONSTANTS Daemons,       \* pids that daemons get, one after the other
          MaxChanges,    \* bound on the changes of the state
          Compression,   \* values of compress_state_file
          UnixSockets,   \* values of use_unix_socket
          DiskFails,     \* whether writes of the state may fail
          Nobody         \* no process

ASSUME ChangesAssumption == MaxChanges \in Nat
ASSUME SettingsAssumption ==
    Compression \subseteq BOOLEAN /\ UnixSockets \subseteq BOOLEAN /\ DiskFails \in BOOLEAN
ASSUME NobodyAssumption == Nobody \notin Daemons

VARIABLES
    config,     \* the settings all of them read
    pc,         \* where the process with each pid is
    certs,      \* certificate and key: "none", "broken" (some missing), "whole"
    secret,     \* the secret file: who wrote it, Nobody when empty
    pidFile,    \* pid in it, Nobody when empty; who has it open
    real,       \* state.json: version in it, Torn when unreadable
    partial,    \* state.json.partial
    socket,     \* who bound the socket file
    running,    \* processes whose task handler has begun its loop
    listening,  \* processes that accept connections, on the socket or the port
    memory,     \* version of the state each process has
    known,      \* secret each process took from the file
    foreign,    \* pids that other programs have
    clock,      \* newest version of the state
    saved,      \* history: version of the last save that returned Ok
    overlapped, \* history: a start beside one that was starting or in its panic hook
    wounds,     \* history: the fragile steps at which processes crashed
    faults      \* history: the steps at which a write of the state failed

files == << certs, secret, pidFile, socket >>
stateFiles == << real, partial >>
history == << saved, overlapped, wounds, faults >>
process == << running, listening, memory, known >>
vars == << config, pc, files, stateFiles, process, foreign, clock, history >>

Torn == 0
Empty == 1     \* version of InternalState::new
Versions == Empty .. (MaxChanges + 1)

Missing == [there |-> FALSE, content |-> Torn, open |-> {}]
NoPidFile == [there |-> FALSE, content |-> Nobody, open |-> {}]

Early == {"Certificates", "Key", "Secret", "SecretWrite", "PidCheck", "PidOpen", "PidCreate",
          "PidWrite", "Restore"}
Saving == {"SaveOpen", "SaveWrite", "SaveFinish", "Rename"}
Binding == {"FirstTick", "Ticking", "SocketCheck", "SocketConnect", "SocketRemove", "SocketBind",
            "SocketListen", "ReadSecret"}
PanicHook == {"PanicPid", "PanicSocket"}
ShuttingDown == {"ShutdownSocket", "ShutdownPid"}
\* Steps at which a file exists that is not complete.
Fragile == {"Key", "SecretWrite", "PidWrite", "SaveWrite", "SaveFinish", "Rename"}
Dead == {"Idle", "Failed"}

\* Whether process p already accepts connections: its saves are those of a request or tick.
IsUp(p) == p \in listening
IsStarting(p) == pc[p] \in Early \cup Saving \cup Binding /\ ~IsUp(p)

\* process_exists, for any program with that pid.
ProcessExists(pid) == pid \in Daemons /\ (pc[pid] \notin Dead \/ pid \in foreign)

Step(p, from, to) == pc[p] = from /\ pc' = [pc EXCEPT ![p] = to]

\* Of the process with pid p nothing is left in memory.
Forget(p) ==
    /\ running' = running \ {p}
    /\ listening' = listening \ {p}
    /\ memory' = [memory EXCEPT ![p] = Empty]
    /\ known' = [known EXCEPT ![p] = Nobody]

-----------------------------------------------------------------------------
(* Certificates, secret, pid file *)

\* A new process may get the pid of a daemon that is gone.
Start(p) ==
    /\ pc[p] \in Dead /\ p \notin foreign
    /\ pc' = [pc EXCEPT ![p] = "Certificates"]
    /\ overlapped' = (overlapped \/ \E q \in Daemons : IsStarting(q) \/ pc[q] \in PanicHook)
    /\ Forget(p)
    /\ UNCHANGED << config, files, stateFiles, foreign, clock, saved, wounds, faults >>

\* The certificate is written before the key; neither is written again if one exists.
CreateCertificates(p) ==
    /\ \/ certs = "none" /\ Step(p, "Certificates", "Key") /\ certs' = "broken"
       \/ certs # "none" /\ Step(p, "Certificates", "Secret") /\ UNCHANGED certs
       \/ Step(p, "Key", "Secret") /\ certs' = "whole"
    /\ UNCHANGED << config, secret, pidFile, socket, stateFiles, process, foreign, clock, history >>

\* Mutant of SecretExists: every daemon makes a new secret.
SecretIsMine == FALSE

SecretExists == secret.there

InitSharedSecret(p) ==
    /\ \/ SecretExists /\ Step(p, "Secret", "PidCheck") /\ UNCHANGED secret
       \/ /\ ~SecretExists
          /\ Step(p, "Secret", "SecretWrite")
          /\ secret' = [there |-> TRUE, content |-> Nobody]
       \/ Step(p, "SecretWrite", "PidCheck") /\ secret' = [there |-> TRUE, content |-> p]
    /\ UNCHANGED << config, certs, pidFile, socket, stateFiles, process, foreign, clock, history >>

\* Mutants of PidFileAllows: an existing file is overwritten; an existing file is final.
PidFileIgnored == TRUE
PidFileFinal == FALSE

\* check_for_running_daemon: it cannot parse an empty file, and a stale pid that is its own
\* now is that of a running process, too.
PidFileAllows ==
    pidFile.there /\ pidFile.content # Nobody /\ ~ProcessExists(pidFile.content)

\* The file may go away after it was seen, and is truncated whoever made it by then.
CreatePidFile(p) ==
    /\ \/ Step(p, "PidCheck", IF pidFile.there THEN "PidOpen" ELSE "PidCreate") /\ UNCHANGED pidFile
       \/ Step(p, "PidOpen", IF PidFileAllows THEN "PidCreate" ELSE "Failed") /\ UNCHANGED pidFile
       \/ /\ Step(p, "PidCreate", "PidWrite")
          /\ pidFile' = [there |-> TRUE, content |-> Nobody, open |-> pidFile.open \cup {p}]
       \/ /\ Step(p, "PidWrite", "Restore")
          /\ pidFile' = IF p \in pidFile.open
                        THEN [pidFile EXCEPT !.content = p, !.open = @ \ {p}]
                        ELSE pidFile
    /\ UNCHANGED << config, certs, secret, socket, stateFiles, process, foreign, clock, history >>

-----------------------------------------------------------------------------
(* The state file *)

\* Without a file, or when it cannot be read, the daemon begins with a clean state.
Restored(file) == IF file.there /\ file.content # Torn THEN file.content ELSE Empty

RestoreState(p) ==
    /\ Step(p, "Restore", "SaveOpen")
    /\ memory' = [memory EXCEPT ![p] = Restored(real)]
    /\ UNCHANGED << config, files, stateFiles, running, listening, known, foreign, clock, history >>

\* Where a save leads: the one before the loops begin, those of the first iteration, and
\* the others.
AfterSave(p) ==
    IF p \notin running THEN "FirstTick" ELSE IF IsUp(p) THEN "Serving" ELSE "Ticking"

\* A failed save ends a start that has not come to its loops. Later it fails a request or
\* asks for the shutdown, which the loop gets to in its next iteration.
SaveFails(p) == pc' = [pc EXCEPT ![p] = IF p \in running THEN AfterSave(p) ELSE "Failed"]

Written(file, p, version) ==
    IF p \in file.open THEN [file EXCEPT !.content = version] ELSE file

Closed(file, p) == [file EXCEPT !.open = @ \ {p}]

\* The data goes to the file that was opened, wherever it is by now, and the file is closed.
WriteAndClose(p, version) ==
    /\ partial' = Closed(Written(partial, p, version), p)
    /\ real' = Closed(Written(real, p, version), p)

\* An existing partial file is opened read-only if compressed, so that its first write
\* fails, and truncated if not.
SaveOpen(p) ==
    /\ pc[p] = "SaveOpen"
    /\ IF config.compress /\ partial.there
       THEN SaveFails(p) /\ UNCHANGED partial
       ELSE /\ pc' = [pc EXCEPT ![p] = "SaveWrite"]
            /\ partial' = [there |-> TRUE, content |-> Torn, open |-> partial.open \cup {p}]
    /\ UNCHANGED << config, files, real, process, foreign, clock, history >>

\* The end of compressed data stays in the encoder.
SaveWrite(p) ==
    /\ \/ /\ Step(p, "SaveWrite", IF config.compress THEN "SaveFinish" ELSE "Rename")
          /\ IF config.compress THEN UNCHANGED stateFiles ELSE WriteAndClose(p, memory[p])
          /\ UNCHANGED faults
       \/ /\ DiskFails
          /\ pc[p] = "SaveWrite" /\ SaveFails(p)
          /\ WriteAndClose(p, Torn)
          /\ faults' = faults \cup {"SaveWrite"}
    /\ UNCHANGED << config, files, process, foreign, clock, saved, overlapped, wounds >>

\* Mutant of FinishEncoder: the encoder is dropped after the rename.
FinishEncoderLate(p) ==
    /\ Step(p, "SaveFinish", "Rename")
    /\ WriteAndClose(p, Torn)
    /\ UNCHANGED << config, files, process, foreign, clock, history >>

\* The encoder is dropped at the end of its block and writes what it has left; nobody
\* hears of it when that fails.
FinishEncoder(p) ==
    /\ Step(p, "SaveFinish", "Rename")
    /\ \/ WriteAndClose(p, memory[p]) /\ UNCHANGED faults
       \/ /\ DiskFails
          /\ WriteAndClose(p, Torn)
          /\ faults' = faults \cup {"SaveFinish"}
    /\ UNCHANGED << config, files, process, foreign, clock, saved, overlapped, wounds >>

Rename(p) ==
    /\ pc[p] = "Rename"
    /\ IF partial.there
       THEN /\ real' = partial
            /\ partial' = Missing
            /\ pc' = [pc EXCEPT ![p] = AfterSave(p)]
            /\ saved' = memory[p]
       ELSE SaveFails(p) /\ UNCHANGED << stateFiles, saved >>
    /\ UNCHANGED << config, files, process, foreign, clock, overlapped, wounds, faults >>

\* A request or an iteration of the task handler saves the state, changed or not.
Change(p) ==
    /\ pc[p] \in {"Ticking", "Serving"}
    /\ pc' = [pc EXCEPT ![p] = "SaveOpen"]
    /\ \/ /\ clock <= MaxChanges
          /\ clock' = clock + 1
          /\ memory' = [memory EXCEPT ![p] = clock + 1]
       \/ UNCHANGED << clock, memory >>
    /\ UNCHANGED << config, files, stateFiles, running, listening, known, foreign, history >>

-----------------------------------------------------------------------------
(* The listener *)

\* try_join! polls the task handler first: one whole iteration, which may start delayed and
\* queued tasks and save the state, runs before get_listener.
FirstTick(p) ==
    /\ \/ Step(p, "FirstTick", "Ticking") /\ running' = running \cup {p}
       \/ Step(p, "Ticking", "SocketCheck") /\ UNCHANGED running
    /\ UNCHANGED << config, files, stateFiles, listening, memory, known, foreign, clock, history >>

\* Mutant of SocketAnswers: an existing socket is always replaced.
SocketIsStale == FALSE

\* Somebody accepts connections on the existing socket.
SocketAnswers == socket \in listening

\* The connection to an existing socket is awaited.
CheckSocket(p) ==
    /\ config.unix
    /\ \/ Step(p, "SocketCheck", IF socket = Nobody THEN "SocketBind" ELSE "SocketConnect")
       \/ Step(p, "SocketConnect", IF SocketAnswers THEN "Failed" ELSE "SocketRemove")
    /\ UNCHANGED << config, files, stateFiles, process, foreign, clock, history >>

RemoveSocket(p) ==
    /\ Step(p, "SocketRemove", IF socket = Nobody THEN "Failed" ELSE "SocketBind")
    /\ socket' = Nobody
    /\ UNCHANGED << config, certs, secret, pidFile, stateFiles, process, foreign, clock, history >>

BindSocket(p) ==
    /\ Step(p, "SocketBind", IF socket = Nobody THEN "SocketListen" ELSE "Failed")
    /\ socket' = IF socket = Nobody THEN p ELSE socket
    /\ UNCHANGED << config, certs, secret, pidFile, stateFiles, process, foreign, clock, history >>

\* set_permissions needs the file; then listen.
Listen(p) ==
    /\ Step(p, "SocketListen", IF socket = Nobody THEN "Failed" ELSE "ReadSecret")
    /\ listening' = IF socket = Nobody THEN listening ELSE listening \cup {p}
    /\ UNCHANGED << config, files, stateFiles, running, memory, known, foreign, clock, history >>

\* Without unix socket: bind the port, then load certificate and key.
BindPort(p) ==
    /\ ~config.unix
    /\ LET ok == listening = {} /\ certs = "whole"
       IN  /\ Step(p, "SocketCheck", IF ok THEN "ReadSecret" ELSE "Failed")
           /\ listening' = IF ok THEN {p} ELSE listening
    /\ UNCHANGED << config, files, stateFiles, running, memory, known, foreign, clock, history >>

ReadSharedSecret(p) ==
    /\ Step(p, "ReadSecret", "Serving")
    /\ known' = [known EXCEPT ![p] = secret.content]
    /\ UNCHANGED << config, files, stateFiles, running, listening, memory, foreign, clock,
                    history >>

-----------------------------------------------------------------------------
(* The end *)

\* An iteration of the loop that finds the shutdown requested and no child left: the first,
\* a later one, or one that runs while the start awaits a connection or an address.
Shutdown(p) ==
    /\ \/ pc[p] \in {"FirstTick", "SocketConnect", "Serving"}
       \/ pc[p] = "SocketCheck" /\ ~config.unix
    /\ pc' = [pc EXCEPT ![p] = "ShutdownSocket"]
    /\ UNCHANGED << config, files, stateFiles, process, foreign, clock, history >>

Panic(p) ==
    /\ Step(p, "Serving", "PanicPid") \/ Step(p, "Ticking", "PanicPid")
    /\ UNCHANGED << config, files, stateFiles, process, foreign, clock, history >>

\* socket_cleanup and cleanup_pid_file in handle_shutdown, and the other way round in the
\* panic hook: whatever is there is removed. The last step ends the process.
Cleanup(p) ==
    /\ \/ Step(p, "ShutdownSocket", "ShutdownPid") /\ UNCHANGED process
       \/ Step(p, "ShutdownPid", "Idle") /\ Forget(p)
       \/ Step(p, "PanicPid", "PanicSocket") /\ UNCHANGED process
       \/ Step(p, "PanicSocket", "Idle") /\ Forget(p)
    /\ pidFile' = IF pc[p] \in {"ShutdownPid", "PanicPid"} THEN NoPidFile ELSE pidFile
    /\ socket' = IF config.unix /\ pc[p] \in {"ShutdownSocket", "PanicSocket"}
                 THEN Nobody
                 ELSE socket
    /\ UNCHANGED << config, certs, secret, stateFiles, foreign, clock, history >>

\* SIGKILL or the like; the operating system closes what was open.
Crash(p) ==
    /\ pc[p] \notin Dead
    /\ pc' = [pc EXCEPT ![p] = "Idle"]
    /\ wounds' = wounds \cup ({pc[p]} \cap Fragile)
    /\ pidFile' = Closed(pidFile, p)
    /\ real' = Closed(real, p)
    /\ partial' = Closed(partial, p)
    /\ Forget(p)
    /\ UNCHANGED << config, certs, secret, socket, foreign, clock, saved, overlapped, faults >>

\* A pid that no daemon has is given to another program, or given back by it.
ReusePid(p) ==
    /\ pc[p] \in Dead
    /\ foreign' = IF p \in foreign THEN foreign \ {p} ELSE foreign \cup {p}
    /\ UNCHANGED << config, pc, files, stateFiles, process, clock, history >>

-----------------------------------------------------------------------------
Init ==
    /\ config \in [compress : Compression, unix : UnixSockets]
    /\ pc = [p \in Daemons |-> "Idle"]
    /\ certs = "none"
    /\ secret = [there |-> FALSE, content |-> Nobody]
    /\ pidFile = NoPidFile
    /\ real = Missing
    /\ partial = Missing
    /\ socket = Nobody
    /\ running = {}
    /\ listening = {}
    /\ memory = [p \in Daemons |-> Empty]
    /\ known = [p \in Daemons |-> Nobody]
    /\ foreign = {}
    /\ clock = Empty
    /\ saved = Torn
    /\ overlapped = FALSE
    /\ wounds = {}
    /\ faults = {}

Run(p) ==
    \/ Start(p) \/ CreateCertificates(p) \/ InitSharedSecret(p) \/ CreatePidFile(p)
    \/ RestoreState(p) \/ SaveOpen(p) \/ SaveWrite(p) \/ Rename(p) \/ FinishEncoder(p)
    \/ FirstTick(p) \/ CheckSocket(p) \/ RemoveSocket(p) \/ BindSocket(p) \/ Listen(p)
    \/ BindPort(p) \/ ReadSharedSecret(p)
    \/ Change(p) \/ Shutdown(p) \/ Panic(p) \/ Cleanup(p)

Next == \E p \in Daemons : Run(p) \/ Crash(p) \/ ReusePid(p)

Spec == Init /\ [][Next]_vars

-----------------------------------------------------------------------------
(* Properties *)

StateFile == [there : BOOLEAN, content : {Torn} \cup Versions, open : SUBSET Daemons]

Stage == Early \cup Saving \cup Binding \cup PanicHook \cup ShuttingDown \cup Dead \cup {"Serving"}

TypeOK ==
    /\ config \in [compress : Compression, unix : UnixSockets]
    /\ pc \in [Daemons -> Stage]
    /\ certs \in {"none", "broken", "whole"}
    /\ secret \in [there : BOOLEAN, content : Daemons \cup {Nobody}]
    /\ pidFile \in [there : BOOLEAN, content : Daemons \cup {Nobody}, open : SUBSET Daemons]
    /\ real \in StateFile
    /\ partial \in StateFile
    /\ socket \in Daemons \cup {Nobody}
    /\ running \subseteq Daemons
    /\ listening \subseteq Daemons
    /\ memory \in [Daemons -> Versions]
    /\ known \in [Daemons -> Daemons \cup {Nobody}]
    /\ foreign \subseteq Daemons
    /\ clock \in Versions
    /\ saved \in {Torn} \cup Versions
    /\ overlapped \in BOOLEAN
    /\ wounds \subseteq Fragile
    /\ faults \subseteq {"SaveWrite", "SaveFinish"}

\* Processes that have a state in memory and may act on it: restore it, save it, run tasks.
HasState(p) == pc[p] \in {"Restore", "Serving"} \cup Saving \cup Binding

\* Unless two daemons are started at the same time, pid file and socket together see to it
\* that only one has the state in its hands: a second one would save over the first one's
\* file and run its delayed tasks (a tick comes before the check of the socket).
OneDaemon ==
    ~overlapped => \A p, q \in Daemons : HasState(p) /\ HasState(q) => p = q

\* Whatever crashes, panics and second starts came before, the socket file of a daemon that
\* accepts requests is its own: nobody's cleanup removes it.
ServingReachable ==
    ~overlapped /\ config.unix =>
        \A p \in Daemons : pc[p] \in {"ReadSecret", "Serving"} => socket = p

\* Clients read the secret from the file; the daemon compares with what it read when it came
\* up. A start that fails must not have changed it, and only a crash inside
\* init_shared_secret leaves an empty one.
ClientsAuthorised ==
    ~overlapped =>
        \A p \in Daemons :
            pc[p] = "Serving" =>
                /\ known[p] = secret.content
                /\ "SecretWrite" \notin wounds => known[p] # Nobody

\* Crashes between the steps of a start, and failed writes, that leave something behind which
\* a later start cannot cope with: an empty pid file, a certificate without its key, a partial
\* file of a compressed save.
LeavesWreck(stage) ==
    \/ stage = "PidWrite"
    \/ ~config.unix /\ stage = "Key"
    \/ config.compress /\ stage \in {"SaveWrite", "SaveFinish", "Rename"}

\* A file that was seen is gone when it is to be read or removed: a daemon that was ending
\* took it away.
Vanished(p) ==
    \/ pc[p] = "PidOpen" /\ ~pidFile.there
    \/ pc[p] = "SocketRemove" /\ socket = Nobody

\* A start fails only while another process has a pid of a daemon, when the pid in a stale
\* file is its own, when a file vanishes, when its save cannot be written, or after one of
\* those crashes and failed writes. All others are survived: other pid files and sockets they
\* leave, and partial files without compression, are no obstacle.
FailsOnlyForReason ==
    [][\A p \in Daemons :
          ~overlapped /\ pc[p] # "Failed" /\ pc'[p] = "Failed" =>
            \/ \E q \in Daemons \ {p} : ProcessExists(q)
            \/ pc[p] = "PidOpen" /\ pidFile.content = p
            \/ Vanished(p)
            \/ pc[p] = "SaveWrite" /\ "SaveWrite" \in faults'
            \/ \E stage \in wounds : LeavesWreck(stage)
            \/ "SaveWrite" \in faults /\ LeavesWreck("SaveWrite")]_vars

\* What the last completed save wrote is what the next daemon begins with, compressed or not,
\* wherever the one before crashed and whatever could not be written, but for the end of
\* compressed data.
RestoresLastSave ==
    [][\A p \in Daemons :
          RestoreState(p) /\ ~overlapped /\ "SaveFinish" \notin faults => memory'[p] >= saved]_vars

\* save, line 285: "Overwrite the original with the temp file, if everything went fine."
RenamesWholeFile ==
    [][\A p \in Daemons : Rename(p) /\ ~overlapped => partial.content = memory[p]]_vars

=============================================================================
