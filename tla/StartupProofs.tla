---------------------------- MODULE StartupProofs ----------------------------
(***************************************************************************)
(* The safety properties of Startup for any number of daemons, changes,    *)
(* crashes, failing writes and reused pids.                                *)
(*                                                                         *)
(* Unless two daemons were started at the same time, one at most is on its *)
(* way up. It gets past the pid file only when nobody runs whose pid is in *)
(* it, and everybody who has the state has its pid there (OwnersPidFile),  *)
(* so whoever creates a pid file is alone (CreatorAlone) and stays alone.  *)
(* A panicking daemon removes files by name without looking whose they     *)
(* are, and so does one that shuts down before it listens: such a process  *)
(* is alone, too (PanicAlone, EndAlone), and one that panics while another *)
(* starts cannot harm a socket that is not yet bound (SocketOfListener).   *)
(* Secrets are written by a start that sees no file, never after somebody  *)
(* has read one (SecretKnown).                                             *)
(*                                                                         *)
(* What a start may stumble over is then either of a process that still    *)
(* exists or was left by a crash or a failed write (WreckInv); and as      *)
(* nobody else writes to the files of a save, the one that is renamed is   *)
(* complete (SavedInv), but for what the encoder may lose at its end.      *)
(***************************************************************************)
EXTENDS Startup, TLAPS

LEMMA EmptyIsVersion == Empty \in Versions
BY ChangesAssumption DEF Versions, Empty

PidFile == [there : BOOLEAN, content : Daemons \cup {Nobody}, open : SUBSET Daemons]

LEMMA InitType == Init => TypeOK
<1> SUFFICES ASSUME Init PROVE TypeOK
  OBVIOUS
<1>1. Missing \in StateFile
  BY DEF Missing, StateFile
<1>2. NoPidFile \in PidFile
  BY DEF NoPidFile, PidFile
<1>3. secret \in [there : BOOLEAN, content : Daemons \cup {Nobody}]
  BY DEF Init
<1>4. pc \in [Daemons -> Stage]
  BY DEF Init, Stage, Dead
<1> QED
  BY EmptyIsVersion, <1>1, <1>2, <1>3, <1>4 DEF Init, TypeOK, PidFile, Empty, Versions

LEMMA RestoredType == ASSUME NEW file \in StateFile PROVE Restored(file) \in Versions
BY EmptyIsVersion DEF StateFile, Restored

LEMMA WrittenType ==
    ASSUME NEW file \in StateFile, NEW p, NEW version \in {Torn} \cup Versions
    PROVE  Written(file, p, version) \in StateFile
BY DEF Written, StateFile

LEMMA ClosedType ==
    ASSUME NEW file \in StateFile, NEW p
    PROVE  Closed(file, p) \in StateFile
BY DEF Closed, StateFile

LEMMA TypeStep ==
    ASSUME TypeOK, NEW p \in Daemons, Run(p) \/ Crash(p) \/ ReusePid(p)
    PROVE  TypeOK'
<1> USE DEF TypeOK, Stage, Early, Saving, Binding, PanicHook, ShuttingDown, Dead, Step,
            files, stateFiles, process, history
<1>0. Forget(p) =>
          /\ running' \subseteq Daemons /\ listening' \subseteq Daemons
          /\ memory' \in [Daemons -> Versions] /\ known' \in [Daemons -> Daemons \cup {Nobody}]
  BY EmptyIsVersion DEF Forget
<1>1. CASE Start(p)
  BY <1>0, <1>1 DEF Start
<1>2. CASE CreateCertificates(p)
  BY <1>2 DEF CreateCertificates
<1>3. CASE InitSharedSecret(p)
  <2>1. secret' \in [there : BOOLEAN, content : Daemons \cup {Nobody}]
    <3>1. \/ secret' = secret
          \/ \E q \in Daemons \cup {Nobody} : secret' = [there |-> TRUE, content |-> q]
      BY <1>3 DEF InitSharedSecret
    <3>2. \A q \in Daemons \cup {Nobody} :
             [there |-> TRUE, content |-> q]
                 \in [there : BOOLEAN, content : Daemons \cup {Nobody}]
      OBVIOUS
    <3>3. secret \in [there : BOOLEAN, content : Daemons \cup {Nobody}]
      OBVIOUS
    <3> HIDE DEF TypeOK
    <3> QED
      BY <3>1, <3>2, <3>3
  <2> QED
    BY <1>3, <2>1 DEF InitSharedSecret
<1>4. CASE CreatePidFile(p)
  <2>1. pidFile \in PidFile
    BY DEF PidFile
  <2>2. /\ [there |-> TRUE, content |-> Nobody, open |-> pidFile.open \cup {p}] \in PidFile
        /\ [pidFile EXCEPT !.content = p, !.open = @ \ {p}] \in PidFile
    BY <2>1 DEF PidFile
  <2>3. pidFile' \in PidFile
    BY <1>4, <2>1, <2>2 DEF CreatePidFile
  <2> QED
    BY <1>4, <2>3 DEF CreatePidFile, PidFile
<1>5. CASE RestoreState(p)
  <2>1. Restored(real) \in Versions
    BY RestoredType
  <2> QED
    BY <1>5, <2>1 DEF RestoreState, PidFile
<1>6. CASE SaveOpen(p)
  <2>1. partial' \in StateFile
    <3>1. [there |-> TRUE, content |-> Torn, open |-> partial.open \cup {p}] \in StateFile
      BY DEF StateFile
    <3> QED
      BY <1>6, <3>1 DEF SaveOpen
  <2>2. pc' \in [Daemons -> Stage]
    BY <1>6 DEF SaveOpen, SaveFails, AfterSave
  <2> QED
    BY <1>6, <2>1, <2>2 DEF SaveOpen
<1>7. CASE SaveWrite(p)
  <2>1. /\ Closed(Written(partial, p, memory[p]), p) \in StateFile
        /\ Closed(Written(real, p, memory[p]), p) \in StateFile
    BY WrittenType, ClosedType
  <2>2. /\ Closed(Written(partial, p, Torn), p) \in StateFile
        /\ Closed(Written(real, p, Torn), p) \in StateFile
    BY WrittenType, ClosedType
  <2>3. real' \in StateFile /\ partial' \in StateFile
    BY <1>7, <2>1, <2>2 DEF SaveWrite, WriteAndClose
  <2>4. pc' \in [Daemons -> Stage]
    BY <1>7 DEF SaveWrite, SaveFails, AfterSave
  <2>5. faults' \subseteq {"SaveWrite", "SaveFinish"}
    BY <1>7 DEF SaveWrite
  <2> QED
    BY <1>7, <2>3, <2>4, <2>5 DEF SaveWrite
<1>8. CASE Rename(p)
  <2>1. Missing \in StateFile
    BY DEF Missing, StateFile
  <2>2. pc' \in [Daemons -> Stage] /\ saved' \in {Torn} \cup Versions
    BY <1>8 DEF Rename, AfterSave, SaveFails
  <2> QED
    BY <1>8, <2>1, <2>2 DEF Rename
<1>9. CASE FinishEncoder(p)
  <2>1. /\ Closed(Written(partial, p, memory[p]), p) \in StateFile
        /\ Closed(Written(real, p, memory[p]), p) \in StateFile
    BY WrittenType, ClosedType
  <2>2. /\ Closed(Written(partial, p, Torn), p) \in StateFile
        /\ Closed(Written(real, p, Torn), p) \in StateFile
    BY WrittenType, ClosedType
  <2>3. real' \in StateFile /\ partial' \in StateFile
    BY <1>9, <2>1, <2>2 DEF FinishEncoder, WriteAndClose
  <2>4. faults' \subseteq {"SaveWrite", "SaveFinish"}
    BY <1>9 DEF FinishEncoder
  <2> QED
    BY <1>9, <2>3, <2>4 DEF FinishEncoder
<1>10. CASE FirstTick(p)
  BY <1>10 DEF FirstTick
<1>11. CASE CheckSocket(p)
  BY <1>11 DEF CheckSocket
<1>12. CASE RemoveSocket(p)
  BY <1>12 DEF RemoveSocket
<1>13. CASE BindSocket(p)
  BY <1>13 DEF BindSocket
<1>14. CASE Listen(p)
  BY <1>14 DEF Listen
<1>15. CASE BindPort(p)
  BY <1>15 DEF BindPort
<1>16. CASE ReadSharedSecret(p)
  BY <1>16 DEF ReadSharedSecret
<1>17. CASE Change(p)
  <2>1. clock <= MaxChanges => clock + 1 \in Versions
    BY ChangesAssumption DEF Versions, Empty
  <2>2. memory' \in [Daemons -> Versions] /\ clock' \in Versions
    BY <1>17, <2>1 DEF Change
  <2> QED
    BY <1>17, <2>2 DEF Change
<1>18. CASE Shutdown(p)
  BY <1>18 DEF Shutdown
<1>19. CASE Panic(p)
  BY <1>19 DEF Panic
<1>20. CASE Cleanup(p)
  <2>1. NoPidFile \in PidFile
    BY DEF NoPidFile, PidFile
  <2> QED
    BY <1>0, <1>20, <2>1 DEF Cleanup, PidFile
<1>21. CASE Crash(p)
  <2>1. Closed(real, p) \in StateFile /\ Closed(partial, p) \in StateFile
    BY ClosedType
  <2>2. Closed(pidFile, p) \in PidFile
    BY DEF Closed, PidFile
  <2>3. wounds' \subseteq Fragile
    BY <1>21 DEF Crash
  <2> QED
    BY <1>0, <1>21, <2>1, <2>2, <2>3 DEF Crash, PidFile
<1>22. CASE ReusePid(p)
  BY <1>22 DEF ReusePid
<1> QED
  BY <1>1, <1>2, <1>3, <1>4, <1>5, <1>6, <1>7, <1>8, <1>9, <1>10, <1>11, <1>12, <1>13, <1>14,
     <1>15, <1>16, <1>17, <1>18, <1>19, <1>20, <1>21, <1>22 DEF Run

\* Every reachable state of the shared files and of the processes is well typed.
THEOREM TypesCorrect == Spec => []TypeOK
<1>1. TypeOK /\ [Next]_vars => TypeOK'
  <2> SUFFICES ASSUME TypeOK, [Next]_vars PROVE TypeOK'
    OBVIOUS
  <2>1. CASE Next
    BY <2>1, TypeStep DEF Next
  <2>2. CASE UNCHANGED vars
    BY <2>2 DEF vars, files, stateFiles, process, history, TypeOK
  <2> QED
    BY <2>1, <2>2
<1> QED
  BY InitType, <1>1, PTL DEF Spec

-----------------------------------------------------------------------------
(* Who has the pid file, the socket and the secret.                        *)

\* The processes that have the state, or are about to give it up.
Owning == {"Restore", "Serving", "PanicPid"} \cup Saving \cup Binding \cup ShuttingDown

\* Where a process that listens may be.
Up == {"ReadSecret", "Serving"} \cup Saving \cup ShuttingDown \cup PanicHook

HasSecret == {"PidCheck", "PidOpen", "PidCreate", "PidWrite"} \cup Owning \cup PanicHook

ListenersUp == \A p \in listening : pc[p] \in Up

ServersListen ==
    \A p \in Daemons : pc[p] \in {"ReadSecret", "Serving"} => p \in listening

\* The task handler begins before the listener.
LoopsRun ==
    /\ \A p \in Daemons :
           pc[p] \in (Binding \ {"FirstTick"}) \cup {"Serving"} => p \in running
    /\ listening \subseteq running

\* An empty secret file is about to be written, or the one who should have crashed.
EmptySecret ==
    secret.there /\ secret.content = Nobody /\ "SecretWrite" \notin wounds =>
        \E p \in Daemons : pc[p] = "SecretWrite"

OneStarting == \A p, q \in Daemons : IsStarting(p) /\ IsStarting(q) => p = q

OwnersPidFile ==
    \A p \in Daemons : pc[p] \in Owning => pidFile.there /\ pidFile.content = p

\* Between the check of the pid file and the pid in it nobody has the state.
CreatorAlone ==
    \A p, q \in Daemons : pc[p] \in {"PidCreate", "PidWrite"} => pc[q] \notin Owning

WriterHasFile ==
    \A p \in Daemons : pc[p] = "PidWrite" => pidFile.there /\ p \in pidFile.open

\* A process that panicked before it listened was the only one, and would remove the
\* socket of any other.
PanicAlone ==
    \A p, q \in Daemons :
        pc[p] \in PanicHook /\ p \notin listening /\ q # p =>
            ~IsStarting(q) /\ pc[q] \notin Owning

\* A process that shuts down before it listens does so alone, too, and no start is beside one
\* in its panic hook that would lose its socket.
EndAlone ==
    \A p, q, o \in Daemons :
        pc[p] \in ShuttingDown /\ p \notin listening /\ pc[q] \in PanicHook => ~IsStarting(o)

SecretWritten ==
    \A p, q \in Daemons : pc[p] \in HasSecret => secret.there /\ pc[q] # "SecretWrite"

SecretKnown ==
    \A p \in Daemons : p \in listening /\ pc[p] # "ReadSecret" => known[p] = secret.content

\* One process listens, and the socket file is its own until it goes. One that panics
\* keeps it as long as somebody else is starting.
SocketOfListener ==
    /\ \A p, q \in listening : p = q
    /\ \A p \in listening :
        pc[p] # "ShutdownPid" /\ (pc[p] \in PanicHook => \E q \in Daemons : IsStarting(q))
            => socket = p

BinderAlone ==
    \A p \in Daemons :
        /\ pc[p] \in {"SocketRemove", "SocketBind", "SocketListen"} => listening = {}
        /\ pc[p] = "SocketListen" => socket = p

Orderly ==
    /\ OneStarting /\ OwnersPidFile /\ CreatorAlone /\ WriterHasFile /\ PanicAlone /\ EndAlone
    /\ SecretWritten /\ SecretKnown
    /\ config.unix => SocketOfListener /\ BinderAlone

StartInv ==
    /\ TypeOK
    /\ ListenersUp /\ ServersListen /\ LoopsRun /\ EmptySecret
    /\ ~overlapped => Orderly

LEMMA StartInvInit == Init => StartInv
<1> SUFFICES ASSUME Init PROVE StartInv
  OBVIOUS
<1>1. TypeOK
  BY InitType
<1>2. \A p \in Daemons : pc[p] = "Idle"
  BY DEF Init
<1>3. ListenersUp /\ ServersListen /\ LoopsRun /\ EmptySecret
  BY <1>2 DEF Init, ListenersUp, ServersListen, LoopsRun, EmptySecret, Binding
<1>4. \A p \in Daemons : ~IsStarting(p)
  BY <1>2 DEF IsStarting, Early, Saving, Binding
<1>5. \A p \in Daemons : pc[p] \notin Owning \cup HasSecret \cup PanicHook
  BY <1>2 DEF HasSecret, Owning, Saving, Binding, ShuttingDown, PanicHook
<1>6. Orderly
  BY <1>2, <1>4, <1>5
  DEF Init, Orderly, OneStarting, OwnersPidFile, CreatorAlone, WriterHasFile, PanicAlone, EndAlone,
      SecretWritten, SecretKnown, SocketOfListener, BinderAlone
<1> QED
  BY <1>1, <1>3, <1>6 DEF StartInv

\* The rest of what a step must keep. A step of one process changes its own pc only.
Moves(p, to) ==
    /\ pc' = [pc EXCEPT ![p] = to]
    /\ UNCHANGED << config, overlapped >>

\* A step that neither touches a file of these nor comes to a place of interest.
LEMMA Advance ==
    ASSUME StartInv, TypeOK', LoopsRun', NEW p \in Daemons, NEW to \in Stage, Moves(p, to),
           UNCHANGED << secret, pidFile, socket, listening, known, wounds >>,
           pc[p] \notin {"SecretWrite", "ReadSecret", "ShutdownPid"} \cup PanicHook,
           to \in Early \cup Saving \cup Binding => IsStarting(p) \/ p \in listening,
           to \in Owning => pc[p] \in Owning,
           to \in HasSecret => pc[p] \in HasSecret,
           to \notin {"PidCreate", "PidWrite", "SecretWrite", "SocketRemove", "SocketBind",
                      "SocketListen"} \cup PanicHook,
           p \in listening => to \in Up \ {"ReadSecret"},
           to \in {"ReadSecret", "Serving"} => p \in listening,
           to \in ShuttingDown => p \in listening \/ IsStarting(p)
    PROVE  StartInv'
<1>1. ListenersUp' /\ ServersListen'
  BY DEF StartInv, TypeOK, ListenersUp, ServersListen, Moves
<1>2. EmptySecret'
  BY DEF StartInv, TypeOK, EmptySecret, Moves
<1>3. \A q \in Daemons : IsStarting(q)' => IsStarting(q)
  BY DEF StartInv, TypeOK, IsStarting, IsUp, Moves
<1>4. \A q \in Daemons : pc'[q] \in Owning => pc[q] \in Owning
  BY DEF StartInv, TypeOK, Moves
<1>5. \A q \in Daemons : pc'[q] \in HasSecret => pc[q] \in HasSecret
  BY DEF StartInv, TypeOK, Moves
<1>6. \A q \in Daemons : pc'[q] \in PanicHook \cup {"PidCreate", "PidWrite", "SecretWrite",
                             "SocketRemove", "SocketBind", "SocketListen"} => pc'[q] = pc[q]
  BY DEF StartInv, TypeOK, Moves
<1>7. ASSUME ~overlapped'
      PROVE  Orderly'
  <2>1. Orderly
    BY <1>7 DEF StartInv, Moves
  <2>2. OneStarting' /\ OwnersPidFile' /\ CreatorAlone' /\ WriterHasFile' /\ PanicAlone'
    BY <1>3, <1>4, <1>6, <2>1
    DEF Orderly, OneStarting, OwnersPidFile, CreatorAlone, WriterHasFile, PanicAlone
  <2>7. EndAlone'
    <3> SUFFICES ASSUME NEW a \in Daemons, NEW b \in Daemons, NEW o \in Daemons,
                        pc'[a] \in ShuttingDown, a \notin listening, pc'[b] \in PanicHook,
                        IsStarting(o)'
                 PROVE  FALSE
      BY DEF EndAlone
    <3>1. pc[b] \in PanicHook /\ IsStarting(o)
      BY <1>3, <1>6
    <3>2. CASE a # p
      <4>1. pc[a] \in ShuttingDown
        BY <3>2 DEF StartInv, TypeOK, Moves
      <4> QED
        BY <2>1, <3>1, <4>1 DEF Orderly, EndAlone
    <3>3. CASE a = p
      <4>1. IsStarting(p) /\ pc'[p] \in ShuttingDown
        BY <3>3 DEF StartInv, TypeOK, Moves
      <4>2. o = p
        BY <2>1, <3>1, <4>1 DEF Orderly, OneStarting
      <4> QED
        BY <4>1, <4>2 DEF IsStarting, Early, Saving, Binding, ShuttingDown
    <3> QED
      BY <3>2, <3>3
  <2>3. SecretWritten'
    BY <1>5, <1>6, <2>1 DEF Orderly, SecretWritten
  <2>4. SecretKnown'
    BY <2>1 DEF Orderly, SecretKnown, StartInv, TypeOK, Moves
  <2>5. config'.unix => SocketOfListener'
    BY <1>3, <1>6, <2>1 DEF Orderly, SocketOfListener, StartInv, TypeOK, Moves
  <2>6. config'.unix => BinderAlone'
    BY <1>6, <2>1 DEF Orderly, BinderAlone, Moves
  <2> QED
    BY <2>2, <2>3, <2>4, <2>5, <2>6, <2>7 DEF Orderly
<1> QED
  BY <1>1, <1>2, <1>7 DEF StartInv

LEMMA LoopsRunStep ==
    ASSUME StartInv, NEW p \in Daemons, Run(p) \/ Crash(p) \/ ReusePid(p)
    PROVE  LoopsRun'
<1> USE DEF LoopsRun, Binding, Step, process, files, stateFiles, history
<1>1. /\ LoopsRun /\ pc \in [Daemons -> Stage] /\ listening \subseteq Daemons
      /\ p \in listening => pc[p] \in Up
  BY DEF StartInv, TypeOK, ListenersUp
<1>2. CASE Start(p) \/ CreateCertificates(p) \/ InitSharedSecret(p) \/ CreatePidFile(p)
  BY <1>1, <1>2 DEF Start, Forget, CreateCertificates, InitSharedSecret, CreatePidFile
<1>3. CASE RestoreState(p) \/ SaveOpen(p) \/ SaveWrite(p) \/ Rename(p) \/ FinishEncoder(p)
  BY <1>1, <1>3
  DEF RestoreState, SaveOpen, SaveWrite, Rename, FinishEncoder, SaveFails, AfterSave, IsUp
<1>4. CASE FirstTick(p) \/ CheckSocket(p) \/ RemoveSocket(p) \/ BindSocket(p)
  BY <1>1, <1>4 DEF FirstTick, CheckSocket, RemoveSocket, BindSocket
<1>5. CASE Listen(p) \/ BindPort(p) \/ ReadSharedSecret(p)
  BY <1>1, <1>5 DEF Listen, BindPort, ReadSharedSecret
<1>6. CASE Change(p) \/ Shutdown(p) \/ Panic(p) \/ ReusePid(p)
  BY <1>1, <1>6 DEF Change, Shutdown, Panic, ReusePid
<1>7. CASE Cleanup(p) \/ Crash(p)
  BY <1>1, <1>7 DEF Cleanup, Crash, Forget
<1> QED
  BY <1>2, <1>3, <1>4, <1>5, <1>6, <1>7 DEF Run

\* The steps that are such advances.
LEMMA QuietSteps ==
    ASSUME StartInv, TypeOK', LoopsRun', NEW p \in Daemons,
           \/ CreateCertificates(p) \/ RestoreState(p) \/ SaveOpen(p) \/ SaveWrite(p)
           \/ Rename(p) \/ FinishEncoder(p) \/ FirstTick(p) \/ Change(p) \/ Shutdown(p)
    PROVE  StartInv'
<1> USE DEF Stage, Early, Saving, Binding, PanicHook, ShuttingDown, Dead, Up, Owning,
            HasSecret, Step, IsStarting, IsUp, Moves, files, stateFiles, process, history
<1>1. /\ pc \in [Daemons -> Stage]
      /\ pc[p] \in {"ReadSecret", "Serving"} => p \in listening
      /\ p \in listening => p \in running
  BY DEF StartInv, TypeOK, ServersListen, LoopsRun
<1>2. p \in listening => pc[p] \in Up
  BY DEF StartInv, ListenersUp
<1>3. CASE CreateCertificates(p)
  <2>1. PICK to \in {"Key", "Secret"} : pc' = [pc EXCEPT ![p] = to]
    BY <1>3 DEF CreateCertificates
  <2>2. pc[p] \in {"Certificates", "Key"}
    BY <1>3 DEF CreateCertificates
  <2> QED
    BY <1>1, <1>2, <1>3, <2>1, <2>2, Advance DEF CreateCertificates
<1>4. CASE RestoreState(p)
  BY <1>1, <1>2, <1>4, Advance DEF RestoreState
<1>5. CASE SaveOpen(p) \/ SaveWrite(p) \/ Rename(p) \/ FinishEncoder(p)
  <2>1. PICK to \in {"SaveWrite", "SaveFinish", "Rename", "Serving", "Ticking", "FirstTick",
                     "Failed"} :
            /\ pc' = [pc EXCEPT ![p] = to]
            /\ to = "Serving" => p \in listening
            /\ to \in {"Ticking", "FirstTick", "Failed"} => p \notin listening
    BY <1>1, <1>5 DEF SaveOpen, SaveWrite, Rename, FinishEncoder, SaveFails, AfterSave
  <2>2. pc[p] \in Saving
    BY <1>5 DEF SaveOpen, SaveWrite, Rename, FinishEncoder
  <2>3. UNCHANGED << config, overlapped, secret, pidFile, socket, listening, known, wounds >>
    BY <1>5 DEF SaveOpen, SaveWrite, Rename, FinishEncoder
  <2> QED
    BY <1>1, <1>2, <2>1, <2>2, <2>3, Advance
<1>6. CASE FirstTick(p)
  BY <1>1, <1>2, <1>6, Advance DEF FirstTick
<1>7. CASE Change(p)
  BY <1>1, <1>2, <1>7, Advance DEF Change
<1>8. CASE Shutdown(p)
  BY <1>1, <1>2, <1>8, Advance DEF Shutdown
<1> QED
  BY <1>3, <1>4, <1>5, <1>6, <1>7, <1>8

\* What process p finds, and what it alone changes.
LEMMA Mover ==
    ASSUME StartInv, TypeOK', LoopsRun', NEW p \in Daemons, NEW to, pc' = [pc EXCEPT ![p] = to]
    PROVE  /\ pc'[p] = to
           /\ \A q \in Daemons : q # p => pc'[q] = pc[q]
           /\ pc[p] \in Stage
           /\ listening \subseteq Daemons
           /\ p \in listening => pc[p] \in Up
           /\ pc[p] \in {"ReadSecret", "Serving"} => p \in listening
           /\ Nobody \notin Daemons
BY NobodyAssumption DEF StartInv, TypeOK, ListenersUp, ServersListen

LEMMA StartStep == ASSUME StartInv, TypeOK', LoopsRun', NEW p \in Daemons, Start(p) PROVE StartInv'
<1> USE DEF Stage, Early, Saving, Binding, PanicHook, ShuttingDown, Dead, Up, Owning,
            HasSecret, files, stateFiles, process, history
<1>1. /\ pc[p] \in Dead /\ pc' = [pc EXCEPT ![p] = "Certificates"]
      /\ UNCHANGED << config, secret, pidFile, socket, wounds >>
      /\ listening' = listening \ {p}
      /\ \A q \in Daemons : q # p => known'[q] = known[q]
  BY DEF Start, Forget, StartInv, TypeOK
<1>7. ~overlapped' => ~overlapped /\ \A q \in Daemons : ~IsStarting(q) /\ pc[q] \notin PanicHook
  <2>1. overlapped' <=> (overlapped \/ \E q \in Daemons : IsStarting(q) \/ pc[q] \in PanicHook)
    BY Zenon DEF Start
  <2> QED
    BY <2>1
<1>2. /\ pc'[p] = "Certificates" /\ p \notin listening /\ listening' = listening
      /\ \A q \in Daemons : q # p => pc'[q] = pc[q]
  <2>1. pc[p] \notin Up
    BY <1>1
  <2>2. p \notin listening
    BY <2>1 DEF StartInv, ListenersUp
  <2>3. pc \in [Daemons -> Stage]
    BY DEF StartInv, TypeOK
  <2>4. /\ pc'[p] = "Certificates"
        /\ \A q \in Daemons : q # p => pc'[q] = pc[q]
    BY <1>1, <2>3
  <2> QED
    BY <1>1, <2>2, <2>4
<1>3. ListenersUp' /\ ServersListen' /\ EmptySecret'
  BY <1>1, <1>2 DEF StartInv, TypeOK, ListenersUp, ServersListen, EmptySecret
<1>4. ASSUME ~overlapped'
      PROVE  Orderly'
  <2>1. Orderly
    BY <1>7, <1>4 DEF StartInv
  <2>2. OneStarting' /\ OwnersPidFile' /\ CreatorAlone' /\ WriterHasFile'
    BY <1>1, <1>2, <1>4, <1>7, <2>1
    DEF Orderly, OneStarting, OwnersPidFile, CreatorAlone, WriterHasFile, IsStarting, IsUp
  <2>3. PanicAlone' /\ EndAlone'
    BY <1>1, <1>2, <1>4, <1>7 DEF PanicAlone, EndAlone
  <2>4. SecretWritten' /\ SecretKnown'
    BY <1>1, <1>2, <2>1 DEF Orderly, SecretWritten, SecretKnown, StartInv, TypeOK
  <2>5. config'.unix => SocketOfListener' /\ BinderAlone'
    BY <1>1, <1>2, <1>4, <1>7, <2>1 DEF Orderly, SocketOfListener, BinderAlone, StartInv, TypeOK
  <2> QED
    BY <2>2, <2>3, <2>4, <2>5 DEF Orderly
<1> QED
  BY <1>3, <1>4 DEF StartInv

LEMMA InitSharedSecretStep ==
    ASSUME StartInv, TypeOK', LoopsRun', NEW p \in Daemons, InitSharedSecret(p)
    PROVE  StartInv'
<1> USE DEF Stage, Early, Saving, Binding, PanicHook, ShuttingDown, Dead, Up, Owning,
            HasSecret, files, stateFiles, process, history
<1>1. PICK to \in {"SecretWrite", "PidCheck"} : pc' = [pc EXCEPT ![p] = to]
  BY DEF InitSharedSecret, Step
<1>2. /\ pc[p] \in {"Secret", "SecretWrite"}
      /\ UNCHANGED << config, pidFile, socket, listening, known, wounds, overlapped >>
  BY DEF InitSharedSecret, Step
<1>3. /\ secret'.there
      /\ secret' # secret => pc[p] = "SecretWrite" \/ ~secret.there
      /\ to = "PidCheck" /\ pc[p] = "Secret" => secret' = secret
      /\ to = "SecretWrite" => pc[p] = "Secret" /\ ~secret.there
      /\ pc[p] = "SecretWrite" => secret'.content = p
  BY <1>1, <1>2, Mover DEF InitSharedSecret, Step, SecretExists, StartInv, TypeOK
<1>4. /\ pc'[p] = to /\ p \notin listening /\ p # Nobody
      /\ \A q \in Daemons : q # p => pc'[q] = pc[q]
  BY <1>1, <1>2, Mover
<1>5. ListenersUp' /\ ServersListen'
  BY <1>2, <1>4 DEF StartInv, TypeOK, ListenersUp, ServersListen
<1>6. EmptySecret'
  BY <1>2, <1>3, <1>4 DEF StartInv, EmptySecret
<1>7. \A q \in Daemons : IsStarting(q)' <=> IsStarting(q)
  BY <1>2, <1>4 DEF IsStarting, IsUp
<1>8. ASSUME ~overlapped'
      PROVE  Orderly'
  <2>1. Orderly
    BY <1>2, <1>8 DEF StartInv
  <2>2. \A q \in Daemons : q # p => ~IsStarting(q) /\ pc[q] # "SecretWrite"
    <3>1. IsStarting(p) /\ (\A q \in Daemons : pc[q] = "SecretWrite" => IsStarting(q))
      BY <1>2, <1>4, <2>1 DEF IsStarting, IsUp, StartInv, ListenersUp
    <3> QED
      BY <2>1, <3>1 DEF Orderly, OneStarting
  <2>3. /\ OneStarting' /\ OwnersPidFile' /\ CreatorAlone' /\ WriterHasFile'
        /\ PanicAlone' /\ EndAlone'
    BY <1>2, <1>4, <1>7, <2>1
    DEF Orderly, OneStarting, OwnersPidFile, CreatorAlone, WriterHasFile, PanicAlone, EndAlone
  <2>4. \A q \in Daemons : pc[q] \in HasSecret => secret' = secret
    BY <1>2, <1>3, <2>1 DEF Orderly, SecretWritten
  <2>5. SecretWritten'
    BY <1>2, <1>3, <1>4, <2>1, <2>2 DEF Orderly, SecretWritten
  <2>6. SecretKnown'
    BY <1>2, <1>4, <2>1, <2>4 DEF Orderly, SecretKnown, StartInv, ListenersUp
  <2>7. config'.unix => SocketOfListener' /\ BinderAlone'
    BY <1>2, <1>4, <1>7, <2>1 DEF Orderly, SocketOfListener, BinderAlone, StartInv, TypeOK
  <2> QED
    BY <2>3, <2>5, <2>6, <2>7 DEF Orderly
<1> QED
  BY <1>5, <1>6, <1>8 DEF StartInv

LEMMA CreatePidFileStep ==
    ASSUME StartInv, TypeOK', LoopsRun', NEW p \in Daemons, CreatePidFile(p)
    PROVE  StartInv'
<1> USE DEF Stage, Early, Saving, Binding, PanicHook, ShuttingDown, Dead, Up, Owning,
            HasSecret, files, stateFiles, process, history
<1>1. PICK to \in {"PidOpen", "PidCreate", "PidWrite", "Restore", "Failed"} :
          pc' = [pc EXCEPT ![p] = to]
  BY DEF CreatePidFile, Step
<1>2. /\ pc[p] \in {"PidCheck", "PidOpen", "PidCreate", "PidWrite"}
      /\ UNCHANGED << config, secret, socket, listening, known, wounds, overlapped >>
  BY DEF CreatePidFile, Step
<1>3. /\ pc'[p] = to /\ p \notin listening
      /\ \A q \in Daemons : q # p => pc'[q] = pc[q]
  BY <1>1, <1>2, Mover
<1>4. /\ to \in {"PidOpen", "PidCreate", "Failed"} =>
             pc[p] \in {"PidCheck", "PidOpen"} /\ pidFile' = pidFile
      /\ to = "PidCreate" => ~pidFile.there \/ PidFileAllows
      /\ to = "PidWrite" =>
             pc[p] = "PidCreate" /\ pidFile'.there /\ p \in pidFile'.open
      /\ to = "Restore" =>
             /\ pc[p] = "PidWrite"
             /\ p \in pidFile.open => pidFile'.content = p /\ pidFile'.there = pidFile.there
  <2>1. CASE pc[p] = "PidCheck"
    <3>1. /\ to = IF pidFile.there THEN "PidOpen" ELSE "PidCreate"
          /\ pidFile' = pidFile
      BY <1>3, <2>1, Mover DEF CreatePidFile, Step, StartInv, TypeOK
    <3> QED
      BY <2>1, <3>1
  <2>4. CASE pc[p] = "PidOpen"
    <3>1. /\ to = IF PidFileAllows THEN "PidCreate" ELSE "Failed"
          /\ pidFile' = pidFile
      BY <1>3, <2>4, Mover DEF CreatePidFile, Step, StartInv, TypeOK
    <3> QED
      BY <2>4, <3>1
  <2>2. CASE pc[p] = "PidCreate"
    <3>1. /\ to = "PidWrite"
          /\ pidFile' = [there |-> TRUE, content |-> Nobody, open |-> pidFile.open \cup {p}]
      BY <1>3, <2>2 DEF CreatePidFile, Step, StartInv, TypeOK
    <3> QED
      BY <2>2, <3>1
  <2>3. CASE pc[p] = "PidWrite"
    <3>1. /\ to = "Restore"
          /\ p \in pidFile.open => pidFile' = [pidFile EXCEPT !.content = p, !.open = @ \ {p}]
      BY <1>3, <2>3 DEF CreatePidFile, Step, StartInv, TypeOK
    <3>2. pidFile \in PidFile
      BY DEF StartInv, TypeOK, PidFile
    <3> QED
      BY <2>3, <3>1, <3>2 DEF PidFile
  <2> QED
    BY <1>2, <2>1, <2>2, <2>3, <2>4
<1>5. ListenersUp' /\ ServersListen'
  BY <1>2, <1>3 DEF StartInv, TypeOK, ListenersUp, ServersListen
<1>6. EmptySecret'
  BY <1>2, <1>3 DEF StartInv, EmptySecret
<1>7. \A q \in Daemons : IsStarting(q)' => IsStarting(q)
  BY <1>2, <1>3 DEF IsStarting, IsUp
<1>8. ASSUME ~overlapped'
      PROVE  Orderly'
  <2>1. Orderly
    BY <1>2, <1>8 DEF StartInv
  <2>2. IsStarting(p)
    BY <1>2, <1>3 DEF IsStarting, IsUp
  <2>3. \A q \in Daemons : q # p => ~IsStarting(q)
    BY <2>1, <2>2 DEF Orderly, OneStarting
  <2>4. \A q \in Daemons : q # p /\ pc[q] \in Early => FALSE
    BY <2>3 DEF IsStarting, IsUp, StartInv, ListenersUp
  <2>5. to \notin {"Failed", "PidOpen"} => \A q \in Daemons : pc[q] \notin Owning
    <3>1. CASE to = "PidCreate"
      <4> SUFFICES ASSUME NEW q \in Daemons, pc[q] \in Owning PROVE FALSE
        BY <3>1
      <4>1. pidFile.there /\ pidFile.content = q /\ q # Nobody
        BY <2>1, NobodyAssumption DEF Orderly, OwnersPidFile
      <4> QED
        BY <1>4, <3>1, <4>1 DEF PidFileAllows, ProcessExists
    <3>2. CASE to \in {"PidWrite", "Restore"}
      BY <1>4, <2>1, <3>2 DEF Orderly, CreatorAlone
    <3> QED
      BY <3>1, <3>2
  <2>6. OneStarting' /\ PanicAlone' /\ EndAlone'
    BY <1>2, <1>3, <1>7, <2>1, <2>2 DEF Orderly, OneStarting, PanicAlone, EndAlone
  <2>7. OwnersPidFile' /\ WriterHasFile'
    BY <1>2, <1>3, <1>4, <2>1, <2>4, <2>5
    DEF Orderly, OwnersPidFile, WriterHasFile
  <2>8. CreatorAlone'
    BY <1>2, <1>3, <1>4, <2>1, <2>4, <2>5 DEF Orderly, CreatorAlone
  <2>9. SecretWritten' /\ SecretKnown'
    BY <1>2, <1>3, <2>1 DEF Orderly, SecretWritten, SecretKnown, StartInv, TypeOK
  <2>10. config'.unix => SocketOfListener' /\ BinderAlone'
    BY <1>2, <1>3, <1>7, <2>1 DEF Orderly, SocketOfListener, BinderAlone, StartInv, TypeOK
  <2> QED
    BY <2>6, <2>7, <2>8, <2>9, <2>10 DEF Orderly
<1> QED
  BY <1>5, <1>6, <1>8 DEF StartInv

\* While p is the one that starts, nobody else is at any place of a start.
LEMMA StarterAlone ==
    ASSUME StartInv, Orderly, NEW p \in Daemons, IsStarting(p)
    PROVE  \A q \in Daemons : q # p =>
               /\ ~IsStarting(q)
               /\ pc[q] \notin Early \cup {"SocketRemove", "SocketBind", "SocketListen"}
               /\ pc[q] \in PanicHook => q \in listening
BY DEF Orderly, OneStarting, PanicAlone, StartInv, ListenersUp, IsStarting, IsUp, Up, Early,
       Saving, Binding, ShuttingDown, PanicHook

LEMMA BindingStep ==
    ASSUME StartInv, TypeOK', LoopsRun', NEW p \in Daemons,
           CheckSocket(p) \/ RemoveSocket(p) \/ BindSocket(p)
    PROVE  StartInv'
<1> USE DEF Stage, Early, Saving, Binding, PanicHook, ShuttingDown, Dead, Up, Owning,
            HasSecret, files, stateFiles, process, history
<1>1. PICK to \in {"SocketConnect", "SocketRemove", "SocketBind", "SocketListen", "Failed"} :
          pc' = [pc EXCEPT ![p] = to]
  BY DEF CheckSocket, RemoveSocket, BindSocket, Step
<1>2. /\ pc[p] \in {"SocketCheck", "SocketConnect", "SocketRemove", "SocketBind"}
      /\ UNCHANGED << config, pidFile, secret, listening, known, wounds, overlapped >>
      /\ pc[p] \in {"SocketCheck", "SocketConnect"} => socket' = socket
  BY DEF CheckSocket, RemoveSocket, BindSocket, Step
<1>3. /\ pc'[p] = to /\ p \notin listening
      /\ \A q \in Daemons : q # p => pc'[q] = pc[q]
      /\ pc[p] \in Stage
  BY <1>1, <1>2, Mover
<1>4. /\ to = "SocketListen" => pc[p] = "SocketBind" /\ socket' = p
      /\ pc[p] \in {"SocketCheck", "SocketConnect"} /\ to \notin {"Failed", "SocketConnect"} =>
             socket = Nobody \/ ~SocketAnswers
  BY <1>1, <1>2, <1>3, Mover DEF CheckSocket, RemoveSocket, BindSocket, Step, StartInv, TypeOK
<1>5. ListenersUp' /\ ServersListen' /\ EmptySecret'
  BY <1>2, <1>3 DEF StartInv, TypeOK, ListenersUp, ServersListen, EmptySecret
<1>6. \A q \in Daemons : IsStarting(q)' => IsStarting(q)
  BY <1>2, <1>3 DEF IsStarting, IsUp
<1>7. ASSUME ~overlapped'
      PROVE  Orderly'
  <2>1. Orderly
    BY <1>2, <1>7 DEF StartInv
  <2>2. IsStarting(p)
    BY <1>2, <1>3 DEF IsStarting, IsUp
  <2>3. \A q \in Daemons : q # p =>
            /\ pc[q] \notin Early \cup {"SocketRemove", "SocketBind", "SocketListen"}
            /\ pc[q] \in PanicHook => q \in listening
    BY <2>1, <2>2, StarterAlone
  <2>4. /\ OneStarting' /\ OwnersPidFile' /\ CreatorAlone' /\ WriterHasFile'
        /\ PanicAlone' /\ EndAlone'
    BY <1>2, <1>3, <1>6, <2>1
    DEF Orderly, OneStarting, OwnersPidFile, CreatorAlone, WriterHasFile, PanicAlone, EndAlone
  <2>5. SecretWritten' /\ SecretKnown'
    BY <1>2, <1>3, <2>1 DEF Orderly, SecretWritten, SecretKnown, StartInv, TypeOK
  <2>6. ASSUME config.unix, to \notin {"Failed", "SocketConnect"} \/ socket' # socket
        PROVE  listening = {}
    <3>1. CASE pc[p] \in {"SocketCheck", "SocketConnect"}
      <4> SUFFICES ASSUME NEW q \in listening PROVE FALSE
        OBVIOUS
      <4>1. q \in Daemons /\ q # p /\ pc[q] \in Up /\ q # Nobody
        BY <1>3, NobodyAssumption DEF StartInv, TypeOK, ListenersUp
      <4>2. pc[q] \notin Owning
        BY <1>3, <2>1, <3>1, <4>1 DEF Orderly, OwnersPidFile
      <4>3. pc[q] = "PanicSocket"
        BY <4>1, <4>2
      <4>4. socket = q
        BY <2>1, <2>2, <2>6, <4>1, <4>3 DEF Orderly, SocketOfListener
      <4> QED
        BY <1>2, <1>4, <2>6, <3>1, <4>1, <4>4 DEF SocketAnswers
    <3>2. CASE pc[p] \notin {"SocketCheck", "SocketConnect"}
      BY <1>2, <2>1, <2>6, <3>2 DEF Orderly, BinderAlone
    <3> QED
      BY <3>1, <3>2
  <2>7. config'.unix => SocketOfListener'
    BY <1>2, <1>3, <1>6, <2>1, <2>6 DEF Orderly, SocketOfListener, StartInv, TypeOK
  <2>8. config'.unix => BinderAlone'
    BY <1>2, <1>3, <1>4, <2>3, <2>6 DEF BinderAlone
  <2> QED
    BY <2>4, <2>5, <2>7, <2>8 DEF Orderly
<1> QED
  BY <1>5, <1>7 DEF StartInv

LEMMA ListenStep ==
    ASSUME StartInv, TypeOK', LoopsRun', NEW p \in Daemons, Listen(p) \/ BindPort(p)
    PROVE  StartInv'
<1> USE DEF Stage, Early, Saving, Binding, PanicHook, ShuttingDown, Dead, Up, Owning,
            HasSecret, files, stateFiles, process, history
<1>1. PICK to \in {"ReadSecret", "Failed"} : pc' = [pc EXCEPT ![p] = to]
  BY DEF Listen, BindPort, Step
<1>2. /\ pc[p] \in {"SocketCheck", "SocketListen"}
      /\ UNCHANGED << config, pidFile, secret, socket, known, wounds, overlapped >>
      /\ config.unix => pc[p] = "SocketListen" \/ Listen(p)
  BY DEF Listen, BindPort, Step
<1>3. /\ pc'[p] = to /\ p \notin listening
      /\ \A q \in Daemons : q # p => pc'[q] = pc[q]
      /\ pc[p] \in Stage
  BY <1>1, <1>2, Mover
<1>4. /\ to = "ReadSecret" => listening' = listening \cup {p}
      /\ to = "Failed" => listening' = listening
      /\ config.unix => pc[p] = "SocketListen"
  BY <1>1, <1>2, <1>3 DEF Listen, BindPort, Step, StartInv, TypeOK
<1>5. ListenersUp' /\ ServersListen' /\ EmptySecret'
  BY <1>2, <1>3, <1>4 DEF StartInv, TypeOK, ListenersUp, ServersListen, EmptySecret
<1>6. \A q \in Daemons : IsStarting(q)' => IsStarting(q) /\ q # p
  BY <1>2, <1>3, <1>4 DEF IsStarting, IsUp
<1>7. ASSUME ~overlapped'
      PROVE  Orderly'
  <2>1. Orderly
    BY <1>2, <1>7 DEF StartInv
  <2>2. IsStarting(p)
    BY <1>2, <1>3 DEF IsStarting, IsUp
  <2>3. \A q \in Daemons : q # p =>
            /\ ~IsStarting(q)
            /\ pc[q] \notin Early \cup {"SocketRemove", "SocketBind", "SocketListen"}
    BY <2>1, <2>2, StarterAlone
  <2>4. /\ OneStarting' /\ OwnersPidFile' /\ CreatorAlone' /\ WriterHasFile'
        /\ PanicAlone' /\ EndAlone'
    BY <1>2, <1>3, <1>4, <1>6, <2>1
    DEF Orderly, OneStarting, OwnersPidFile, CreatorAlone, WriterHasFile, PanicAlone, EndAlone
  <2>5. SecretWritten' /\ SecretKnown'
    BY <1>2, <1>3, <1>4, <2>1 DEF Orderly, SecretWritten, SecretKnown, StartInv, TypeOK
  <2>6. config'.unix => SocketOfListener'
    BY <1>2, <1>3, <1>4, <1>6, <2>1
    DEF Orderly, SocketOfListener, BinderAlone, StartInv, TypeOK
  <2>7. config'.unix => BinderAlone'
    BY <1>2, <1>3, <1>4, <2>3 DEF BinderAlone
  <2> QED
    BY <2>4, <2>5, <2>6, <2>7 DEF Orderly
<1> QED
  BY <1>5, <1>7 DEF StartInv

LEMMA ServeStep ==
    ASSUME StartInv, TypeOK', LoopsRun', NEW p \in Daemons, ReadSharedSecret(p) \/ Panic(p)
    PROVE  StartInv'
<1> USE DEF Stage, Early, Saving, Binding, PanicHook, ShuttingDown, Dead, Up, Owning,
            HasSecret, files, stateFiles, process, history
<1>1. PICK to \in {"Serving", "PanicPid"} : pc' = [pc EXCEPT ![p] = to]
  BY DEF ReadSharedSecret, Panic, Step
<1>2. /\ pc[p] \in {"ReadSecret", "Serving", "Ticking"}
      /\ pc[p] = "ReadSecret" <=> to = "Serving"
      /\ UNCHANGED << config, pidFile, secret, socket, listening, wounds, overlapped >>
      /\ \A q \in Daemons : q # p => known'[q] = known[q]
      /\ pc[p] = "ReadSecret" => known'[p] = secret.content
      /\ pc[p] # "ReadSecret" => known' = known
  BY <1>1, Mover DEF ReadSharedSecret, Panic, Step, StartInv, TypeOK
<1>3. /\ pc'[p] = to /\ (pc[p] = "Ticking" <=> p \notin listening)
      /\ \A q \in Daemons : q # p => pc'[q] = pc[q]
  BY <1>1, <1>2, Mover
<1>4. ListenersUp' /\ ServersListen' /\ EmptySecret'
  BY <1>2, <1>3 DEF StartInv, TypeOK, ListenersUp, ServersListen, EmptySecret
<1>5. \A q \in Daemons : IsStarting(q)' => IsStarting(q)
  BY <1>2, <1>3 DEF IsStarting, IsUp
<1>6. ASSUME ~overlapped'
      PROVE  Orderly'
  <2>1. Orderly
    BY <1>2, <1>6 DEF StartInv
  <2>2. OneStarting' /\ OwnersPidFile' /\ CreatorAlone' /\ WriterHasFile'
    BY <1>2, <1>3, <1>5, <2>1
    DEF Orderly, OneStarting, OwnersPidFile, CreatorAlone, WriterHasFile
  <2>3. pc[p] = "Ticking" => \A q \in Daemons : q # p => ~IsStarting(q) /\ pc[q] \notin Owning
    <3>1. pc[p] = "Ticking" => IsStarting(p)
      BY <1>3 DEF IsStarting, IsUp
    <3> QED
      BY <2>1, <3>1 DEF Orderly, OneStarting, OwnersPidFile
  <2>4. PanicAlone'
    BY <1>2, <1>3, <1>5, <2>1, <2>3 DEF Orderly, PanicAlone
  <2>7. EndAlone'
    <3>1. \A q \in Daemons : pc[q] \in Owning => q = p
      BY <1>2, <2>1 DEF Orderly, OwnersPidFile
    <3> QED
      BY <1>2, <1>3, <1>5, <2>1, <3>1 DEF Orderly, EndAlone
  <2>5. SecretWritten' /\ SecretKnown'
    BY <1>2, <1>3, <2>1 DEF Orderly, SecretWritten, SecretKnown, StartInv, TypeOK
  <2>6. config'.unix => SocketOfListener' /\ BinderAlone'
    BY <1>2, <1>3, <1>5, <2>1 DEF Orderly, SocketOfListener, BinderAlone, StartInv, TypeOK
  <2> QED
    BY <2>2, <2>4, <2>5, <2>6, <2>7 DEF Orderly
<1> QED
  BY <1>4, <1>6 DEF StartInv

LEMMA CleanupStep ==
    ASSUME StartInv, TypeOK', LoopsRun', NEW p \in Daemons, Cleanup(p)
    PROVE  StartInv'
<1> USE DEF Stage, Early, Saving, Binding, PanicHook, ShuttingDown, Dead, Up, Owning,
            HasSecret, files, stateFiles, process, history
<1>1. PICK to \in {"ShutdownPid", "Idle", "PanicSocket"} : pc' = [pc EXCEPT ![p] = to]
  BY DEF Cleanup, Step
<1>2. /\ pc[p] \in PanicHook \cup ShuttingDown
      /\ UNCHANGED << config, secret, wounds, overlapped >>
      /\ socket' = socket \/ pc[p] \in {"ShutdownSocket", "PanicSocket"}
      /\ pidFile' = pidFile \/ pc[p] \in {"ShutdownPid", "PanicPid"}
      /\ \A q \in Daemons : q # p => known'[q] = known[q]
  BY DEF Cleanup, Step, Forget, StartInv, TypeOK
<1>3. /\ pc'[p] = to
      /\ \A q \in Daemons : q # p => pc'[q] = pc[q]
  BY <1>1, <1>2, Mover
<1>4. /\ to = "Idle" => listening' = listening \ {p}
      /\ to # "Idle" => listening' = listening /\ known' = known
      /\ pc[p] = "ShutdownSocket" => to = "ShutdownPid"
      /\ pc[p] = "PanicPid" => to = "PanicSocket"
      /\ pc[p] \in {"ShutdownPid", "PanicSocket"} <=> to = "Idle"
  BY <1>1, <1>2, <1>3 DEF Cleanup, Forget, Step, StartInv, TypeOK
<1>5. ListenersUp' /\ ServersListen' /\ EmptySecret'
  BY <1>2, <1>3, <1>4 DEF StartInv, TypeOK, ListenersUp, ServersListen, EmptySecret
<1>6. \A q \in Daemons : IsStarting(q)' <=> IsStarting(q)
  BY <1>2, <1>3, <1>4 DEF IsStarting, IsUp
<1>7. ASSUME ~overlapped'
      PROVE  Orderly'
  <2>1. Orderly
    BY <1>2, <1>7 DEF StartInv
  <2>2. pidFile' # pidFile =>
            \A q \in Daemons : q # p => pc[q] \notin Owning \cup {"PidCreate", "PidWrite"}
    BY <1>2, <2>1 DEF Orderly, OwnersPidFile, CreatorAlone
  <2>3. OneStarting' /\ OwnersPidFile' /\ CreatorAlone' /\ WriterHasFile'
    BY <1>2, <1>3, <1>4, <1>6, <2>1, <2>2
    DEF Orderly, OneStarting, OwnersPidFile, CreatorAlone, WriterHasFile
  <2>4. PanicAlone' /\ EndAlone'
    BY <1>2, <1>3, <1>4, <1>6, <2>1 DEF Orderly, PanicAlone, EndAlone
  <2>5. SecretWritten' /\ SecretKnown'
    BY <1>2, <1>3, <1>4, <2>1 DEF Orderly, SecretWritten, SecretKnown, StartInv, TypeOK
  <2>6. ASSUME config.unix, NEW q \in listening, q # p, socket = q,
               pc[q] # "ShutdownPid", pc[q] \in PanicHook => \E o \in Daemons : IsStarting(o)
        PROVE  socket' = q
    <3>1. q \in Daemons /\ pc[q] \in Up /\ p \notin listening
      BY <2>1, <2>6 DEF StartInv, TypeOK, ListenersUp, Orderly, SocketOfListener
    <3>2. CASE pc[p] \in PanicHook
      <4>1. \E o \in Daemons : o # p /\ (IsStarting(o) \/ pc[o] \in Owning)
        BY <1>2, <1>3, <2>6, <3>1, <3>2 DEF IsStarting
      <4> QED
        BY <1>2, <1>3, <2>1, <3>1, <3>2, <4>1 DEF Orderly, PanicAlone
    <3>3. CASE pc[p] \in ShuttingDown
      <4>1. pc[q] \notin Owning
        BY <2>1, <2>6, <3>1, <3>3 DEF Orderly, OwnersPidFile
      <4>2. pc[q] \in PanicHook
        BY <3>1, <4>1
      <4> QED
        BY <2>1, <2>6, <3>1, <3>3, <4>2 DEF Orderly, EndAlone
    <3> QED
      BY <1>2, <3>2, <3>3
  <2>7. config'.unix => SocketOfListener'
    <3> SUFFICES ASSUME config.unix PROVE SocketOfListener'
      BY <1>2
    <3>1. /\ listening' \subseteq listening /\ listening \subseteq Daemons
          /\ SocketOfListener
      BY <1>4, <2>1 DEF Orderly, StartInv, TypeOK
    <3>2. ASSUME NEW q \in listening', pc'[q] # "ShutdownPid",
                 pc'[q] \in PanicHook => \E o \in Daemons : IsStarting(o)'
          PROVE  socket' = q
      <4>1. q \in listening /\ q \in Daemons /\ (q = p => to = "PanicSocket")
        BY <1>1, <1>4, <3>1, <3>2, <1>3
      <4>2. pc[q] \in PanicHook => \E o \in Daemons : IsStarting(o)
        BY <1>2, <1>3, <1>4, <1>6, <3>2, <4>1
      <4>3. pc[q] # "ShutdownPid"
        BY <1>3, <1>4, <3>2, <4>1
      <4>4. socket = q
        BY <3>1, <4>1, <4>2, <4>3 DEF SocketOfListener
      <4>5. CASE q = p
        BY <1>2, <1>4, <4>1, <4>4, <4>5
      <4>6. CASE q # p
        BY <2>6, <4>1, <4>2, <4>3, <4>4, <4>6
      <4> QED
        BY <4>5, <4>6
    <3> QED
      BY <3>1, <3>2 DEF SocketOfListener
  <2>8. config'.unix => BinderAlone'
    <3>1. \A q \in Daemons : q # p /\ pc[q] = "SocketListen" /\ p \notin listening =>
              pc[p] \notin PanicHook
      BY <2>1 DEF Orderly, PanicAlone
    <3>2. \A q \in Daemons : q # p /\ pc[q] = "SocketListen" => pc[p] \notin ShuttingDown
      BY <2>1 DEF Orderly, OwnersPidFile
    <3> QED
      BY <1>2, <1>3, <1>4, <2>1, <3>1, <3>2 DEF Orderly, BinderAlone
  <2> QED
    BY <2>3, <2>4, <2>5, <2>7, <2>8 DEF Orderly
<1> QED
  BY <1>5, <1>7 DEF StartInv

\* A crash takes a process out of everything; a file it has not finished stays.
LEMMA CrashStep ==
    ASSUME StartInv, TypeOK', LoopsRun', NEW p \in Daemons, Crash(p)
    PROVE  StartInv'
<1> USE DEF Stage, Early, Saving, Binding, PanicHook, ShuttingDown, Dead, Up, Owning,
            HasSecret, files, stateFiles, process, history
<1>1. /\ pc' = [pc EXCEPT ![p] = "Idle"]
      /\ UNCHANGED << config, secret, socket, overlapped >>
      /\ listening' = listening \ {p}
      /\ wounds' = wounds \cup ({pc[p]} \cap Fragile)
      /\ \A q \in Daemons : q # p => known'[q] = known[q]
  BY DEF Crash, Forget, StartInv, TypeOK
<1>2. /\ pc'[p] = "Idle"
      /\ \A q \in Daemons : q # p => pc'[q] = pc[q]
  BY <1>1, Mover
<1>3. /\ pidFile'.there = pidFile.there /\ pidFile'.content = pidFile.content
      /\ pidFile'.open = pidFile.open \ {p}
  <2>1. pidFile \in PidFile
    BY DEF StartInv, TypeOK, PidFile
  <2> QED
    BY <2>1 DEF Crash, Closed, PidFile
<1>4. ListenersUp' /\ ServersListen'
  BY <1>1, <1>2 DEF StartInv, TypeOK, ListenersUp, ServersListen
<1>5. EmptySecret'
  BY <1>1, <1>2 DEF StartInv, EmptySecret, Fragile
<1>6. \A q \in Daemons : IsStarting(q)' => IsStarting(q) /\ q # p
  BY <1>1, <1>2 DEF IsStarting, IsUp
<1>7. ASSUME ~overlapped'
      PROVE  Orderly'
  <2>1. Orderly
    BY <1>1, <1>7 DEF StartInv
  <2>2. /\ OneStarting' /\ OwnersPidFile' /\ CreatorAlone' /\ WriterHasFile'
        /\ PanicAlone' /\ EndAlone'
    BY <1>1, <1>2, <1>3, <1>6, <2>1
    DEF Orderly, OneStarting, OwnersPidFile, CreatorAlone, WriterHasFile, PanicAlone, EndAlone
  <2>3. SecretWritten' /\ SecretKnown'
    BY <1>1, <1>2, <2>1 DEF Orderly, SecretWritten, SecretKnown, StartInv, TypeOK
  <2>4. config'.unix => SocketOfListener' /\ BinderAlone'
    BY <1>1, <1>2, <1>6, <2>1 DEF Orderly, SocketOfListener, BinderAlone, StartInv, TypeOK
  <2> QED
    BY <2>2, <2>3, <2>4 DEF Orderly
<1> QED
  BY <1>4, <1>5, <1>7 DEF StartInv

LEMMA StartInvStep == StartInv /\ [Next]_vars => StartInv'
<1> SUFFICES ASSUME StartInv, [Next]_vars PROVE StartInv'
  OBVIOUS
<1>1. ASSUME UNCHANGED << config, pc, files, process, history >>, TypeOK'
      PROVE  StartInv'
  BY <1>1 DEF StartInv, files, process, history, ListenersUp, ServersListen, LoopsRun, EmptySecret,
     Orderly, EndAlone, OneStarting, OwnersPidFile, CreatorAlone, WriterHasFile, PanicAlone,
     SecretWritten,
     SecretKnown, SocketOfListener, BinderAlone, IsStarting, IsUp
<1>2. CASE UNCHANGED vars
  <2>1. TypeOK'
    BY <1>2 DEF vars, files, stateFiles, process, history, TypeOK, StartInv
  <2> QED
    BY <1>1, <1>2, <2>1 DEF vars
<1>3. CASE Next
  <2> PICK p \in Daemons : Run(p) \/ Crash(p) \/ ReusePid(p)
    BY <1>3 DEF Next
  <2>1. TypeOK' /\ LoopsRun'
    BY TypeStep, LoopsRunStep DEF StartInv
  <2>2. CASE ReusePid(p)
    BY <1>1, <2>1, <2>2 DEF ReusePid
  <2> QED
    BY <2>1, <2>2, QuietSteps, StartStep, InitSharedSecretStep, CreatePidFileStep, BindingStep,
       ListenStep, ServeStep, CleanupStep, CrashStep DEF Run
<1> QED
  BY <1>2, <1>3

LEMMA StartInvInvariant == Spec => []StartInv
BY StartInvInit, StartInvStep, PTL DEF Spec

-----------------------------------------------------------------------------
(* What it means.                                                          *)

\* create_pid_file (pid.rs) with the order of the steps of run: as long as no daemon is
\* started beside one that is starting or in its panic hook, never two of them have the
\* state in their hands, however many are started and wherever they crash.
THEOREM OneDaemonAtMost == Spec => []OneDaemon
<1>1. StartInv => OneDaemon
  BY DEF StartInv, Orderly, OwnersPidFile, OneDaemon, HasState, Owning
<1> QED
  BY StartInvInvariant, <1>1, PTL

\* get_listener and socket_cleanup (unix.rs): the socket file of a daemon that accepts
\* requests is its own.
THEOREM ServingAlwaysReachable == Spec => []ServingReachable
<1>1. StartInv => ServingReachable
  BY DEF StartInv, Orderly, SocketOfListener, ServersListen, ServingReachable, PanicHook
<1> QED
  BY StartInvInvariant, <1>1, PTL

\* init_shared_secret and read_shared_secret (secret.rs): a daemon that accepts requests
\* compares with what is in the file, which is empty only after a crash between the
\* creation of the file and the write.
THEOREM ClientsAlwaysAuthorised == Spec => []ClientsAuthorised
<1>1. StartInv => ClientsAuthorised
  BY DEF StartInv, Orderly, SecretWritten, SecretKnown, EmptySecret, ServersListen,
     ClientsAuthorised, HasSecret, Owning
<1> QED
  BY StartInvInvariant, <1>1, PTL
-----------------------------------------------------------------------------
(***************************************************************************)
(* What a process leaves behind, and what the next one makes of it.        *)
(***************************************************************************)

\* Where a process has a partial file of its own.
InSave == {"SaveWrite", "SaveFinish", "Rename"}

\* A pid file is empty while it is being written, or after a crash in between.
EmptyPidFile ==
    ~overlapped /\ pidFile.there /\ pidFile.content = Nobody =>
        "PidWrite" \in wounds \/ \E q \in Daemons : pc[q] = "PidWrite"

CertificatesMade == \A p \in Daemons : pc[p] \notin Dead \cup {"Certificates"} => certs # "none"

\* The same for the certificates, and for the partial file of a save.
BrokenCertificates ==
    certs = "broken" => "Key" \in wounds \/ \E q \in Daemons : pc[q] = "Key"

LeftPartial ==
    partial.there => \/ wounds \cap InSave # {}
                     \/ "SaveWrite" \in faults
                     \/ \E q \in Daemons : pc[q] \in InSave

\* Nobody takes the partial file of a start away, or puts a socket in its way.
PartialKept ==
    ~overlapped => \A p \in Daemons : pc[p] \in InSave => partial.there

SocketKept == ~overlapped => \A p \in Daemons : pc[p] = "SocketBind" => socket = Nobody

UnixPlaces ==
    \A p \in Daemons :
        pc[p] \in {"SocketConnect", "SocketRemove", "SocketBind", "SocketListen"} => config.unix

WreckInv ==
    /\ EmptyPidFile
    /\ CertificatesMade /\ BrokenCertificates
    /\ LeftPartial /\ PartialKept
    /\ UnixPlaces /\ SocketKept

LEMMA WreckInvInit == Init => WreckInv
<1> SUFFICES ASSUME Init PROVE WreckInv
  OBVIOUS
<1>1. \A p \in Daemons : pc[p] = "Idle" /\ p # Nobody
  BY NobodyAssumption DEF Init
<1> QED
  BY <1>1
  DEF Init, NoPidFile, Missing, Dead, WreckInv, EmptyPidFile, CertificatesMade,
      BrokenCertificates, LeftPartial, PartialKept, InSave, SocketKept, UnixPlaces

\* What a step leaves alone.
LEMMA StepOfOne ==
    ASSUME TypeOK, NEW p \in Daemons, Run(p) \/ Crash(p) \/ ReusePid(p)
    PROVE  /\ \A q \in Daemons : q # p => pc'[q] = pc[q]
           /\ UNCHANGED config
           /\ ~overlapped' => ~overlapped
           /\ wounds \subseteq wounds'
           /\ faults \subseteq faults'
           /\ ~Crash(p) => UNCHANGED wounds
<1> USE DEF TypeOK, Step, files, stateFiles, process, history
<1>1. CASE Start(p) \/ CreateCertificates(p) \/ InitSharedSecret(p) \/ CreatePidFile(p)
  BY <1>1 DEF Start, CreateCertificates, InitSharedSecret, CreatePidFile
<1>2. CASE RestoreState(p) \/ SaveOpen(p) \/ SaveWrite(p)
  BY <1>2 DEF RestoreState, SaveOpen, SaveWrite, SaveFails
<1>3. CASE Rename(p) \/ FinishEncoder(p)
  BY <1>3 DEF Rename, FinishEncoder, SaveFails
<1>4. CASE FirstTick(p) \/ CheckSocket(p) \/ RemoveSocket(p) \/ BindSocket(p)
  BY <1>4 DEF FirstTick, CheckSocket, RemoveSocket, BindSocket
<1>5. CASE Listen(p) \/ BindPort(p) \/ ReadSharedSecret(p)
  BY <1>5 DEF Listen, BindPort, ReadSharedSecret
<1>6. CASE Change(p) \/ Shutdown(p) \/ Panic(p) \/ Cleanup(p)
  BY <1>6 DEF Change, Shutdown, Panic, Cleanup
<1>7. CASE Crash(p) \/ ReusePid(p)
  BY <1>7 DEF Crash, ReusePid
<1> QED
  BY <1>1, <1>2, <1>3, <1>4, <1>5, <1>6, <1>7 DEF Run

LEMMA CertificatesStep ==
    ASSUME TypeOK, NEW p \in Daemons, Run(p) \/ Crash(p) \/ ReusePid(p),
           CertificatesMade, BrokenCertificates
    PROVE  CertificatesMade' /\ BrokenCertificates'
<1> USE DEF TypeOK, Step, files, stateFiles, process, history, CertificatesMade,
            BrokenCertificates, Dead,
            Early, Saving, Binding, PanicHook, ShuttingDown
<1>1. /\ \A q \in Daemons : q # p => pc'[q] = pc[q]
      /\ wounds \subseteq wounds'
  BY StepOfOne
<1>2. CASE CreateCertificates(p)
  BY <1>1, <1>2 DEF CreateCertificates
<1>3. CASE Crash(p)
  <2>1. /\ certs' = certs /\ pc'[p] = "Idle"
        /\ pc[p] = "Key" => "Key" \in wounds'
    BY <1>3 DEF Crash, Fragile
  <2>2. CertificatesMade'
    BY <1>1, <2>1
  <2>3. BrokenCertificates'
    BY <1>1, <2>1
  <2> QED
    BY <2>2, <2>3
<1>4. CASE Start(p)
  BY <1>1, <1>4 DEF Start
<1>5. CASE /\ UNCHANGED certs
           /\ pc[p] \notin Dead \cup {"Certificates", "Key"}
  BY <1>1, <1>5
<1>6. CASE InitSharedSecret(p) \/ CreatePidFile(p) \/ RestoreState(p)
  BY <1>5, <1>6 DEF InitSharedSecret, CreatePidFile, RestoreState
<1>7. CASE SaveOpen(p) \/ SaveWrite(p) \/ Rename(p) \/ FinishEncoder(p)
  BY <1>5, <1>7 DEF SaveOpen, SaveWrite, Rename, FinishEncoder
<1>8. CASE FirstTick(p) \/ CheckSocket(p) \/ RemoveSocket(p) \/ BindSocket(p)
  BY <1>5, <1>8 DEF FirstTick, CheckSocket, RemoveSocket, BindSocket
<1>9. CASE Listen(p) \/ BindPort(p) \/ ReadSharedSecret(p)
  BY <1>5, <1>9 DEF Listen, BindPort, ReadSharedSecret
<1>10. CASE Change(p) \/ Shutdown(p) \/ Panic(p) \/ Cleanup(p)
  BY <1>5, <1>10 DEF Change, Shutdown, Panic, Cleanup
<1>11. CASE ReusePid(p)
  BY <1>11 DEF ReusePid
<1> QED
  BY <1>2, <1>3, <1>4, <1>6, <1>7, <1>8, <1>9, <1>10, <1>11 DEF Run

LEMMA PidFileStep ==
    ASSUME StartInv, NEW p \in Daemons, Run(p) \/ Crash(p) \/ ReusePid(p),
           EmptyPidFile
    PROVE  EmptyPidFile'
<1> USE DEF Step, files, stateFiles, process, history, EmptyPidFile, Dead
<1>1. /\ \A q \in Daemons : q # p => pc'[q] = pc[q]
      /\ wounds \subseteq wounds'
      /\ ~overlapped' => ~overlapped
  BY StepOfOne DEF StartInv
<1>2. /\ pc \in [Daemons -> Stage]
      /\ pidFile \in PidFile
      /\ Nobody \notin Daemons
      /\ ~overlapped => WriterHasFile
  BY NobodyAssumption DEF StartInv, TypeOK, PidFile, Orderly
<1>3. CASE CreatePidFile(p)
  <2>1. CASE pc[p] \in {"PidCheck", "PidOpen"}
    BY <1>1, <1>2, <1>3, <2>1 DEF CreatePidFile
  <2>2. CASE pc[p] = "PidCreate"
    BY <1>1, <1>2, <1>3, <2>2 DEF CreatePidFile
  <2>3. CASE pc[p] = "PidWrite"
    <3>1. /\ pc'[p] = "Restore"
          /\ pidFile' = IF p \in pidFile.open
                        THEN [pidFile EXCEPT !.content = p, !.open = @ \ {p}]
                        ELSE pidFile
      BY <1>2, <1>3, <2>3 DEF CreatePidFile
    <3>2. /\ pidFile'.content \in {p, pidFile.content}
          /\ p \in pidFile.open => pidFile'.content = p
      BY <1>2, <3>1 DEF PidFile
    <3> QED
      BY <1>1, <1>2, <2>3, <3>2 DEF WriterHasFile
  <2> QED
    BY <1>3, <2>1, <2>2, <2>3 DEF CreatePidFile
<1>4. CASE Crash(p)
  BY <1>1, <1>2, <1>4 DEF Crash, Closed, Fragile, PidFile
<1>5. CASE Cleanup(p)
  BY <1>1, <1>2, <1>5 DEF Cleanup, NoPidFile
<1>6. CASE /\ UNCHANGED pidFile
           /\ pc[p] # "PidWrite"
  BY <1>1, <1>6
<1>7. CASE Start(p) \/ CreateCertificates(p) \/ InitSharedSecret(p) \/ RestoreState(p)
  BY <1>2, <1>6, <1>7 DEF Start, CreateCertificates, InitSharedSecret, RestoreState
<1>8. CASE SaveOpen(p) \/ SaveWrite(p) \/ Rename(p) \/ FinishEncoder(p)
  BY <1>2, <1>6, <1>8
  DEF SaveOpen, SaveWrite, Rename, FinishEncoder, SaveFails, AfterSave
<1>9. CASE FirstTick(p) \/ CheckSocket(p) \/ RemoveSocket(p) \/ BindSocket(p)
  BY <1>2, <1>6, <1>9 DEF FirstTick, CheckSocket, RemoveSocket, BindSocket
<1>10. CASE Listen(p) \/ BindPort(p) \/ ReadSharedSecret(p)
  BY <1>2, <1>6, <1>10 DEF Listen, BindPort, ReadSharedSecret
<1>11. CASE Change(p) \/ Shutdown(p) \/ Panic(p)
  BY <1>2, <1>6, <1>11 DEF Change, Shutdown, Panic
<1>12. CASE ReusePid(p)
  BY <1>12 DEF ReusePid
<1> QED
  BY <1>3, <1>4, <1>5, <1>7, <1>8, <1>9, <1>10, <1>11, <1>12 DEF Run

\* Who has the state has it alone.
LEMMA OwnerAlone ==
    ASSUME StartInv, ~overlapped, NEW p \in Daemons, NEW q \in Daemons,
           pc[p] \in Owning, pc[q] \in Owning
    PROVE  p = q
BY DEF StartInv, Orderly, OwnersPidFile

LEMMA PartialStep ==
    ASSUME StartInv, NEW p \in Daemons, Run(p) \/ Crash(p) \/ ReusePid(p),
           LeftPartial, PartialKept
    PROVE  LeftPartial' /\ PartialKept'
<1> USE DEF Step, files, stateFiles, process, history, LeftPartial, PartialKept, InSave, Dead
<1>1. /\ \A q \in Daemons : q # p => pc'[q] = pc[q]
      /\ wounds \subseteq wounds' /\ faults \subseteq faults'
      /\ ~overlapped' => ~overlapped
  BY StepOfOne DEF StartInv
<1>2. pc \in [Daemons -> Stage] /\ partial \in StateFile
  BY DEF StartInv, TypeOK
<1>3. CASE SaveOpen(p)
  BY <1>1, <1>2, <1>3 DEF SaveOpen, SaveFails, AfterSave, StateFile
<1>4. CASE SaveWrite(p)
  BY <1>1, <1>2, <1>4 DEF SaveWrite, SaveFails, AfterSave, WriteAndClose, Written, Closed,
     StateFile
<1>5. CASE Rename(p)
  <2>1. ~overlapped => \A q \in Daemons : q # p => pc[q] \notin InSave
    BY <1>5, OwnerAlone DEF Rename, Owning, Saving
  <2>2. ~partial'.there
    BY <1>5 DEF Rename, Missing
  <2>3. pc'[p] \notin InSave
    BY <1>2, <1>5 DEF Rename, SaveFails, AfterSave
  <2> QED
    BY <1>1, <2>1, <2>2, <2>3
<1>6. CASE FinishEncoder(p)
  BY <1>1, <1>2, <1>6 DEF FinishEncoder, WriteAndClose, Written, Closed, StateFile
<1>7. CASE Crash(p)
  BY <1>1, <1>2, <1>7 DEF Crash, Closed, Fragile, StateFile
<1>8. CASE /\ UNCHANGED partial
           /\ pc[p] \notin InSave
           /\ pc'[p] \notin InSave
  BY <1>1, <1>8
<1>9. CASE Start(p) \/ CreateCertificates(p) \/ InitSharedSecret(p) \/ CreatePidFile(p)
  BY <1>2, <1>8, <1>9 DEF Start, CreateCertificates, InitSharedSecret, CreatePidFile
<1>10. CASE RestoreState(p) \/ FirstTick(p) \/ CheckSocket(p) \/ RemoveSocket(p)
  BY <1>2, <1>8, <1>10 DEF RestoreState, FirstTick, CheckSocket, RemoveSocket
<1>11. CASE BindSocket(p) \/ Listen(p) \/ BindPort(p) \/ ReadSharedSecret(p)
  BY <1>2, <1>8, <1>11 DEF BindSocket, Listen, BindPort, ReadSharedSecret
<1>12. CASE Change(p) \/ Shutdown(p) \/ Panic(p) \/ Cleanup(p)
  BY <1>2, <1>8, <1>12 DEF Change, Shutdown, Panic, Cleanup
<1>13. CASE ReusePid(p)
  BY <1>13 DEF ReusePid
<1> QED
  BY <1>3, <1>4, <1>5, <1>6, <1>7, <1>9, <1>10, <1>11, <1>12, <1>13 DEF Run

LEMMA SocketStep ==
    ASSUME StartInv, StartInv', NEW p \in Daemons, Run(p) \/ Crash(p) \/ ReusePid(p),
           UnixPlaces, SocketKept
    PROVE  UnixPlaces' /\ SocketKept'
<1> USE DEF Step, files, stateFiles, process, history, UnixPlaces, SocketKept, Dead
<1>1. /\ \A q \in Daemons : q # p => pc'[q] = pc[q]
      /\ ~overlapped' => ~overlapped
      /\ UNCHANGED config
  BY StepOfOne DEF StartInv
<1>2. pc \in [Daemons -> Stage] /\ Nobody \notin Daemons
  BY NobodyAssumption DEF StartInv, TypeOK
<1>3. CASE CheckSocket(p)
  BY <1>1, <1>2, <1>3 DEF CheckSocket
<1>4. ASSUME ~overlapped, pc[p] \in Owning, NEW q \in Daemons, q # p
      PROVE  pc[q] \notin {"SocketBind"}
  BY <1>4, OwnerAlone DEF Owning, Binding
<1>5. CASE RemoveSocket(p) \/ BindSocket(p)
  <2>1. pc[p] \in Owning
    BY <1>5 DEF RemoveSocket, BindSocket, Owning, Binding
  <2> QED
    BY <1>1, <1>2, <1>4, <1>5, <2>1 DEF RemoveSocket, BindSocket
<1>6. CASE Cleanup(p)
  <2>1. pc'[p] \notin {"SocketConnect", "SocketRemove", "SocketBind", "SocketListen"}
    BY <1>2, <1>6 DEF Cleanup
  <2>3. socket' = socket \/ socket' = Nobody
    BY <1>6 DEF Cleanup
  <2> QED
    BY <1>1, <2>1, <2>3
<1>7. CASE /\ UNCHANGED socket
           /\ pc'[p] \notin {"SocketConnect", "SocketRemove", "SocketBind", "SocketListen"}
  BY <1>1, <1>7
<1>8. CASE Start(p) \/ CreateCertificates(p) \/ InitSharedSecret(p) \/ CreatePidFile(p)
  BY <1>2, <1>7, <1>8 DEF Start, CreateCertificates, InitSharedSecret, CreatePidFile
<1>9. CASE RestoreState(p) \/ SaveOpen(p) \/ SaveWrite(p) \/ Rename(p) \/ FinishEncoder(p)
  BY <1>2, <1>7, <1>9 DEF RestoreState, SaveOpen, SaveWrite, Rename, FinishEncoder, SaveFails,
     AfterSave
<1>10. CASE FirstTick(p) \/ Listen(p) \/ BindPort(p) \/ ReadSharedSecret(p)
  BY <1>2, <1>7, <1>10 DEF FirstTick, Listen, BindPort, ReadSharedSecret
<1>11. CASE Change(p) \/ Shutdown(p) \/ Panic(p) \/ Crash(p)
  BY <1>2, <1>7, <1>11 DEF Change, Shutdown, Panic, Crash
<1>12. CASE ReusePid(p)
  BY <1>12 DEF ReusePid
<1> QED
  BY <1>3, <1>5, <1>6, <1>8, <1>9, <1>10, <1>11, <1>12 DEF Run

LEMMA WreckInvStep == StartInv /\ WreckInv /\ [Next]_vars => WreckInv'
<1> SUFFICES ASSUME StartInv, WreckInv, [Next]_vars PROVE WreckInv'
  OBVIOUS
<1>1. StartInv'
  BY StartInvStep
<1>2. CASE UNCHANGED vars
  BY <1>2 DEF vars, files, stateFiles, process, history, WreckInv, EmptyPidFile,
     CertificatesMade, BrokenCertificates, LeftPartial, PartialKept, SocketKept, UnixPlaces
<1>3. CASE Next
  <2> PICK p \in Daemons : Run(p) \/ Crash(p) \/ ReusePid(p)
    BY <1>3 DEF Next
  <2> QED
    BY <1>1, CertificatesStep, PidFileStep, PartialStep, SocketStep DEF WreckInv, StartInv
<1> QED
  BY <1>2, <1>3

\* A process that has not ended exists.
LEMMA LivingExists ==
    ASSUME NEW p \in Daemons, NEW q \in Daemons, q # p, pc[q] \notin Dead
    PROVE  \E o \in Daemons \ {p} : ProcessExists(o)
BY DEF ProcessExists

\* What FailsOnlyForReason allows.
Reason(p) ==
    \/ \E q \in Daemons \ {p} : ProcessExists(q)
    \/ pc[p] = "PidOpen" /\ pidFile.content = p
    \/ Vanished(p)
    \/ pc[p] = "SaveWrite" /\ "SaveWrite" \in faults'
    \/ \E stage \in wounds : LeavesWreck(stage)
    \/ "SaveWrite" \in faults /\ LeavesWreck("SaveWrite")

LEMMA FailingStep ==
    ASSUME StartInv, WreckInv, ~overlapped, NEW p \in Daemons, Run(p) \/ Crash(p) \/ ReusePid(p),
           pc[p] # "Failed", pc'[p] = "Failed"
    PROVE  Reason(p)
<1> USE DEF Step, files, stateFiles, process, history, Dead, Reason
<1>1. /\ pc \in [Daemons -> Stage] /\ Nobody \notin Daemons /\ socket \in Daemons \cup {Nobody}
      /\ listening \subseteq Daemons
      /\ pidFile \in PidFile /\ certs \in {"none", "broken", "whole"}
      /\ config \in [compress : Compression, unix : UnixSockets]
      /\ Orderly
  BY NobodyAssumption DEF StartInv, TypeOK, PidFile
<1>2. \A q \in listening : pc[q] \notin Dead /\ (pc[q] \in Up)
  BY DEF StartInv, ListenersUp, Up, Saving, ShuttingDown, PanicHook
<1>3. \A q \in Daemons : q # p /\ pc[q] \notin Dead => \E o \in Daemons \ {p} : ProcessExists(o)
  BY LivingExists
<1>4. CASE CreatePidFile(p)
  <2>1. pc[p] = "PidOpen" /\ ~PidFileAllows
    BY <1>1, <1>4 DEF CreatePidFile
  <2> SUFFICES ASSUME pidFile.there, pidFile.content # p PROVE Reason(p)
    BY <2>1 DEF Vanished
  <2>2. pidFile.there /\ (pidFile.content = Nobody \/ ProcessExists(pidFile.content))
    BY <2>1 DEF PidFileAllows
  <2>4. CASE pidFile.content = Nobody
    <3>1. CASE "PidWrite" \in wounds
      BY <3>1 DEF LeavesWreck
    <3>2. CASE \E q \in Daemons : pc[q] = "PidWrite"
      BY <1>3, <2>1, <3>2
    <3> QED
      BY <2>2, <2>4, <3>1, <3>2 DEF WreckInv, EmptyPidFile
  <2>5. CASE pidFile.content # Nobody
    BY <1>1, <2>2, <2>5 DEF ProcessExists
  <2> QED
    BY <2>4, <2>5
<1>5. CASE SaveOpen(p)
  <2>1. config.compress /\ partial.there /\ pc[p] = "SaveOpen"
    BY <1>1, <1>5 DEF SaveOpen
  <2>2. CASE wounds \cap InSave # {}
    BY <2>1, <2>2 DEF LeavesWreck, InSave
  <2>3. CASE \E q \in Daemons : pc[q] \in InSave
    BY <1>3, <2>1, <2>3 DEF InSave
  <2>4. CASE "SaveWrite" \in faults
    BY <2>1, <2>4 DEF LeavesWreck
  <2> QED
    BY <2>1, <2>2, <2>3, <2>4 DEF WreckInv, LeftPartial
<1>6. CASE Rename(p)
  <2>1. partial.there
    BY <1>6 DEF Rename, WreckInv, PartialKept, InSave
  <2> QED
    BY <1>1, <1>6, <2>1 DEF Rename, AfterSave
<1>7. CASE CheckSocket(p)
  <2>1. pc[p] = "SocketConnect" /\ socket \in listening
    BY <1>1, <1>7 DEF CheckSocket, SocketAnswers
  <2>2. socket # p
    BY <1>2, <2>1 DEF Up, Saving, ShuttingDown, PanicHook
  <2> QED
    BY <1>1, <1>2, <1>3, <2>1, <2>2
<1>8. CASE RemoveSocket(p) \/ BindSocket(p)
  BY <1>1, <1>8 DEF RemoveSocket, BindSocket, WreckInv, SocketKept, Vanished
<1>9. CASE Listen(p)
  <2>1. config.unix /\ pc[p] = "SocketListen"
    BY <1>9 DEF Listen, WreckInv, UnixPlaces
  <2> QED
    BY <1>1, <1>9, <2>1 DEF Listen, Orderly, BinderAlone
<1>10. CASE BindPort(p)
  <2>1. ~config.unix /\ pc[p] = "SocketCheck" /\ (listening # {} \/ certs # "whole")
    BY <1>1, <1>10 DEF BindPort
  <2>2. CASE listening # {}
    <3>1. PICK q \in listening : TRUE
      BY <2>2
    <3>2. q # p
      BY <1>2, <2>1 DEF Up, Saving, ShuttingDown, PanicHook
    <3> QED
      BY <1>1, <1>2, <1>3, <3>2
  <2>3. CASE certs # "whole"
    <3>1. certs = "broken"
      BY <1>1, <2>1, <2>3 DEF WreckInv, CertificatesMade
    <3>2. CASE "Key" \in wounds
      BY <2>1, <3>2 DEF LeavesWreck
    <3>3. CASE \E q \in Daemons : pc[q] = "Key"
      BY <1>3, <2>1, <3>3
    <3> QED
      BY <3>1, <3>2, <3>3 DEF WreckInv, BrokenCertificates
  <2> QED
    BY <2>1, <2>2, <2>3
<1>11. ~(Start(p) \/ CreateCertificates(p) \/ InitSharedSecret(p) \/ RestoreState(p))
  BY <1>1 DEF Start, CreateCertificates, InitSharedSecret, RestoreState
<1>12. ~(FinishEncoder(p) \/ FirstTick(p) \/ ReadSharedSecret(p))
  BY <1>1 DEF FinishEncoder, FirstTick, ReadSharedSecret
<1>14. CASE SaveWrite(p)
  BY <1>1, <1>14 DEF SaveWrite
<1>13. ~(Change(p) \/ Shutdown(p) \/ Panic(p) \/ Cleanup(p) \/ Crash(p) \/ ReusePid(p))
  BY <1>1 DEF Change, Shutdown, Panic, Cleanup, Crash, ReusePid
<1> QED
  BY <1>4, <1>5, <1>6, <1>7, <1>8, <1>9, <1>10, <1>11, <1>12, <1>13,
     <1>14 DEF Run

\* create_pid_file, save, get_listener and create_certificates, one after the other: a start
\* that is not disturbed by a start beside it fails only while another daemon or a program
\* with its pid runs, when a stale pid is its own, when a file it has seen is taken away, when
\* its save cannot be written, or after a crash or failed write that LeavesWreck names.
THEOREM StartsFailForReason == Spec => FailsOnlyForReason
<1> DEFINE Reasonable ==
      \A p \in Daemons :
          ~overlapped /\ pc[p] # "Failed" /\ pc'[p] = "Failed" => Reason(p)
<1>1. ASSUME StartInv, WreckInv, [Next]_vars
      PROVE  [Reasonable]_vars
  <2> SUFFICES ASSUME Next, NEW o \in Daemons, ~overlapped, pc[o] # "Failed", pc'[o] = "Failed"
               PROVE  Reason(o)
    BY <1>1
  <2>1. PICK p \in Daemons : Run(p) \/ Crash(p) \/ ReusePid(p)
    BY DEF Next
  <2>2. o = p
    BY <1>1, <2>1, StepOfOne DEF StartInv
  <2> QED
    BY <1>1, <2>1, <2>2, FailingStep
<1> HIDE DEF Reasonable
<1>2. Spec => [](StartInv /\ WreckInv)
  BY StartInvInit, StartInvStep, WreckInvInit, WreckInvStep, PTL DEF Spec
<1>3. Spec => [][Reasonable]_vars
  BY <1>1, <1>2, PTL DEF Spec
<1> QED
  BY <1>3 DEF FailsOnlyForReason, Reasonable, Reason

-----------------------------------------------------------------------------
(***************************************************************************)
(* The state file.                                                         *)
(***************************************************************************)

\* Where a process has the partial file open.
Opened == {"SaveWrite", "SaveFinish"}

\* The file under its final name is not being written, and what is renamed is complete.
SavedInv ==
    ~overlapped /\ "SaveFinish" \notin faults =>
        /\ real.open = {}
        /\ \A p \in partial.open : pc[p] \in Opened
        /\ \A p \in Daemons : pc[p] \in Opened => p \in partial.open
        /\ \A p \in Daemons : pc[p] = "Rename" => partial.content = memory[p]
        /\ Restored(real) >= saved

LEMMA SavedInvInit == Init => SavedInv
<1> SUFFICES ASSUME Init PROVE SavedInv
  OBVIOUS
<1>1. \A p \in Daemons : pc[p] = "Idle"
  BY DEF Init
<1> QED
  BY <1>1 DEF Init, SavedInv, Opened, Missing, Restored, Torn, Empty

\* Where no save is under way, nothing changes.
LEMMA NoSaveStep ==
    ASSUME StartInv, SavedInv, NEW p \in Daemons, Run(p) \/ ReusePid(p),
           UNCHANGED << real, partial, saved >>,
           pc[p] \notin InSave, pc'[p] \notin InSave,
           \A q \in Daemons : q # p => memory'[q] = memory[q]
    PROVE  SavedInv'
<1>1. /\ \A q \in Daemons : q # p => pc'[q] = pc[q]
      /\ ~overlapped' => ~overlapped
      /\ faults \subseteq faults'
      /\ partial.open \subseteq Daemons
  BY StepOfOne DEF StartInv, TypeOK, StateFile
<1> QED
  BY <1>1 DEF SavedInv, Restored, InSave, Opened

LEMMA SavedInvStep == StartInv /\ SavedInv /\ [Next]_vars => SavedInv'
<1> SUFFICES ASSUME StartInv, SavedInv, [Next]_vars PROVE SavedInv'
  OBVIOUS
<1>1. CASE UNCHANGED vars
  BY <1>1 DEF vars, files, stateFiles, process, history, SavedInv, Restored
<1>2. CASE Next
  <2> PICK p \in Daemons : Run(p) \/ Crash(p) \/ ReusePid(p)
    BY <1>2 DEF Next
  <2>1. /\ \A q \in Daemons : q # p => pc'[q] = pc[q]
        /\ ~overlapped' => ~overlapped
        /\ faults \subseteq faults'
    BY StepOfOne DEF StartInv
  <2>2. /\ pc \in [Daemons -> Stage] /\ memory \in [Daemons -> Versions]
        /\ real \in StateFile /\ partial \in StateFile
        /\ config.compress \in BOOLEAN
    BY SettingsAssumption DEF StartInv, TypeOK
  <2> USE DEF Step, files, stateFiles, process, history, InSave, Opened
  <2>3. ASSUME ~overlapped, pc[p] \in Saving, NEW q \in Daemons, q # p
        PROVE  pc[q] \notin Saving
    BY <2>3, OwnerAlone DEF Owning
  <2>4. CASE SaveOpen(p)
    BY <2>1, <2>2, <2>3, <2>4
    DEF SaveOpen, SaveFails, AfterSave, SavedInv, Restored, Saving, StateFile
  <2>5. CASE SaveWrite(p)
    BY <2>1, <2>2, <2>3, <2>5
    DEF SaveWrite, SaveFails, AfterSave, WriteAndClose, Written, Closed, SavedInv, Restored, Saving,
        StateFile
  <2>6. CASE Rename(p)
    BY <2>1, <2>2, <2>3, <2>6
    DEF Rename, SaveFails, AfterSave, Closed, Missing, SavedInv, Restored,
        Saving, StateFile, Versions, Torn, Empty
  <2>7. CASE FinishEncoder(p)
    BY <2>1, <2>2, <2>3, <2>7
    DEF FinishEncoder, WriteAndClose, Written, Closed, SavedInv, Restored, Saving, StateFile
  <2>8. CASE Crash(p)
    BY <2>1, <2>2, <2>8 DEF Crash, Forget, Closed, SavedInv, Restored, StateFile
  <2>9. CASE CreateCertificates(p) \/ InitSharedSecret(p) \/ CreatePidFile(p)
    BY <2>2, <2>9, NoSaveStep
    DEF Run, CreateCertificates, InitSharedSecret, CreatePidFile
  <2>14. CASE Start(p)
    <3>1. /\ pc'[p] = "Certificates" /\ pc[p] \in Dead
          /\ UNCHANGED << real, partial, saved >>
          /\ \A q \in Daemons : q # p => memory'[q] = memory[q]
      BY <2>2, <2>14 DEF Start, Forget
    <3> QED
      BY <2>14, <3>1, NoSaveStep DEF Run, Dead
  <2>10. CASE RestoreState(p) \/ FirstTick(p) \/ CheckSocket(p) \/ RemoveSocket(p)
    BY <2>2, <2>10, NoSaveStep DEF Run, RestoreState, FirstTick, CheckSocket, RemoveSocket
  <2>11. CASE BindSocket(p) \/ Listen(p) \/ BindPort(p) \/ ReadSharedSecret(p)
    BY <2>2, <2>11, NoSaveStep DEF Run, BindSocket, Listen, BindPort, ReadSharedSecret
  <2>12. CASE Change(p) \/ Shutdown(p) \/ Panic(p) \/ Cleanup(p)
    BY <2>2, <2>12, NoSaveStep DEF Run, Change, Shutdown, Panic, Cleanup, Forget
  <2>13. CASE ReusePid(p)
    BY <2>1, <2>13 DEF ReusePid, SavedInv, Restored
  <2> QED
    BY <2>4, <2>5, <2>6, <2>7, <2>8, <2>9, <2>10, <2>11, <2>12, <2>13, <2>14 DEF Run
<1> QED
  BY <1>1, <1>2

\* save and restore_state (state.rs): wherever a daemon crashes, the next one begins with
\* what the last save that returned wrote, or with something newer, unless two daemons were
\* started at once or the end of a compressed state could not be written.
THEOREM LastSaveIsRestored == Spec => RestoresLastSave
<1> DEFINE Recovers ==
      \A p \in Daemons :
          RestoreState(p) /\ ~overlapped /\ "SaveFinish" \notin faults => memory'[p] >= saved
<1>1. ASSUME StartInv, SavedInv, [Next]_vars
      PROVE  [Recovers]_vars
  <2>1. \A p \in Daemons : RestoreState(p) => memory'[p] = Restored(real)
    BY <1>1 DEF RestoreState, StartInv, TypeOK
  <2> QED
    BY <1>1, <2>1 DEF SavedInv
<1> HIDE DEF Recovers
<1>2. Spec => [](StartInv /\ SavedInv)
  BY StartInvInit, StartInvStep, SavedInvInit, SavedInvStep, PTL DEF Spec
<1>3. Spec => [][Recovers]_vars
  BY <1>1, <1>2, PTL DEF Spec
<1> QED
  BY <1>3 DEF RestoresLastSave, Recovers
=============================================================================
