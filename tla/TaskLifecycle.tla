--------------------------- MODULE TaskLifecycle ---------------------------
(***************************************************************************)
(* What the daemon promises for its tasks, whatever groups, priorities,    *)
(* dependencies, limits and signals do: a task waits, runs as exactly one  *)
(* process, and is done; only a done task waits again, and a task with a   *)
(* process is never forgotten.                                             *)
(***************************************************************************)
CONSTANT Ids

VARIABLES phase,     \* phase of every task id
          processes  \* the ids that have a process

lvars == << phase, processes >>

Phase == {"absent", "waiting", "active", "done"}

Init ==
    /\ phase = [i \in Ids |-> "absent"]
    /\ processes = {}

\* The tasks S, all in a phase of from, go to the phase to.
Move(S, from, to) ==
    /\ \A i \in S : phase[i] \in from
    /\ phase' = [i \in Ids |-> IF i \in S THEN to ELSE phase[i]]

Submit(i) == Move({i}, {"absent"}, "waiting") /\ UNCHANGED processes

Launch(i) == Move({i}, {"waiting"}, "active") /\ processes' = processes \cup {i}

Finish(S) ==
    /\ S # {}
    /\ Move(S, {"active"}, "done")
    /\ processes' = processes \ S

\* Waiting tasks fail without ever having run.
GiveUp(S) == S # {} /\ Move(S, {"waiting"}, "done") /\ UNCHANGED processes

Requeue(S) == S # {} /\ Move(S, {"done"}, "waiting") /\ UNCHANGED processes

Discard(S) == S # {} /\ Move(S, {"waiting", "done"}, "absent") /\ UNCHANGED processes

Next ==
    \/ \E i \in Ids : Submit(i) \/ Launch(i)
    \/ \E S \in SUBSET Ids : Finish(S) \/ GiveUp(S) \/ Requeue(S) \/ Discard(S)

Spec == Init /\ [][Next]_lvars

\* A task counts as active exactly while it has a process.
ProcessesAreActive == processes = {i \in Ids : phase[i] = "active"}

=============================================================================
