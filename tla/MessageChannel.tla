--------------------------- MODULE MessageChannel ---------------------------
(***************************************************************************)
(* What the protocol of pueue_lib/src/network/protocol.rs promises to the  *)
(* two ends of a connection: whole messages, each at most once, in the     *)
(* order they were sent.  Nothing is said of packets, sizes or chunks.     *)
(***************************************************************************)
EXTENDS Naturals, Sequences

CONSTANTS
    Ends,       \* the two ends of a connection
    Messages    \* what an end may send

VARIABLES
    sent,       \* [Ends -> Seq(Messages)]: what each end has begun to send
    taken       \* [Ends -> Seq(Messages)]: what each end has received

vars == <<sent, taken>>

Init ==
    /\ sent = [e \in Ends |-> <<>>]
    /\ taken = [e \in Ends |-> <<>>]

Send(e, message) ==
    /\ sent' = [sent EXCEPT ![e] = Append(@, message)]
    /\ UNCHANGED taken

Take(e, from) ==
    /\ Len(taken[e]) < Len(sent[from])
    /\ taken' = [taken EXCEPT ![e] = Append(@, sent[from][Len(@) + 1])]
    /\ UNCHANGED sent

Next ==
    \/ \E e \in Ends, message \in Messages : Send(e, message)
    \/ \E e \in Ends, from \in Ends : from # e /\ Take(e, from)

Spec == Init /\ [][Next]_vars
=============================================================================
