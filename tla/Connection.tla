----------------------------- MODULE Connection -----------------------------
(***************************************************************************)
(* One client and the daemon on one connection: the framing of messages    *)
(* (pueue_lib/src/network/protocol.rs), the handshake (network/client.rs   *)
(* and daemon/network/socket/mod.rs) and the loop of requests and answers. *)
(*                                                                         *)
(* A frame is a header that holds the size of the payload, followed by the *)
(* payload.  Both are cut into units: one for the header, which is read as *)
(* a whole, and one per piece of the payload.  The stream delivers what    *)
(* was written in order, in portions of any length, and may end after any  *)
(* unit.                                                                   *)
(***************************************************************************)
EXTENDS Integers, Sequences, FiniteSets

CONSTANTS
    PacketSize,     \* units that one read asks for at most
    LargeSize,      \* payload of an answer that holds the state or a log
    SecretLimit,    \* largest secret the daemon accepts
    Secrets,        \* the secrets a client may have
    Programs,       \* the sequences of requests that a client's command makes
    MaxChunks,      \* bound on the portions of a followed log
    OthersStop      \* another client may ask for the shutdown

ASSUME ConnectionAssumption ==
    /\ PacketSize \in Nat \ {0}
    /\ LargeSize \in Nat \ {0}
    /\ SecretLimit \in Nat \ {0}
    /\ Secrets \subseteq {"right", "wrong", "empty", "oversized"}
    /\ MaxChunks \in Nat
    /\ OthersStop \in BOOLEAN

VARIABLES
    client,     \* place: where the client is; program: the requests to come
    daemon,     \* place: where the handler is; request: the one it works on;
                \*   chunks: the portions of the log it has sent
    shutdown,   \* "no", "requested" by this client, "requested elsewhere"
    unsent,     \* [Ends -> Seq(units)]: what write_all still has to write
    wire,       \* [Ends -> Seq(units)]: written by that end and not yet read
    incoming,   \* [Ends -> ]: the message being received
    open,       \* [Ends -> BOOLEAN]: the end has not closed its stream
    sent,       \* [Ends -> Seq(Messages)]: history of sent messages
    taken       \* [Ends -> Seq(Messages)]: history of received messages

streams == <<unsent, wire, incoming, open, sent, taken>>
vars == <<client, daemon, shutdown, streams>>

Ends == {"client", "daemon"}
Other(e) == IF e = "client" THEN "daemon" ELSE "client"

SmallerOf(a, b) == IF a < b THEN a ELSE b

(* The size of a message by its kind; only states and logs are large.      *)
SizeOf(kind) ==
    CASE kind = "empty"     -> 0
      [] kind = "oversized" -> SecretLimit + 1
      [] kind \in {"state", "chunk"} -> LargeSize
      [] OTHER              -> 1

Requests == {"status", "change", "shutdown", "follow", "unknown", "broken"}

ASSUME ProgramsAssumption == Programs \subseteq Seq(Requests)

Answers == {"state", "success", "failure", "chunk", "close"}
Kinds == Secrets \cup {"version"} \cup Requests \cup Answers

Header(kind) == [kind |-> kind, part |-> 0]
Payload(kind) == [k \in 1..SizeOf(kind) |-> [kind |-> kind, part |-> k]]
Frame(kind) == <<Header(kind)>> \o Payload(kind)

(* from_reader: a payload that is not exactly one message is not decoded.  *)
Decode(units) ==
    IF \E kind \in Kinds : units # <<>> /\ units = Payload(kind)
    THEN units[1].kind
    ELSE IF units = <<>> THEN "empty" ELSE "broken"

Nothing == [size |-> 0, got |-> <<>>, header |-> FALSE]

Init ==
    /\ \E secret \in Secrets, program \in Programs :
           client = [place |-> "connecting", secret |-> secret, program |-> program]
    /\ daemon = [place |-> "secret", request |-> "none", chunks |-> 0]
    /\ shutdown = "no"
    /\ unsent = [e \in Ends |-> <<>>]
    /\ wire = [e \in Ends |-> <<>>]
    /\ incoming = [e \in Ends |-> Nothing]
    /\ open = [e \in Ends |-> TRUE]
    /\ sent = [e \in Ends |-> <<>>]
    /\ taken = [e \in Ends |-> <<>>]

-----------------------------------------------------------------------------
(* Framing: send_bytes and receive_bytes_with_max_size.                    *)

SendMessage(e, kind) ==
    /\ unsent[e] = <<>>
    /\ unsent' = [unsent EXCEPT ![e] = Frame(kind)]
    /\ sent' = [sent EXCEPT ![e] = Append(@, kind)]

(* write_all puts any portion of the rest on the stream, while the other   *)
(* end reads.                                                              *)
Write(e) ==
    /\ open[e] /\ open[Other(e)]
    /\ \E n \in 1..Len(unsent[e]) :
           /\ wire' = [wire EXCEPT ![e] = @ \o SubSeq(unsent[e], 1, n)]
           /\ unsent' = [unsent EXCEPT ![e] = SubSeq(@, n + 1, Len(@))]
    /\ UNCHANGED <<client, daemon, shutdown, incoming, open, sent, taken>>

(* An end works on one call at a time: it reads when it has nothing left   *)
(* to write.                                                               *)
Reads(e) ==
    /\ open[e] /\ unsent[e] = <<>>
    /\ IF e = "client" THEN client.place \in {"handshake", "awaiting"}
                       ELSE daemon.place \in {"secret", "waiting"}

Available(e) == wire[Other(e)]

ReadHeader(e) ==
    /\ Reads(e) /\ ~incoming[e].header /\ Available(e) # <<>>
    /\ incoming' = [incoming EXCEPT ![e] =
           [size |-> SizeOf(Head(Available(e)).kind), got |-> <<>>, header |-> TRUE]]
    /\ wire' = [wire EXCEPT ![Other(e)] = Tail(@)]
    /\ UNCHANGED <<client, daemon, shutdown, unsent, open, sent, taken>>

\* Mutant of ChunkBuffer: every read asks for a whole packet.
ChunkBufferFull(remaining) == PacketSize

(* The buffer of the next read: exact for the last units of a message, so  *)
(* that nothing of the next message is consumed.                           *)
ChunkBuffer(remaining) == IF remaining < PacketSize THEN remaining ELSE PacketSize

(* The daemon refuses a secret that announces more than the limit.         *)
TooBig(e) ==
    e = "daemon" /\ daemon.place = "secret" /\ incoming[e].size > SecretLimit

ReadChunk(e) ==
    /\ Reads(e) /\ incoming[e].header /\ ~TooBig(e)
    /\ Len(incoming[e].got) < incoming[e].size
    /\ \E n \in 1..SmallerOf(ChunkBuffer(incoming[e].size - Len(incoming[e].got)),
                             Len(Available(e))) :
           /\ incoming' = [incoming EXCEPT ![e].got = @ \o SubSeq(Available(e), 1, n)]
           /\ wire' = [wire EXCEPT ![Other(e)] = SubSeq(@, n + 1, Len(@))]
    /\ UNCHANGED <<client, daemon, shutdown, unsent, open, sent, taken>>

\* Mutant of Complete: what one read has delivered is the message.
CompleteAtOnce(e) ==
    /\ Reads(e) /\ incoming[e].header /\ ~TooBig(e)
    /\ incoming[e].size > 0 => incoming[e].got # <<>>

(* The message that an end has received completely.                        *)
Complete(e) ==
    /\ Reads(e) /\ incoming[e].header /\ ~TooBig(e)
    /\ Len(incoming[e].got) >= incoming[e].size

Received(e) == Decode(incoming[e].got)

TakeMessage(e) ==
    /\ Complete(e)
    /\ incoming' = [incoming EXCEPT ![e] = Nothing]
    /\ taken' = [taken EXCEPT ![e] = Append(@, Received(e))]

\* Mutant of StreamBroke: a read of nothing is not taken for the end of the stream.
StreamBrokeInHeader(e) ==
    /\ open[e] /\ ~open[Other(e)]
    /\ \/ unsent[e] # <<>>
       \/ Reads(e) /\ ~incoming[e].header /\ Available(e) = <<>>

(* The stream ended in a header or a payload: nothing is left to read and  *)
(* the other end has closed; or a write met a closed stream.               *)
StreamBroke(e) ==
    /\ open[e] /\ ~open[Other(e)]
    /\ \/ unsent[e] # <<>>
       \/ Reads(e) /\ ~Complete(e) /\ Available(e) = <<>>

(* Closing drops what has not been written.                                *)
Close(e) ==
    /\ open' = [open EXCEPT ![e] = FALSE]
    /\ unsent' = [unsent EXCEPT ![e] = <<>>]
    /\ UNCHANGED <<wire, incoming, sent, taken>>

-----------------------------------------------------------------------------
(* The client: Client::new, send_request, receive_response.                *)

Connect ==
    /\ client.place = "connecting"
    /\ client' = [client EXCEPT !.place = "handshake"]
    /\ SendMessage("client", client.secret)
    /\ UNCHANGED <<daemon, shutdown, wire, incoming, open, taken>>

(* The version is in: the client is authorised.                            *)
FinishHandshake ==
    /\ client.place = "handshake"
    /\ TakeMessage("client")
    /\ client' = [client EXCEPT !.place = "ready"]
    /\ UNCHANGED <<daemon, shutdown, unsent, wire, open, sent>>

SendRequest ==
    /\ client.place = "ready" /\ client.program # <<>> /\ open["client"]
    /\ client' = [client EXCEPT !.place = "awaiting", !.program = Tail(@)]
    /\ SendMessage("client", Head(client.program))
    /\ UNCHANGED <<daemon, shutdown, wire, incoming, open, taken>>

(* The loop of remote_follow prints a portion of the log and receives      *)
(* again; a close ends it, and any other answer that is no failure is      *)
(* logged as unhandled and not taken for an end.                           *)
Unheeded(answer) ==
    \/ answer = "chunk"
    \/ /\ sent["client"][Len(sent["client"])] = "follow"
       /\ answer \notin {"close", "failure"}

(* A failure ends the process with an error; an answer that the command    *)
(* takes for the end of its request goes on with the next one.             *)
ReceiveResponse ==
    /\ client.place = "awaiting"
    /\ TakeMessage("client")
    /\ client' = [client EXCEPT
           !.place = CASE Received("client") = "failure" -> "refused"
                       [] Unheeded(Received("client"))   -> "awaiting"
                       [] OTHER                          -> "ready",
           !.program = IF Received("client") = "failure" THEN <<>> ELSE @]
    /\ UNCHANGED <<daemon, shutdown, unsent, wire, open, sent>>

(* The command is done: the process exits, and its stream with it.         *)
ClientExits ==
    /\ open["client"]
    /\ \/ client.place = "ready" /\ client.program = <<>>
       \/ client.place = "refused"
    /\ client' = [client EXCEPT !.place = IF @ = "ready" THEN "done" ELSE @]
    /\ Close("client")
    /\ UNCHANGED <<daemon, shutdown>>

ClientCutOff ==
    /\ StreamBroke("client")
    /\ client' = [client EXCEPT !.place = "cut off"]
    /\ Close("client")
    /\ UNCHANGED <<daemon, shutdown>>

(* The user interrupts the client, whatever it is doing.                   *)
ClientKilled ==
    /\ open["client"]
    /\ client' = [client EXCEPT !.place = "killed"]
    /\ Close("client")
    /\ UNCHANGED <<daemon, shutdown>>

-----------------------------------------------------------------------------
(* The daemon: handle_incoming and handle_request.                         *)

\* Mutant of SecretMatches: only the sizes are compared.
SecretMatchesSize(secret) == SizeOf(secret) = SizeOf("right")

SecretMatches(secret) == secret = "right"

(* The secret arrived and is compared; the wrong one is answered with      *)
(* nothing, and an empty one means that the client went away.              *)
CheckSecret ==
    /\ daemon.place = "secret"
    /\ TakeMessage("daemon")
    /\ daemon' = [daemon EXCEPT
           !.place = IF SecretMatches(Received("daemon")) THEN "accepting" ELSE "refusing"]
    /\ UNCHANGED <<client, shutdown, unsent, wire, open, sent>>

SendVersion ==
    /\ daemon.place = "accepting"
    /\ SendMessage("daemon", "version")
    /\ daemon' = [daemon EXCEPT !.place = "waiting"]
    /\ UNCHANGED <<client, shutdown, wire, incoming, open, taken>>

ReceiveRequest ==
    /\ daemon.place = "waiting"
    /\ TakeMessage("daemon")
    /\ daemon' = [place |-> "handling", request |-> Received("daemon"), chunks |-> 0]
    /\ UNCHANGED <<client, shutdown, unsent, wire, open, sent>>

(* A handler runs to its end and its answer is sent; the loop then waits   *)
(* for the next request.                                                   *)
Answer ==
    /\ daemon.place = "handling" /\ daemon.request \in {"status", "change"}
    /\ \E answer \in IF daemon.request = "status" THEN {"state"}
                                                  ELSE {"success", "failure"} :
           SendMessage("daemon", answer)
    /\ daemon' = [daemon EXCEPT !.place = "waiting", !.request = "none"]
    /\ UNCHANGED <<client, shutdown, wire, incoming, open, taken>>

(* follow_log: the daemon sends what the log has gained, as often as it    *)
(* likes.  In the end it closes, refuses, or answers with a success that   *)
(* the log file has gone away (when it does which, see TaskLogs).          *)
StreamChunk ==
    /\ daemon.place = "handling" /\ daemon.request = "follow"
    /\ daemon.chunks < MaxChunks
    /\ SendMessage("daemon", "chunk")
    /\ daemon' = [daemon EXCEPT !.chunks = @ + 1]
    /\ UNCHANGED <<client, shutdown, wire, incoming, open, taken>>

EndStream ==
    /\ daemon.place = "handling" /\ daemon.request = "follow"
    /\ \E answer \in {"close", "failure", "success"} : SendMessage("daemon", answer)
    /\ daemon' = [daemon EXCEPT !.place = "waiting", !.request = "none"]
    /\ UNCHANGED <<client, shutdown, wire, incoming, open, taken>>

\* Mutant of AnswerShutdown: the shutdown begins before the answer is sent.
AnswerShutdownAfterwards ==
    /\ daemon.place = "handling" /\ daemon.request = "shutdown"
    /\ SendMessage("daemon", "success")
    /\ shutdown' = IF shutdown = "no" THEN "requested" ELSE shutdown
    /\ daemon' = [daemon EXCEPT !.place = "answering"]
    /\ UNCHANGED <<client, wire, incoming, open, taken>>

(* The shutdown is the one request that is answered before it is done.     *)
AnswerShutdown ==
    /\ daemon.place = "handling" /\ daemon.request = "shutdown"
    /\ SendMessage("daemon", "success")
    /\ daemon' = [daemon EXCEPT !.place = "answering"]
    /\ UNCHANGED <<client, shutdown, wire, incoming, open, taken>>

InitiateShutdown ==
    /\ daemon.place = "answering" /\ unsent["daemon"] = <<>> /\ open["daemon"]
    /\ shutdown' = IF shutdown = "no" THEN "requested" ELSE shutdown
    /\ daemon' = [daemon EXCEPT !.place = "waiting", !.request = "none"]
    /\ UNCHANGED <<client, streams>>

(* A request that is no CBOR at all is answered with a failure, and the    *)
(* connection closes.                                                      *)
AnswerBroken ==
    /\ daemon.place = "handling" /\ daemon.request = "broken"
    /\ SendMessage("daemon", "failure")
    /\ daemon' = [daemon EXCEPT !.place = "refusing"]
    /\ UNCHANGED <<client, shutdown, wire, incoming, open, taken>>

\* Mutant of Unanswerable: a request of another version is passed over.
UnanswerableEmpty(request) == request = "empty"

(* "other errors" of receive_message: a well-formed message that is no     *)
(* request this daemon knows, or one without a payload.                    *)
Unanswerable(request) == request \in {"unknown", "empty"}

(* The handler of the connection ends: a wrong or too large secret, a      *)
(* well-formed request of another version, a broken stream.                *)
Leave ==
    /\ open["daemon"]
    /\ \/ daemon.place = "refusing" /\ unsent["daemon"] = <<>>
       \/ daemon.place = "handling" /\ Unanswerable(daemon.request)
       \/ TooBig("daemon") /\ incoming["daemon"].header
       \/ StreamBroke("daemon")
    /\ daemon' = [daemon EXCEPT !.place = "gone"]
    /\ Close("daemon")
    /\ UNCHANGED <<client, shutdown>>

ShutdownElsewhere ==
    /\ OthersStop /\ shutdown = "no"
    /\ shutdown' = "requested elsewhere"
    /\ UNCHANGED <<client, daemon, streams>>

(* The task handler exits the process: every handler ends where it is.     *)
DaemonExits ==
    /\ shutdown # "no" /\ open["daemon"]
    /\ daemon' = [daemon EXCEPT !.place = "gone"]
    /\ Close("daemon")
    /\ UNCHANGED <<client, shutdown>>

-----------------------------------------------------------------------------
(* BlockingClient (network_blocking/client.rs) takes the same steps.       *)
ClientStep ==
    Connect \/ FinishHandshake \/ SendRequest \/ ReceiveResponse \/ ClientExits
        \/ ClientCutOff

DaemonStep ==
    CheckSecret \/ SendVersion \/ ReceiveRequest \/ Answer \/ StreamChunk
        \/ EndStream \/ AnswerShutdown \/ InitiateShutdown \/ AnswerBroken \/ Leave

(* network_blocking/protocol.rs is the same code on blocking streams.      *)
Transport(e) == Write(e) \/ ReadHeader(e) \/ ReadChunk(e)

Next ==
    \/ ClientStep \/ ClientKilled
    \/ DaemonStep \/ ShutdownElsewhere \/ DaemonExits
    \/ \E e \in Ends : Transport(e)

(* Both ends await each read and write in a task of their own, and the     *)
(* task handler ends the process after a shutdown; nobody has to kill a    *)
(* client or stop the daemon.                                              *)
Spec ==
    /\ Init /\ [][Next]_vars
    /\ WF_vars(ClientStep)
    /\ WF_vars(DaemonStep)
    /\ WF_vars(DaemonExits)
    /\ \A e \in Ends : WF_vars(Transport(e))

-----------------------------------------------------------------------------
(* protocol.rs: whatever portions the stream delivers, the two ends        *)
(* exchange whole messages in the order they were sent, as MessageChannel  *)
(* promises: no read consumes a part of the next message.                  *)
Channel == INSTANCE MessageChannel WITH Messages <- Kinds
ExchangesMessages == Channel!Spec

(* handle_incoming: a client without the right secret never has a request  *)
(* taken from it, nor is it sent a single message, the version included.   *)
OnlyAuthorised ==
    client.secret # "right" =>
        /\ Len(taken["daemon"]) <= 1
        /\ sent["daemon"] = <<>>

(* A client whose request stays without an answer was cut off for a        *)
(* reason: its secret, a request that the daemon does not know, or the     *)
(* shutdown another client asked for.  In particular the one that asks for *)
(* the shutdown gets its answer before the daemon goes.                    *)
CutOffForReason ==
    client.place = "cut off" =>
        \/ client.secret # "right"
        \/ sent["client"][Len(sent["client"])] = "unknown"
        \/ shutdown = "requested elsewhere"
        \/ "shutdown" \in {sent["client"][i] : i \in 1..(Len(sent["client"]) - 1)}

(* The one hang of the protocol: the daemon has answered a follow with a   *)
(* success and waits for the next request, and the client has received it  *)
(* and waits for the next portion of the log; nothing is on its way.       *)
HungFollow ==
    /\ client.place = "awaiting" /\ daemon.place = "waiting"
    /\ sent["client"][Len(sent["client"])] = "follow"
    /\ taken["client"][Len(taken["client"])] = "success"
    /\ \A e \in Ends : Len(taken[e]) = Len(sent[Other(e)])

(* Every client that connects comes to an end: it is answered, refused or  *)
(* cut off, and the handler of its connection ends as well; or the client  *)
(* and its handler wait for each other for good, over nothing but a follow *)
(* whose log file was gone.                                                *)
ConnectionsEnd ==
    \/ <>(/\ client.place \in {"done", "refused", "cut off", "killed"}
          /\ daemon.place = "gone")
    \/ <>[]HungFollow
=============================================================================
