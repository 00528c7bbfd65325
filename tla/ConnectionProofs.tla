-------------------------- MODULE ConnectionProofs --------------------------
(***************************************************************************)
(* Connection for every size of packets, secrets and answers, every        *)
(* command and every way the stream cuts what is written: OnlyAuthorised,  *)
(* that the framing implements MessageChannel, CutOffForReason, and that   *)
(* a connection comes to its end: nobody waits for ever, nobody goes on    *)
(* for ever.                                                               *)
(*                                                                         *)
(* The daemon believes in a secret because a unit of kind "right" is in    *)
(* what it has received.  SecrecyInv says that no such unit is anywhere    *)
(* between a client without the secret and the daemon: neither in what the *)
(* client has still to write, nor on the wire, nor in the message being    *)
(* received.  So the daemon never leaves the place where it compares the   *)
(* secret but to refuse, and sends nothing.                                *)
(*                                                                         *)
(* FramesInv says what is between two ends: the units that have been read  *)
(* for the current message, those on the wire and those still to write are *)
(* together the frames of the messages that were sent and not yet taken,   *)
(* cut short at most where the sender closed its stream.  Moving units     *)
(* from one place to the next does not change that stream, so only sending *)
(* a message, taking one and closing have to be looked at.                 *)
(*                                                                         *)
(* ReasonInv follows the conversation of a client with the right secret:   *)
(* what each end is doing tells which messages are on their way.           *)
(*                                                                         *)
(* TurnInv says whose turn it is in any conversation, with the right       *)
(* secret or without.  StepsLeft counts down: what a message costs is paid *)
(* for by the program of the client, by the handler at work or by the      *)
(* units that are still to be moved.                                       *)
(***************************************************************************)
EXTENDS Connection, SequenceTheorems, TLAPS

Unit == [kind : Kinds, part : Nat]
OtherUnit == {u \in Unit : u.kind # "right"}
Message == Kinds \cup {"empty", "broken"}
Parcel == [size : Nat, got : Seq(Unit), header : BOOLEAN]

ClientPlaces == {"connecting", "handshake", "ready", "awaiting", "refused", "done",
                 "cut off", "killed"}
DaemonPlaces == {"secret", "accepting", "refusing", "waiting", "handling", "answering",
                 "gone"}

EndsType ==
    /\ client \in [place : ClientPlaces, secret : Secrets, program : Seq(Requests)]
    /\ daemon \in [place : DaemonPlaces, request : Message \cup {"none"}, chunks : Nat]
    /\ sent \in [Ends -> Seq(Message)]
    /\ taken \in [Ends -> Seq(Message)]

UnitsType ==
    /\ unsent \in [Ends -> Seq(Unit)]
    /\ wire \in [Ends -> Seq(Unit)]
    /\ incoming \in [Ends -> Parcel]

\* What is on its way from the client to the daemon.
NoRightUnit ==
    /\ unsent["client"] \in Seq(OtherUnit)
    /\ wire["client"] \in Seq(OtherUnit)
    /\ incoming["daemon"].got \in Seq(OtherUnit)

Refused ==
    /\ daemon.place \in {"secret", "refusing", "gone"}
    /\ sent["daemon"] = <<>>
    /\ Len(taken["daemon"]) <= 1
    /\ daemon.place = "secret" => taken["daemon"] = <<>>

SecrecyInv ==
    /\ EndsType
    /\ UnitsType
    /\ client.secret # "right" => NoRightUnit /\ Refused

-----------------------------------------------------------------------------
(* Sizes and frames.                                                       *)

LEMMA SizeType == \A kind \in Kinds : SizeOf(kind) \in Nat
BY ConnectionAssumption DEF SizeOf, Kinds, Requests, Answers

LEMMA FrameType == \A kind \in Kinds : Frame(kind) \in Seq(Unit)
<1> TAKE kind \in Kinds
<1>1. SizeOf(kind) \in Nat
  BY SizeType
<1>2. \A k \in 1..SizeOf(kind) : [kind |-> kind, part |-> k] \in Unit
  BY <1>1 DEF Unit
<1>3. Payload(kind) \in Seq(Unit)
  BY <1>1, <1>2 DEF Payload
<1>4. <<Header(kind)>> \in Seq(Unit)
  BY DEF Header, Unit
<1> QED
  BY <1>3, <1>4 DEF Frame

\* A frame of another message has no unit of the right secret.
LEMMA OtherFrame ==
    \A kind \in Kinds : kind # "right" => Frame(kind) \in Seq(OtherUnit)
<1> SUFFICES ASSUME NEW kind \in Kinds, kind # "right"
             PROVE  Frame(kind) \in Seq(OtherUnit)
  OBVIOUS
<1>1. SizeOf(kind) \in Nat
  BY SizeType
<1>2. Payload(kind) \in Seq(OtherUnit)
  BY <1>1 DEF Payload, OtherUnit, Unit
<1>3. <<Header(kind)>> \in Seq(OtherUnit)
  BY DEF Header, OtherUnit, Unit
<1> QED
  BY <1>2, <1>3 DEF Frame

LEMMA DecodeType == \A units \in Seq(Unit) : Decode(units) \in Message
<1> TAKE units \in Seq(Unit)
<1>1. units # <<>> => units[1] \in Unit
  OBVIOUS
<1>2. \A u \in Unit : u.kind \in Kinds
  BY DEF Unit
<1> QED
  BY <1>1, <1>2 DEF Decode, Message

\* What holds no unit of the right secret is not taken for it.
LEMMA DecodesToOther == \A units \in Seq(OtherUnit) : Decode(units) # "right"
<1> TAKE units \in Seq(OtherUnit)
<1>1. units # <<>> => units[1].kind # "right"
  BY DEF OtherUnit
<1> QED
  BY <1>1 DEF Decode

-----------------------------------------------------------------------------
(* Cutting sequences.                                                      *)

LEMMA CutType ==
    ASSUME NEW S, NEW s \in Seq(S), NEW n \in 1..Len(s)
    PROVE  /\ SubSeq(s, 1, n) \in Seq(S)
           /\ SubSeq(s, n + 1, Len(s)) \in Seq(S)
<1>1. \A i \in 1..n : s[i] \in S
  OBVIOUS
<1>2. SubSeq(s, 1, n) \in Seq(S)
  BY <1>1
<1>3. \A i \in (n + 1)..Len(s) : s[i] \in S
  OBVIOUS
<1>4. SubSeq(s, n + 1, Len(s)) \in Seq(S)
  BY <1>3
<1> QED
  BY <1>2, <1>4
-----------------------------------------------------------------------------
(* Each step keeps the invariant.                                          *)

LEMMA SecrecyInit == Init => SecrecyInv
<1> SUFFICES ASSUME Init PROVE SecrecyInv
  OBVIOUS
<1>1. <<>> \in Seq(Unit) /\ <<>> \in Seq(OtherUnit) /\ <<>> \in Seq(Message)
  OBVIOUS
<1>2. Nothing \in Parcel /\ Nothing.got = <<>>
  BY DEF Nothing, Parcel
<1>3. client \in [place : ClientPlaces, secret : Secrets, program : Seq(Requests)]
  BY ProgramsAssumption DEF Init, ClientPlaces
<1>4. EndsType
  BY <1>1, <1>3 DEF Init, EndsType, DaemonPlaces
<1>5. UnitsType
  BY <1>1, <1>2 DEF Init, UnitsType
<1>6. NoRightUnit /\ Refused
  <2>1. /\ unsent["client"] = <<>> /\ wire["client"] = <<>>
        /\ incoming["daemon"] = Nothing
        /\ sent["daemon"] = <<>> /\ taken["daemon"] = <<>> /\ daemon.place = "secret"
    BY DEF Init, Ends
  <2>2. Len(taken["daemon"]) <= 1
    BY <2>1
  <2> QED
    BY <1>1, <1>2, <2>1, <2>2 DEF NoRightUnit, Refused
<1> QED
  BY <1>4, <1>5, <1>6 DEF SecrecyInv

LEMMA SendMessageType ==
    ASSUME UnitsType, sent \in [Ends -> Seq(Message)],
           NEW e \in Ends, NEW kind \in Kinds, SendMessage(e, kind)
    PROVE  /\ unsent' \in [Ends -> Seq(Unit)]
           /\ sent' \in [Ends -> Seq(Message)]
           /\ e = "client" => sent'["daemon"] = sent["daemon"]
           /\ e = "client" /\ kind # "right" => unsent'["client"] \in Seq(OtherUnit)
<1>1. Frame(kind) \in Seq(Unit) /\ (kind # "right" => Frame(kind) \in Seq(OtherUnit))
  BY FrameType, OtherFrame
<1>2. Append(sent[e], kind) \in Seq(Message)
  BY DEF Message
<1> QED
  BY <1>1, <1>2 DEF SendMessage, UnitsType, Ends

LEMMA TakeMessageType ==
    ASSUME UnitsType, taken \in [Ends -> Seq(Message)], NEW e \in Ends, TakeMessage(e)
    PROVE  /\ incoming' \in [Ends -> Parcel]
           /\ taken' \in [Ends -> Seq(Message)]
           /\ Received(e) \in Message
           /\ incoming'[e].got = <<>>
           /\ \A o \in Ends \ {e} : incoming'[o] = incoming[o] /\ taken'[o] = taken[o]
           /\ Len(taken'[e]) = Len(taken[e]) + 1
<1>1. incoming[e].got \in Seq(Unit)
  BY DEF UnitsType, Parcel
<1>2. Received(e) \in Message
  BY <1>1, DecodeType DEF Received
<1>3. /\ Append(taken[e], Received(e)) \in Seq(Message)
      /\ Len(Append(taken[e], Received(e))) = Len(taken[e]) + 1
  BY <1>2
<1>4. Nothing \in Parcel /\ Nothing.got = <<>>
  BY DEF Nothing, Parcel
<1> QED
  BY <1>2, <1>3, <1>4 DEF TakeMessage, UnitsType

LEMMA CloseType ==
    ASSUME UnitsType, NEW e \in Ends, Close(e)
    PROVE  /\ UnitsType'
           /\ NoRightUnit => NoRightUnit'
<1>1. <<>> \in Seq(Unit) /\ <<>> \in Seq(OtherUnit)
  OBVIOUS
<1> QED
  BY <1>1 DEF Close, UnitsType, NoRightUnit, Ends

LEMMA WriteKeeps ==
    ASSUME SecrecyInv, NEW e \in Ends, Write(e)
    PROVE  SecrecyInv'
<1>1. PICK n \in 1..Len(unsent[e]) :
          /\ wire' = [wire EXCEPT ![e] = @ \o SubSeq(unsent[e], 1, n)]
          /\ unsent' = [unsent EXCEPT ![e] = SubSeq(@, n + 1, Len(@))]
  BY DEF Write
<1>2. /\ SubSeq(unsent[e], 1, n) \in Seq(Unit)
      /\ SubSeq(unsent[e], n + 1, Len(unsent[e])) \in Seq(Unit)
  BY CutType DEF SecrecyInv, UnitsType
<1>3. wire[e] \o SubSeq(unsent[e], 1, n) \in Seq(Unit)
  BY <1>2 DEF SecrecyInv, UnitsType
<1>4. UnitsType'
  BY <1>1, <1>2, <1>3 DEF Write, SecrecyInv, UnitsType
<1>5. EndsType'
  BY DEF Write, SecrecyInv, EndsType
<1>6. ASSUME client'.secret # "right"
      PROVE  NoRightUnit' /\ Refused'
  <2>1. NoRightUnit /\ Refused
    BY <1>6 DEF Write, SecrecyInv
  <2>2. CASE e = "client"
    <3>1. /\ SubSeq(unsent["client"], 1, n) \in Seq(OtherUnit)
          /\ SubSeq(unsent["client"], n + 1, Len(unsent["client"])) \in Seq(OtherUnit)
      BY <2>1, <2>2, CutType DEF NoRightUnit
    <3>2. wire["client"] \o SubSeq(unsent["client"], 1, n) \in Seq(OtherUnit)
      BY <2>1, <3>1 DEF NoRightUnit
    <3> QED
      BY <1>1, <2>1, <2>2, <3>1, <3>2
      DEF Write, NoRightUnit, Refused, SecrecyInv, UnitsType, Ends
  <2>3. CASE e = "daemon"
    BY <1>1, <2>1, <2>3 DEF Write, NoRightUnit, Refused, SecrecyInv, UnitsType, Ends
  <2> QED
    BY <2>2, <2>3 DEF Ends
<1> QED
  BY <1>4, <1>5, <1>6 DEF SecrecyInv

LEMMA ReadHeaderKeeps ==
    ASSUME SecrecyInv, NEW e \in Ends, ReadHeader(e)
    PROVE  SecrecyInv'
<1> DEFINE from == Other(e)
           size == SizeOf(Head(Available(e)).kind)
           parcel == [size |-> size, got |-> <<>>, header |-> TRUE]
<1>1. from \in Ends
  BY DEF Other, Ends
<1>2. wire[from] \in Seq(Unit) /\ wire[from] # <<>>
  BY <1>1 DEF ReadHeader, Available, SecrecyInv, UnitsType
<1>3. Head(wire[from]) \in Unit /\ Tail(wire[from]) \in Seq(Unit)
  BY <1>2
<1>4. size \in Nat
  BY <1>3, SizeType DEF Unit, Available
<1>5. parcel \in Parcel /\ parcel.got = <<>>
  BY <1>4 DEF Parcel
<1>6. /\ incoming' = [incoming EXCEPT ![e] = parcel]
      /\ wire' = [wire EXCEPT ![from] = Tail(@)]
      /\ UNCHANGED <<client, daemon, shutdown, unsent, open, sent, taken>>
  BY DEF ReadHeader
<1> HIDE DEF from, size, parcel
<1>7. UnitsType'
  BY <1>1, <1>3, <1>5, <1>6 DEF SecrecyInv, UnitsType
<1>8. EndsType'
  BY <1>6 DEF SecrecyInv, EndsType
<1>9. ASSUME client'.secret # "right"
      PROVE  NoRightUnit' /\ Refused'
  <2>1. NoRightUnit /\ Refused
    BY <1>6, <1>9 DEF SecrecyInv
  <2>2. from = "client" => Tail(wire["client"]) \in Seq(OtherUnit)
    BY <1>2, <2>1 DEF NoRightUnit
  <2>3. wire'["client"] \in Seq(OtherUnit)
    BY <1>1, <1>6, <2>1, <2>2 DEF NoRightUnit, SecrecyInv, UnitsType, Ends
  <2>4. incoming'["daemon"].got \in Seq(OtherUnit)
    <3>1. \/ incoming'["daemon"] = parcel
          \/ incoming'["daemon"] = incoming["daemon"]
      BY <1>6 DEF SecrecyInv, UnitsType, Ends
    <3>2. <<>> \in Seq(OtherUnit)
      OBVIOUS
    <3> QED
      BY <1>5, <2>1, <3>1, <3>2 DEF NoRightUnit
  <2> QED
    BY <1>6, <2>1, <2>3, <2>4 DEF NoRightUnit, Refused
<1> QED
  BY <1>7, <1>8, <1>9 DEF SecrecyInv

LEMMA ReadChunkKeeps ==
    ASSUME SecrecyInv, NEW e \in Ends, ReadChunk(e)
    PROVE  SecrecyInv'
<1> DEFINE from == Other(e)
<1>1. from \in Ends
  BY DEF Other, Ends
<1>2. wire[from] \in Seq(Unit) /\ incoming[e] \in Parcel
  BY <1>1 DEF SecrecyInv, UnitsType
<1>3. PICK n \in 1..Len(wire[from]) :
          /\ incoming' = [incoming EXCEPT ![e].got = @ \o SubSeq(wire[from], 1, n)]
          /\ wire' = [wire EXCEPT ![from] = SubSeq(@, n + 1, Len(@))]
  <2> DEFINE most == ChunkBuffer(incoming[e].size - Len(incoming[e].got))
             available == Len(wire[from])
  <2>1. PICK n \in 1..SmallerOf(most, available) :
            /\ incoming' = [incoming EXCEPT ![e].got = @ \o SubSeq(wire[from], 1, n)]
            /\ wire' = [wire EXCEPT ![from] = SubSeq(@, n + 1, Len(@))]
    BY DEF ReadChunk, Available
  <2>2. available \in Nat
    BY <1>2
  <2>3. incoming[e].got \in Seq(Unit) /\ incoming[e].size \in Nat
    BY <1>2 DEF Parcel
  <2>4. most \in Int
    BY <2>3, ConnectionAssumption DEF ChunkBuffer
  <2> HIDE DEF most, available
  <2>5. n \in 1..available
    BY <2>1, <2>2, <2>4 DEF SmallerOf
  <2> QED
    BY <2>1, <2>5 DEF available
<1>4. /\ SubSeq(wire[from], 1, n) \in Seq(Unit)
      /\ SubSeq(wire[from], n + 1, Len(wire[from])) \in Seq(Unit)
  BY <1>2, CutType
<1>5. incoming[e].got \o SubSeq(wire[from], 1, n) \in Seq(Unit)
  BY <1>2, <1>4 DEF Parcel
<1>6. UNCHANGED <<client, daemon, shutdown, unsent, open, sent, taken>>
  BY DEF ReadChunk
<1> HIDE DEF from
<1>7. UnitsType'
  BY <1>1, <1>2, <1>3, <1>4, <1>5, <1>6 DEF SecrecyInv, UnitsType, Parcel
<1>8. EndsType'
  BY <1>6 DEF SecrecyInv, EndsType
<1>9. ASSUME client'.secret # "right"
      PROVE  NoRightUnit' /\ Refused'
  <2>1. NoRightUnit /\ Refused
    BY <1>6, <1>9 DEF SecrecyInv
  <2>2. CASE e = "daemon"
    <3>1. from = "client"
      BY <2>2 DEF from, Other
    <3>2. /\ SubSeq(wire["client"], 1, n) \in Seq(OtherUnit)
          /\ SubSeq(wire["client"], n + 1, Len(wire["client"])) \in Seq(OtherUnit)
      BY <2>1, <3>1, CutType DEF NoRightUnit
    <3>3. incoming["daemon"].got \o SubSeq(wire["client"], 1, n) \in Seq(OtherUnit)
      BY <2>1, <3>2 DEF NoRightUnit
    <3> QED
      BY <1>2, <1>3, <1>6, <2>1, <2>2, <3>1, <3>2, <3>3
      DEF NoRightUnit, Refused, SecrecyInv, UnitsType, Parcel, Ends
  <2>3. CASE e = "client"
    <3>1. from = "daemon"
      BY <2>3 DEF from, Other
    <3> QED
      BY <1>3, <1>6, <2>1, <2>3, <3>1 DEF NoRightUnit, Refused, SecrecyInv, UnitsType, Ends
  <2> QED
    BY <2>2, <2>3 DEF Ends
<1> QED
  BY <1>7, <1>8, <1>9 DEF SecrecyInv

\* The two ends and the way from the client; the other variables do not matter.
LEMMA QuietKeeps ==
    ASSUME SecrecyInv, EndsType',
           UNCHANGED <<unsent, wire, incoming, sent, taken>>,
           client'.secret = client.secret,
           Refused => daemon'.place = daemon.place
    PROVE  SecrecyInv'
<1>1. UnitsType' /\ (NoRightUnit => NoRightUnit')
  BY DEF SecrecyInv, UnitsType, NoRightUnit
<1>2. Refused => Refused'
  BY DEF Refused
<1> QED
  BY <1>1, <1>2 DEF SecrecyInv

\* An end takes the message it has received.
LEMMA ClientTakesKeeps ==
    ASSUME SecrecyInv, TakeMessage("client"),
           NEW place \in ClientPlaces, NEW program \in Seq(Requests),
           client' = [client EXCEPT !.place = place, !.program = program],
           UNCHANGED <<daemon, unsent, wire, sent>>
    PROVE  SecrecyInv'
<1>1. /\ incoming' \in [Ends -> Parcel] /\ taken' \in [Ends -> Seq(Message)]
      /\ incoming'["daemon"] = incoming["daemon"] /\ taken'["daemon"] = taken["daemon"]
  <2>1. "client" \in Ends /\ "daemon" \in Ends \ {"client"}
    BY DEF Ends
  <2> QED
    BY <2>1, TakeMessageType DEF SecrecyInv, EndsType
<1>2. EndsType'
  BY <1>1 DEF SecrecyInv, EndsType
<1>3. UnitsType' /\ (NoRightUnit => NoRightUnit')
  BY <1>1 DEF SecrecyInv, UnitsType, NoRightUnit
<1>4. Refused => Refused'
  BY <1>1 DEF Refused
<1>5. client'.secret = client.secret
  BY DEF SecrecyInv, EndsType
<1> QED
  BY <1>2, <1>3, <1>4, <1>5 DEF SecrecyInv

LEMMA ClientSendsKeeps ==
    ASSUME SecrecyInv, NEW kind \in Kinds, SendMessage("client", kind),
           client.secret # "right" => kind # "right",
           NEW place \in ClientPlaces, NEW program \in Seq(Requests),
           client' = [client EXCEPT !.place = place, !.program = program],
           UNCHANGED <<daemon, wire, incoming, taken>>
    PROVE  SecrecyInv'
<1>1. /\ unsent' \in [Ends -> Seq(Unit)] /\ sent' \in [Ends -> Seq(Message)]
      /\ sent'["daemon"] = sent["daemon"]
      /\ kind # "right" => unsent'["client"] \in Seq(OtherUnit)
  <2>1. "client" \in Ends
    BY DEF Ends
  <2> QED
    BY <2>1, SendMessageType DEF SecrecyInv, EndsType
<1>2. EndsType'
  BY <1>1 DEF SecrecyInv, EndsType
<1>3. UnitsType'
  BY <1>1 DEF SecrecyInv, UnitsType
<1>4. client'.secret = client.secret
  BY DEF SecrecyInv, EndsType
<1>5. client.secret # "right" => NoRightUnit' /\ Refused'
  BY <1>1 DEF SecrecyInv, NoRightUnit, Refused
<1> QED
  BY <1>2, <1>3, <1>4, <1>5 DEF SecrecyInv

\* The daemon sends and takes requests only from a client with the secret.
LEMMA TrustedKeeps ==
    ASSUME SecrecyInv, ~Refused, EndsType', UnitsType', client' = client
    PROVE  SecrecyInv'
BY DEF SecrecyInv

LEMMA DaemonSendsKeeps ==
    ASSUME SecrecyInv, NEW kind \in Kinds, SendMessage("daemon", kind),
           daemon.place \in {"accepting", "handling"},
           daemon' \in [place : DaemonPlaces, request : Message \cup {"none"}, chunks : Nat],
           UNCHANGED <<client, wire, incoming, taken>>
    PROVE  SecrecyInv'
<1>1. unsent' \in [Ends -> Seq(Unit)] /\ sent' \in [Ends -> Seq(Message)]
  <2>1. "daemon" \in Ends
    BY DEF Ends
  <2> QED
    BY <2>1, SendMessageType DEF SecrecyInv, EndsType
<1>2. EndsType' /\ UnitsType'
  BY <1>1 DEF SecrecyInv, EndsType, UnitsType
<1>3. ~Refused
  BY DEF Refused
<1> QED
  BY <1>2, <1>3, TrustedKeeps

LEMMA CheckSecretKeeps == ASSUME SecrecyInv, CheckSecret PROVE SecrecyInv'
<1>1. "daemon" \in Ends
  BY DEF Ends
<1>2. /\ incoming' \in [Ends -> Parcel] /\ taken' \in [Ends -> Seq(Message)]
      /\ incoming'["daemon"].got = <<>>
      /\ Len(taken'["daemon"]) = Len(taken["daemon"]) + 1
  BY <1>1, TakeMessageType DEF CheckSecret, SecrecyInv, EndsType
<1>3. EndsType' /\ UnitsType'
  BY <1>2 DEF CheckSecret, SecrecyInv, EndsType, UnitsType, DaemonPlaces
<1>4. ASSUME client'.secret # "right"
      PROVE  NoRightUnit' /\ Refused'
  <2>1. NoRightUnit /\ Refused
    BY <1>4 DEF CheckSecret, SecrecyInv
  <2>2. Received("daemon") # "right"
    BY <2>1, DecodesToOther DEF NoRightUnit, Received
  <2>3. daemon'.place = "refusing"
    BY <2>2 DEF CheckSecret, SecretMatches, SecrecyInv, EndsType
  <2>4. Len(taken'["daemon"]) = 1
    <3>1. taken["daemon"] = <<>>
      BY <2>1 DEF CheckSecret, Refused
    <3> QED
      BY <1>2, <3>1
  <2>5. Refused'
    BY <2>1, <2>3, <2>4 DEF CheckSecret, Refused
  <2>6. <<>> \in Seq(OtherUnit)
    OBVIOUS
  <2>7. NoRightUnit'
    BY <1>2, <2>1, <2>6 DEF CheckSecret, NoRightUnit
  <2> QED
    BY <2>5, <2>7
<1> QED
  BY <1>3, <1>4 DEF SecrecyInv

LEMMA ReceiveRequestKeeps == ASSUME SecrecyInv, ReceiveRequest PROVE SecrecyInv'
<1>1. "daemon" \in Ends
  BY DEF Ends
<1>2. /\ incoming' \in [Ends -> Parcel] /\ taken' \in [Ends -> Seq(Message)]
      /\ Received("daemon") \in Message
  BY <1>1, TakeMessageType DEF ReceiveRequest, SecrecyInv, EndsType
<1>3. EndsType' /\ UnitsType'
  BY <1>2 DEF ReceiveRequest, SecrecyInv, EndsType, UnitsType, DaemonPlaces
<1>4. ~Refused /\ client' = client
  BY DEF ReceiveRequest, Refused
<1> QED
  BY <1>3, <1>4, TrustedKeeps

\* One end closes its stream and comes to its last place.
LEMMA CloseKeeps ==
    ASSUME SecrecyInv, NEW e \in Ends, Close(e), EndsType',
           client'.secret = client.secret,
           Refused => daemon'.place \in {daemon.place, "gone"}
    PROVE  SecrecyInv'
<1>1. UnitsType' /\ (NoRightUnit => NoRightUnit')
  BY CloseType DEF SecrecyInv
<1>2. Refused => Refused'
  BY DEF Refused, Close
<1> QED
  BY <1>1, <1>2 DEF SecrecyInv

LEMMA ClientKeeps == ASSUME SecrecyInv, ClientStep \/ ClientKilled PROVE SecrecyInv'
<1> USE DEF ClientPlaces
<1> DEFINE ClientType == [place : ClientPlaces, secret : Secrets, program : Seq(Requests)]
<1>1. client \in ClientType
  BY DEF SecrecyInv, EndsType
<1>2. CASE Connect
  <2>1. client.secret \in Kinds
    BY <1>1 DEF Kinds
  <2>2. client' = [client EXCEPT !.place = "handshake", !.program = client.program]
    BY <1>1, <1>2 DEF Connect
  <2> QED
    BY <1>1, <1>2, <2>1, <2>2, ClientSendsKeeps DEF Connect
<1>3. CASE FinishHandshake
  <2>1. client' = [client EXCEPT !.place = "ready", !.program = client.program]
    BY <1>1, <1>3 DEF FinishHandshake
  <2> QED
    BY <1>1, <1>3, <2>1, ClientTakesKeeps DEF FinishHandshake
<1>4. CASE SendRequest
  <2>1. Head(client.program) \in Requests /\ Tail(client.program) \in Seq(Requests)
    <3>1. client.program \in Seq(Requests) /\ client.program # <<>>
      BY <1>1, <1>4 DEF SendRequest
    <3> QED
      BY <3>1
  <2>2. Head(client.program) \in Kinds /\ Head(client.program) # "right"
    BY <2>1 DEF Kinds, Requests
  <2>3. client' = [client EXCEPT !.place = "awaiting", !.program = Tail(client.program)]
    BY <1>4 DEF SendRequest
  <2> QED
    BY <1>4, <2>1, <2>2, <2>3, ClientSendsKeeps DEF SendRequest
<1>5. CASE ReceiveResponse
  <2> DEFINE place == CASE Received("client") = "failure" -> "refused"
                        [] Received("client") = "chunk"   -> "awaiting"
                        [] OTHER                          -> "ready"
             program == IF Received("client") = "failure" THEN <<>> ELSE client.program
  <2>1. place \in ClientPlaces
    OBVIOUS
  <2>2. program \in Seq(Requests)
    <3>1. client.program \in Seq(Requests)
      BY <1>1
    <3>2. <<>> \in Seq(Requests)
      OBVIOUS
    <3> QED
      BY <3>1, <3>2
  <2>3. client' = [client EXCEPT !.place = place, !.program = program]
    BY <1>5 DEF ReceiveResponse
  <2> HIDE DEF place, program
  <2> QED
    BY <1>5, <2>1, <2>2, <2>3, ClientTakesKeeps DEF ReceiveResponse
<1>6. CASE ClientExits \/ ClientCutOff \/ ClientKilled
  <2>1. Close("client") /\ daemon' = daemon /\ "client" \in Ends
    BY <1>6 DEF ClientExits, ClientCutOff, ClientKilled, Ends
  <2>2. client' \in ClientType /\ client'.secret = client.secret
    BY <1>1, <1>6 DEF ClientExits, ClientCutOff, ClientKilled
  <2>3. EndsType'
    BY <2>1, <2>2 DEF SecrecyInv, EndsType, Close
  <2> QED
    BY <2>1, <2>2, <2>3, CloseKeeps
<1> QED
  BY <1>2, <1>3, <1>4, <1>5, <1>6 DEF ClientStep

LEMMA DaemonKeeps ==
    ASSUME SecrecyInv, DaemonStep \/ DaemonExits \/ ShutdownElsewhere
    PROVE  SecrecyInv'
<1> USE DEF DaemonPlaces
<1> DEFINE DaemonType ==
               [place : DaemonPlaces, request : Message \cup {"none"}, chunks : Nat]
<1>1. daemon \in DaemonType
  BY DEF SecrecyInv, EndsType
<1>2. {"version", "state", "success", "failure", "chunk", "close"} \subseteq Kinds
  BY DEF Kinds, Answers
<1>3. CASE CheckSecret
  BY <1>3, CheckSecretKeeps
<1>4. CASE ReceiveRequest
  BY <1>4, ReceiveRequestKeeps
<1>5. CASE SendVersion
  BY <1>1, <1>2, <1>5, DaemonSendsKeeps DEF SendVersion
<1>6. CASE Answer
  <2>1. PICK answer \in {"state", "success", "failure"} : SendMessage("daemon", answer)
    BY <1>6 DEF Answer
  <2>2. daemon' \in DaemonType
    BY <1>1, <1>6 DEF Answer
  <2> QED
    BY <1>2, <1>6, <2>1, <2>2, DaemonSendsKeeps DEF Answer
<1>7. CASE StreamChunk
  BY <1>1, <1>2, <1>7, DaemonSendsKeeps DEF StreamChunk
<1>8. CASE EndStream
  <2>1. PICK answer \in {"close", "failure", "success"} : SendMessage("daemon", answer)
    BY <1>8 DEF EndStream
  <2>2. daemon' \in DaemonType
    BY <1>1, <1>8 DEF EndStream
  <2> QED
    BY <1>2, <1>8, <2>1, <2>2, DaemonSendsKeeps DEF EndStream
<1>9. CASE AnswerShutdown \/ AnswerBroken
  <2>1. daemon' \in DaemonType
    BY <1>1, <1>9 DEF AnswerShutdown, AnswerBroken
  <2> QED
    BY <1>2, <1>9, <2>1, DaemonSendsKeeps DEF AnswerShutdown, AnswerBroken
<1>10. CASE InitiateShutdown
  <2>1. EndsType'
    <3>1. daemon' = [daemon EXCEPT !.place = "waiting", !.request = "none"]
          /\ client' = client /\ sent' = sent /\ taken' = taken
      BY <1>10 DEF InitiateShutdown, streams
    <3>2. daemon' \in DaemonType
      BY <1>1, <3>1
    <3> QED
      BY <3>1, <3>2 DEF SecrecyInv, EndsType
  <2>2. ~Refused
    BY <1>10 DEF InitiateShutdown, Refused
  <2> QED
    BY <1>10, <2>1, <2>2, QuietKeeps DEF InitiateShutdown, streams
<1>11. CASE Leave \/ DaemonExits
  <2>1. Close("daemon") /\ client' = client /\ "daemon" \in Ends
    BY <1>11 DEF Leave, DaemonExits, Ends
  <2>2. daemon' \in DaemonType /\ daemon'.place = "gone"
    <3>1. daemon' = [daemon EXCEPT !.place = "gone"]
      BY <1>11 DEF Leave, DaemonExits
    <3> QED
      BY <1>1, <3>1
  <2>3. EndsType'
    BY <2>1, <2>2 DEF SecrecyInv, EndsType, Close
  <2> QED
    BY <2>1, <2>2, <2>3, CloseKeeps
<1>12. CASE ShutdownElsewhere
  <2>1. EndsType'
    BY <1>12 DEF ShutdownElsewhere, streams, SecrecyInv, EndsType
  <2> QED
    BY <1>12, <2>1, QuietKeeps DEF ShutdownElsewhere, streams
<1> QED
  BY <1>3, <1>4, <1>5, <1>6, <1>7, <1>8, <1>9, <1>10, <1>11, <1>12 DEF DaemonStep

LEMMA SecrecyNext == SecrecyInv /\ [Next]_vars => SecrecyInv'
<1> SUFFICES ASSUME SecrecyInv, [Next]_vars
             PROVE  SecrecyInv'
  OBVIOUS
<1>1. CASE \E e \in Ends : Transport(e)
  BY <1>1, WriteKeeps, ReadHeaderKeeps, ReadChunkKeeps DEF Transport
<1>2. CASE UNCHANGED vars
  <2>1. EndsType'
    BY <1>2 DEF vars, streams, SecrecyInv, EndsType
  <2> QED
    BY <1>2, <2>1, QuietKeeps DEF vars, streams
<1> QED
  BY <1>1, <1>2, ClientKeeps, DaemonKeeps DEF Next

LEMMA SecrecyAuthorises == SecrecyInv => OnlyAuthorised
BY DEF SecrecyInv, Refused, OnlyAuthorised

\* handle_incoming (daemon/network/socket/mod.rs): a client without the right secret
\* never has a request taken from it and is never sent a message, whatever it sends, in
\* whatever portions its messages arrive, and whatever the sizes are.
THEOREM Authorisation == Spec => []OnlyAuthorised
<1>1. Init /\ [][Next]_vars => []SecrecyInv
  BY SecrecyInit, SecrecyNext, PTL
<1> QED
  BY <1>1, SecrecyAuthorises, PTL DEF Spec

-----------------------------------------------------------------------------
(* Streams that carry messages.                                            *)

\* b[i] units come before the frame of the i-th message.
Bounds(messages) ==
    {b \in [1..(Len(messages) + 1) -> Nat] :
        /\ b[1] = 0
        /\ \A i \in 1..Len(messages) : b[i + 1] = b[i] + SizeOf(messages[i]) + 1
        /\ \A i, j \in 1..(Len(messages) + 1) : i <= j => b[i] <= b[j]}

\* As far as the stream goes, frame follows frame.
Framed(stream, messages, b) ==
    \A i \in 1..Len(messages), part \in Nat :
        part <= SizeOf(messages[i]) /\ b[i] + part + 1 <= Len(stream) =>
            stream[b[i] + part + 1] = [kind |-> messages[i], part |-> part]

\* The frames of the messages in their order; the last ones may have been cut off.
Carries(stream, messages) ==
    \E b \in Bounds(messages) :
        Framed(stream, messages, b) /\ Len(stream) <= b[Len(messages) + 1]

CarriesAll(stream, messages) ==
    \E b \in Bounds(messages) :
        Framed(stream, messages, b) /\ Len(stream) = b[Len(messages) + 1]

LEMMA CarriesNothing == CarriesAll(<<>>, <<>>)
<1> DEFINE b == [i \in 1..1 |-> 0]
<1>1. b \in Bounds(<<>>)
  BY DEF Bounds
<1>2. Framed(<<>>, <<>>, b) /\ Len(<<>>) = b[Len(<<>>) + 1]
  BY DEF Framed
<1> HIDE DEF b
<1> QED
  BY <1>1, <1>2 DEF CarriesAll

LEMMA AllCarried ==
    ASSUME NEW messages \in Seq(Kinds), NEW stream \in Seq(Unit),
           CarriesAll(stream, messages)
    PROVE  Carries(stream, messages)
<1>1. PICK b \in Bounds(messages) :
          Framed(stream, messages, b) /\ Len(stream) = b[Len(messages) + 1]
  BY DEF CarriesAll
<1>2. Len(stream) <= b[Len(messages) + 1]
  BY <1>1
<1> QED
  BY <1>1, <1>2 DEF Carries

\* What a stream has lost at its end.
LEMMA CutShort ==
    ASSUME NEW messages \in Seq(Kinds), NEW s \in Seq(Unit), NEW t \in Seq(Unit),
           Carries(s \o t, messages)
    PROVE  Carries(s, messages)
<1>1. PICK b \in Bounds(messages) :
          Framed(s \o t, messages, b) /\ Len(s \o t) <= b[Len(messages) + 1]
  BY DEF Carries
<1>2. b \in [1..(Len(messages) + 1) -> Nat]
  BY DEF Bounds
<1>3. Len(s) <= b[Len(messages) + 1]
  BY <1>1, <1>2
<1>4. Framed(s, messages, b)
  <2> SUFFICES ASSUME NEW i \in 1..Len(messages), NEW part \in Nat,
                      part <= SizeOf(messages[i]), b[i] + part + 1 <= Len(s)
               PROVE  s[b[i] + part + 1] = [kind |-> messages[i], part |-> part]
    BY DEF Framed
  <2>1. b[i] \in Nat
    BY SMTT(30), <1>2
  <2>2. (s \o t)[b[i] + part + 1] = s[b[i] + part + 1] /\ b[i] + part + 1 <= Len(s \o t)
    BY <2>1
  <2> QED
    BY <1>1, <2>2 DEF Framed
<1> QED
  BY <1>3, <1>4 DEF Carries

LEMMA FirstUnit ==
    ASSUME NEW messages \in Seq(Kinds), NEW stream \in Seq(Unit),
           Carries(stream, messages), stream # <<>>
    PROVE  messages # <<>> /\ stream[1] = Header(messages[1])
<1>1. PICK b \in Bounds(messages) :
          Framed(stream, messages, b) /\ Len(stream) <= b[Len(messages) + 1]
  BY DEF Carries
<1>2. Len(stream) >= 1
  OBVIOUS
<1>3. b[1] = 0
  BY DEF Bounds
<1>4. Len(messages) # 0
  BY <1>1, <1>2, <1>3
<1>5. 1 \in 1..Len(messages) /\ messages[1] \in Kinds
  BY <1>4
<1>6. SizeOf(messages[1]) \in Nat
  BY <1>5, SizeType
<1>7. stream[b[1] + 0 + 1] = [kind |-> messages[1], part |-> 0]
  BY <1>1, <1>2, <1>3, <1>5, <1>6 DEF Framed
<1> QED
  BY <1>3, <1>4, <1>7 DEF Header

\* A whole message is on a stream that was not cut.
LEMMA WholeFrame ==
    ASSUME NEW messages \in Seq(Kinds), NEW stream \in Seq(Unit),
           CarriesAll(stream, messages), messages # <<>>
    PROVE  Len(stream) >= SizeOf(messages[1]) + 1
<1>1. PICK b \in Bounds(messages) :
          Framed(stream, messages, b) /\ Len(stream) = b[Len(messages) + 1]
  BY DEF CarriesAll
<1>2. 1 \in 1..Len(messages) /\ 2 \in 1..(Len(messages) + 1) /\ 2 <= Len(messages) + 1
      /\ Len(messages) + 1 \in 1..(Len(messages) + 1)
  OBVIOUS
<1>3. b[2] <= b[Len(messages) + 1] /\ b[1 + 1] = b[1] + SizeOf(messages[1]) + 1 /\ b[1] = 0
  BY <1>2 DEF Bounds
<1>4. SizeOf(messages[1]) \in Nat
  BY <1>2, SizeType
<1> QED
  BY <1>1, <1>3, <1>4

LEMMA FrameUnits ==
    ASSUME NEW kind \in Kinds
    PROVE  /\ Frame(kind) \in Seq(Unit)
           /\ Len(Frame(kind)) = SizeOf(kind) + 1
           /\ \A part \in Nat : part <= SizeOf(kind) =>
                  Frame(kind)[part + 1] = [kind |-> kind, part |-> part]
<1>1. SizeOf(kind) \in Nat
  BY SizeType
<1>2. \A k \in 1..SizeOf(kind) : [kind |-> kind, part |-> k] \in Unit
  BY <1>1 DEF Unit
<1>3. /\ Payload(kind) \in Seq(Unit) /\ Len(Payload(kind)) = SizeOf(kind)
      /\ \A k \in 1..SizeOf(kind) : Payload(kind)[k] = [kind |-> kind, part |-> k]
  BY <1>1, <1>2 DEF Payload
<1>4. <<Header(kind)>> \in Seq(Unit) /\ Header(kind) = [kind |-> kind, part |-> 0]
  BY DEF Header, Unit
<1> HIDE DEF Payload
<1>5. ASSUME NEW part \in Nat, part <= SizeOf(kind)
      PROVE  Frame(kind)[part + 1] = [kind |-> kind, part |-> part]
  <2>1. CASE part = 0
    BY <1>3, <1>4, <2>1 DEF Frame
  <2>2. CASE part # 0
    <3>1. part \in 1..SizeOf(kind)
      BY <1>1, <1>5, <2>2
    <3>2. (<<Header(kind)>> \o Payload(kind))[part + 1] = Payload(kind)[part]
      BY <1>1, <1>3, <1>4, <3>1
    <3> QED
      BY <1>3, <3>1, <3>2 DEF Frame
  <2> QED
    BY <2>1, <2>2
<1>6. Frame(kind) \in Seq(Unit) /\ Len(Frame(kind)) = SizeOf(kind) + 1
  BY <1>1, <1>3, <1>4 DEF Frame
<1> QED
  BY <1>5, <1>6

LEMMA FrameAppended ==
    ASSUME NEW messages \in Seq(Kinds), NEW stream \in Seq(Unit),
           CarriesAll(stream, messages), NEW kind \in Kinds
    PROVE  CarriesAll(stream \o Frame(kind), Append(messages, kind))
<1> DEFINE n == Len(messages)
           longer == Append(messages, kind)
           whole == stream \o Frame(kind)
<1>1. PICK b \in Bounds(messages) : Framed(stream, messages, b) /\ Len(stream) = b[n + 1]
  BY DEF CarriesAll
<1>2. /\ b \in [1..(n + 1) -> Nat] /\ b[1] = 0
      /\ \A i \in 1..n : b[i + 1] = b[i] + SizeOf(messages[i]) + 1
      /\ \A i, j \in 1..(n + 1) : i <= j => b[i] <= b[j]
  BY DEF Bounds
<1>3. n \in Nat /\ SizeOf(kind) \in Nat
  BY SizeType
<1>4. /\ longer \in Seq(Kinds) /\ Len(longer) = n + 1 /\ longer[n + 1] = kind
      /\ \A i \in 1..n : longer[i] = messages[i]
  OBVIOUS
<1>5. /\ Len(whole) = Len(stream) + SizeOf(kind) + 1
      /\ \A p \in 1..Len(stream) : whole[p] = stream[p]
      /\ \A part \in Nat : part <= SizeOf(kind) =>
             whole[Len(stream) + part + 1] = [kind |-> kind, part |-> part]
  <2>1. /\ Frame(kind) \in Seq(Unit) /\ Len(Frame(kind)) = SizeOf(kind) + 1
        /\ \A part \in Nat : part <= SizeOf(kind) =>
                  Frame(kind)[part + 1] = [kind |-> kind, part |-> part]
    BY FrameUnits
  <2> HIDE DEF Frame
  <2>2. \A part \in Nat : part <= SizeOf(kind) =>
             whole[Len(stream) + part + 1] = Frame(kind)[part + 1]
    BY <1>3, <2>1
  <2>3. Len(whole) = Len(stream) + SizeOf(kind) + 1 /\ \A p \in 1..Len(stream) : whole[p] = stream[p]
    BY <1>3, <2>1
  <2> QED
    BY <2>1, <2>2, <2>3
<1> DEFINE c == [i \in 1..(n + 2) |-> IF i = n + 2 THEN b[n + 1] + SizeOf(kind) + 1 ELSE b[i]]
<1> HIDE DEF n, longer, whole
<1>6. /\ c \in [1..(n + 2) -> Nat] /\ c[1] = 0
      /\ \A i \in 1..(n + 1) : c[i] = b[i]
      /\ c[n + 2] = b[n + 1] + SizeOf(kind) + 1
  BY <1>2, <1>3
<1> HIDE DEF c
<1>7. \A i \in 1..(n + 1) : c[i + 1] = c[i] + SizeOf(longer[i]) + 1
  <2> TAKE i \in 1..(n + 1)
  <2>1. CASE i = n + 1
    BY <1>3, <1>4, <1>6, <2>1
  <2>2. CASE i # n + 1
    <3>1. i \in 1..n /\ i + 1 \in 1..(n + 1)
      BY <1>3, <2>2
    <3> QED
      BY <1>2, <1>4, <1>6, <3>1
  <2> QED
    BY <2>1, <2>2
<1>8. \A i, j \in 1..(n + 2) : i <= j => c[i] <= c[j]
  <2> SUFFICES ASSUME NEW i \in 1..(n + 2), NEW j \in 1..(n + 2), i <= j
               PROVE  c[i] <= c[j]
    OBVIOUS
  <2>1. CASE j # n + 2
    <3>1. i \in 1..(n + 1) /\ j \in 1..(n + 1)
      BY <1>3, <2>1
    <3> QED
      BY <1>2, <1>6, <3>1
  <2>2. CASE j = n + 2 /\ i # n + 2
    <3>1. i \in 1..(n + 1) /\ n + 1 \in 1..(n + 1) /\ i <= n + 1
      BY <1>3, <2>2
    <3>2. b[i] <= b[n + 1] /\ b[i] \in Nat /\ b[n + 1] \in Nat
      BY <1>2, <3>1
    <3> QED
      BY <1>3, <1>6, <2>2, <3>1, <3>2
  <2>3. CASE j = n + 2 /\ i = n + 2
    BY <1>6, <2>3
  <2> QED
    BY <2>1, <2>2, <2>3
<1>9. c \in Bounds(longer)
  <2>1. n + 1 + 1 = n + 2
    BY <1>3
  <2> QED
    BY <1>4, <1>6, <1>7, <1>8, <2>1 DEF Bounds
<1>10. Framed(whole, longer, c)
  <2> SUFFICES ASSUME NEW i \in 1..(n + 1), NEW part \in Nat,
                      part <= SizeOf(longer[i]), c[i] + part + 1 <= Len(whole)
               PROVE  whole[c[i] + part + 1] = [kind |-> longer[i], part |-> part]
    BY <1>4 DEF Framed
  <2>1. CASE i = n + 1
    <3>1. c[i] = Len(stream) /\ longer[i] = kind
      BY <1>1, <1>3, <1>4, <1>6, <2>1 DEF n
    <3> QED
      BY <1>5, <3>1
  <2>2. CASE i # n + 1
    <3>1. i \in 1..n /\ i + 1 \in 1..(n + 1) /\ n + 1 \in 1..(n + 1) /\ i + 1 <= n + 1
      BY <1>3, <2>2
    <3>2. c[i] = b[i] /\ longer[i] = messages[i] /\ messages[i] \in Kinds
      BY <1>4, <1>6, <3>1 DEF n
    <3>3. SizeOf(messages[i]) \in Nat
      BY <3>2, SizeType
    <3>4. b[i] \in Nat /\ b[i + 1] = b[i] + SizeOf(messages[i]) + 1 /\ b[i + 1] <= Len(stream)
      BY <1>1, <1>2, <3>1 DEF n
    <3>5. b[i] + part + 1 \in 1..Len(stream)
      BY <3>2, <3>3, <3>4
    <3>6. stream[b[i] + part + 1] = [kind |-> messages[i], part |-> part]
      BY <1>1, <3>1, <3>2, <3>5 DEF Framed, n
    <3> QED
      BY <1>5, <3>2, <3>5, <3>6
  <2> QED
    BY <2>1, <2>2
<1>11. Len(whole) = c[Len(longer) + 1]
  BY <1>1, <1>2, <1>3, <1>4, <1>5, <1>6 DEF n
<1> QED
  BY <1>9, <1>10, <1>11 DEF CarriesAll, whole, longer

\* A difference of two bounds, read the other way round.
LEMMA Difference ==
    ASSUME NEW x \in Nat, NEW y \in Nat, NEW z \in Nat, x = y - (z + 1)
    PROVE  y = x + z + 1
OBVIOUS

\* The first frame has been read in full: what follows it carries the other messages.
LEMMA FirstFrame ==
    ASSUME NEW messages \in Seq(Kinds), messages # <<>>,
           NEW got \in Seq(Unit), Len(got) = SizeOf(messages[1]), NEW rest \in Seq(Unit),
           NEW stream \in Seq(Unit), stream = <<Header(messages[1])>> \o (got \o rest),
           Carries(stream, messages)
    PROVE  /\ got = Payload(messages[1])
           /\ Carries(rest, Tail(messages))
           /\ CarriesAll(stream, messages) => CarriesAll(rest, Tail(messages))
<1> DEFINE n == Len(messages)
           others == Tail(messages)
           size == SizeOf(messages[1])
<1>1. /\ n \in Nat \ {0} /\ 1 \in 1..n /\ messages[1] \in Kinds
      /\ others \in Seq(Kinds) /\ Len(others) = n - 1
      /\ \A i \in 1..(n - 1) : others[i] = messages[i + 1]
  OBVIOUS
<1>2. size \in Nat
  BY <1>1, SizeType
<1>3. <<Header(messages[1])>> \in Seq(Unit)
  BY <1>1 DEF Header, Unit
<1>4. /\ Len(stream) = 1 + size + Len(rest)
      /\ \A k \in 1..size : stream[k + 1] = got[k]
      /\ \A p \in 1..Len(rest) : stream[p + size + 1] = rest[p]
  <2>1. got \o rest \in Seq(Unit) /\ Len(got \o rest) = size + Len(rest)
    BY <1>2
  <2>2. \A k \in 1..Len(got \o rest) : stream[k + 1] = (got \o rest)[k]
    BY <1>3, <2>1
  <2>3. \A k \in 1..size : (got \o rest)[k] = got[k]
    BY <1>2
  <2>4. \A p \in 1..Len(rest) : (got \o rest)[p + size] = rest[p]
    BY <1>2
  <2>5. Len(stream) = 1 + size + Len(rest)
    BY <1>2, <1>3, <2>1
  <2>6. ASSUME NEW k \in 1..size
        PROVE  stream[k + 1] = got[k]
    <3>1. k \in 1..Len(got \o rest)
      BY <1>2, <2>1
    <3> QED
      BY <2>2, <2>3, <3>1
  <2>7. ASSUME NEW p \in 1..Len(rest)
        PROVE  stream[p + size + 1] = rest[p]
    <3>1. p + size \in 1..Len(got \o rest)
      BY <1>2, <2>1
    <3> QED
      BY <2>2, <2>4, <3>1
  <2> QED
    BY <2>5, <2>6, <2>7
<1>5. ASSUME NEW b \in Bounds(messages), Framed(stream, messages, b)
      PROVE  /\ got = Payload(messages[1])
             /\ \E c \in Bounds(others) :
                    Framed(rest, others, c) /\ c[Len(others) + 1] = b[n + 1] - size - 1
  <2>1. /\ b \in [1..(n + 1) -> Nat] /\ b[1] = 0
        /\ \A i \in 1..n : b[i + 1] = b[i] + SizeOf(messages[i]) + 1
        /\ \A i, j \in 1..(n + 1) : i <= j => b[i] <= b[j]
    BY DEF Bounds
  <2>2. got = Payload(messages[1])
    <3>1. ASSUME NEW k \in 1..size
          PROVE  got[k] = [kind |-> messages[1], part |-> k]
      <4>1. k \in Nat /\ k <= size /\ 0 + k + 1 <= Len(stream)
        BY <1>2, <1>4
      <4>2. stream[b[1] + k + 1] = [kind |-> messages[1], part |-> k]
        BY <1>1, <1>5, <2>1, <4>1 DEF Framed
      <4> QED
        BY <1>4, <2>1, <4>2
    <3>2. got = [k \in 1..size |-> [kind |-> messages[1], part |-> k]]
      BY <1>2, <3>1
    <3> QED
      BY <3>2 DEF Payload
  <2> DEFINE c == [i \in 1..n |-> b[i + 1] - (size + 1)]
  <2>3. b[2] = size + 1
    <3>1. b[1 + 1] = b[1] + size + 1
      BY <1>1, <2>1
    <3> QED
      BY <1>2, <2>1, <3>1
  <2>4. \A i \in 1..n : b[i + 1] \in Nat /\ b[i + 1] >= size + 1
    <3> TAKE i \in 1..n
    <3>1. i + 1 \in 1..(n + 1) /\ 2 \in 1..(n + 1) /\ 2 <= i + 1
      BY <1>1
    <3> QED
      BY <2>1, <2>3, <3>1
  <2> HIDE DEF n, others, size
  <2>5. /\ c \in [1..n -> Nat]
        /\ \A i \in 1..n : c[i] = b[i + 1] - (size + 1)
    BY <1>2, <2>4
  <2> HIDE DEF c
  <2>6. c[1] = 0
    BY <1>1, <1>2, <2>3, <2>5
  <2>7. \A i \in 1..(n - 1) : c[i + 1] = c[i] + SizeOf(others[i]) + 1
    <3> TAKE i \in 1..(n - 1)
    <3>1. i \in 1..n /\ i + 1 \in 1..n
      BY <1>1
    <3>2. b[i + 1 + 1] = b[i + 1] + SizeOf(messages[i + 1]) + 1
      BY <2>1, <3>1
    <3>3. messages[i + 1] \in Kinds
      BY <3>1 DEF n
    <3>4. SizeOf(messages[i + 1]) \in Nat
      BY <3>3, SizeType
    <3>5. c[i + 1] = b[i + 1 + 1] - (size + 1) /\ c[i] = b[i + 1] - (size + 1) /\ b[i + 1] \in Nat
      BY <2>4, <2>5, <3>1
    <3> QED
      BY <1>1, <1>2, <3>2, <3>4, <3>5
  <2>8. \A i, j \in 1..n : i <= j => c[i] <= c[j]
    <3> SUFFICES ASSUME NEW i \in 1..n, NEW j \in 1..n, i <= j
                 PROVE  c[i] <= c[j]
      OBVIOUS
    <3>1. i + 1 \in 1..(n + 1) /\ j + 1 \in 1..(n + 1) /\ i + 1 <= j + 1
      BY <1>1
    <3>2. b[i + 1] <= b[j + 1]
      BY <2>1, <3>1
    <3> QED
      BY <1>2, <2>4, <2>5, <3>2
  <2>9. c \in Bounds(others)
    <3>1. Len(others) + 1 = n
      BY <1>1
    <3> QED
      BY <1>1, <2>5, <2>6, <2>7, <2>8, <3>1 DEF Bounds
  <2>10. Framed(rest, others, c)
    <3> SUFFICES ASSUME NEW i \in 1..(n - 1), NEW part \in Nat,
                        part <= SizeOf(others[i]), c[i] + part + 1 <= Len(rest)
                 PROVE  rest[c[i] + part + 1] = [kind |-> others[i], part |-> part]
      BY <1>1 DEF Framed
    <3>1. i \in 1..n /\ i + 1 \in 1..n
      BY <1>1
    <3>2. b[i + 1] = c[i] + size + 1 /\ c[i] \in Nat
      <4>1. c[i] \in Nat /\ c[i] = b[i + 1] - (size + 1) /\ b[i + 1] \in Nat
        BY <2>4, <2>5, <3>1
      <4>2. size \in Nat
        BY <1>2
      <4>3. PICK x \in Nat, y \in Nat, z \in Nat : x = c[i] /\ y = b[i + 1] /\ z = size
        BY <4>1, <4>2
      <4>4. x = y - (z + 1)
        BY <4>1, <4>3, Zenon
      <4>5. y = x + z + 1
        BY <4>4, Difference
      <4> QED
        BY <4>1, <4>3, <4>5, Zenon
    <3>3. others[i] = messages[i + 1]
      BY <1>1
    <3>4. c[i] + part + 1 \in 1..Len(rest)
      BY <3>2
    <3>5. b[i + 1] + part + 1 <= Len(stream)
      BY SMTT(30), <1>2, <1>4, <3>2
    <3>6. stream[b[i + 1] + part + 1] = [kind |-> messages[i + 1], part |-> part]
      BY <1>5, <3>1, <3>3, <3>5 DEF Framed, n
    <3>7. b[i + 1] + part + 1 = (c[i] + part + 1) + size + 1
      BY <1>2, <3>2
    <3> QED
      BY <1>4, <3>3, <3>4, <3>6, <3>7
  <2>11. c[Len(others) + 1] = b[n + 1] - size - 1
    <3>1. Len(others) + 1 = n /\ n \in 1..n
      BY <1>1
    <3> QED
      BY <1>2, <2>4, <2>5, <3>1
  <2> QED
    BY <2>2, <2>9, <2>10, <2>11
<1>6. got = Payload(messages[1]) /\ Carries(rest, others)
  <2>1. PICK b \in Bounds(messages) : Framed(stream, messages, b) /\ Len(stream) <= b[n + 1]
    BY DEF Carries
  <2>2. PICK c \in Bounds(others) :
            Framed(rest, others, c) /\ c[Len(others) + 1] = b[n + 1] - size - 1
    BY <1>5, <2>1
  <2>3. b[n + 1] \in Nat
    BY <1>1, <2>1 DEF Bounds
  <2> HIDE DEF n, others, size
  <2>4. Len(rest) <= c[Len(others) + 1]
    BY <1>2, <1>4, <2>1, <2>2, <2>3
  <2> QED
    BY <1>5, <2>1, <2>2, <2>4 DEF Carries
<1>7. ASSUME CarriesAll(stream, messages)
      PROVE  CarriesAll(rest, others)
  <2>1. PICK b \in Bounds(messages) : Framed(stream, messages, b) /\ Len(stream) = b[n + 1]
    BY <1>7 DEF CarriesAll
  <2>2. PICK c \in Bounds(others) :
            Framed(rest, others, c) /\ c[Len(others) + 1] = b[n + 1] - size - 1
    BY <1>5, <2>1
  <2> HIDE DEF n, others, size
  <2>3. Len(rest) = c[Len(others) + 1]
    BY <1>2, <1>4, <2>1, <2>2
  <2> QED
    BY <2>2, <2>3 DEF CarriesAll
<1> QED
  BY <1>6, <1>7

-----------------------------------------------------------------------------
(* The two streams of a connection.                                        *)

\* What was sent to an end and not taken by it.
Pending(e) == SubSeq(sent[Other(e)], Len(taken[e]) + 1, Len(sent[Other(e)]))

\* All that is between the two ends, with the header that has been read.
Opening(e) == IF incoming[e].header THEN <<Header(Pending(e)[1])>> ELSE <<>>
Stream(e) == Opening(e) \o (incoming[e].got \o (wire[Other(e)] \o unsent[Other(e)]))

ReadsFirst(e) ==
    IF incoming[e].header
    THEN /\ Pending(e) # <<>>
         /\ incoming[e].size = SizeOf(Pending(e)[1])
         /\ Len(incoming[e].got) <= incoming[e].size
    ELSE incoming[e].got = <<>>

\* The messages to one end: none is lost unless the other end has closed its stream.
Lane(e) ==
    /\ Len(taken[e]) <= Len(sent[Other(e)])
    /\ ReadsFirst(e)
    /\ Carries(Stream(e), Pending(e))
    /\ open[Other(e)] => CarriesAll(Stream(e), Pending(e))

Running == {"connecting", "handshake", "ready", "awaiting"}

OpenEnds ==
    /\ client.place \in Running => open["client"]
    /\ daemon.place # "gone" => open["daemon"]

FramesInv ==
    /\ open \in [Ends -> BOOLEAN]
    /\ sent \in [Ends -> Seq(Kinds)]
    /\ OpenEnds
    /\ \A e \in Ends : Lane(e)

LEMMA JoinThree == \A s, t, u \in Seq(Unit) : (s \o t) \o u = s \o (t \o u)
<1> TAKE s, t, u \in Seq(Unit)
<1>1. s \o t \in Seq(Unit) /\ t \o u \in Seq(Unit)
  OBVIOUS
<1>2. Len((s \o t) \o u) = Len(s \o (t \o u))
  BY <1>1
<1>3. ASSUME NEW i \in 1..Len((s \o t) \o u)
      PROVE  ((s \o t) \o u)[i] = (s \o (t \o u))[i]
  <2>1. CASE i <= Len(s)
    BY <1>1, <2>1
  <2>2. CASE i > Len(s) /\ i <= Len(s) + Len(t)
    BY <1>1, <2>2
  <2>3. CASE i > Len(s) + Len(t)
    BY <1>1, <2>3
  <2> QED
    BY <2>1, <2>2, <2>3
<1>4. (s \o t) \o u \in Seq(Unit) /\ s \o (t \o u) \in Seq(Unit)
  BY <1>1
<1> QED
  BY <1>2, <1>3, <1>4, SeqEqual

\* Cutting a sequence where it was joined, and the other way round.
LEMMA CutJoin ==
    \A s, t \in Seq(Unit) : \A n \in 1..Len(t) :
        (s \o SubSeq(t, 1, n)) \o SubSeq(t, n + 1, Len(t)) = s \o t
<1> SUFFICES ASSUME NEW s \in Seq(Unit), NEW t \in Seq(Unit), NEW n \in 1..Len(t)
             PROVE  (s \o SubSeq(t, 1, n)) \o SubSeq(t, n + 1, Len(t)) = s \o t
  OBVIOUS
<1> DEFINE front == SubSeq(t, 1, n)
           back == SubSeq(t, n + 1, Len(t))
<1>1. front \in Seq(Unit) /\ back \in Seq(Unit)
  BY CutType
<1>2. front \o back = t
  <2>1. 1 \in 1..(Len(t) + 1) /\ n \in (1 - 1)..Len(t) /\ Len(t) \in n..Len(t)
    OBVIOUS
  <2>2. SubSeq(t, 1, n) \o SubSeq(t, n + 1, Len(t)) = SubSeq(t, 1, Len(t))
    BY <2>1, ConcatAdjacentSubSeq
  <2> QED
    BY <2>2, SubSeqFull
<1>3. (s \o front) \o back = s \o (front \o back)
  <2> HIDE DEF front, back
  <2> QED
    BY <1>1, JoinThree
<1> QED
  BY <1>2, <1>3

LEMMA FirstOfJoin ==
    \A s, t \in Seq(Unit) : s # <<>> =>
        s \o t \in Seq(Unit) /\ s \o t # <<>> /\ (s \o t)[1] = Head(s)
<1> SUFFICES ASSUME NEW s \in Seq(Unit), NEW t \in Seq(Unit), s # <<>>
             PROVE  s \o t \in Seq(Unit) /\ s \o t # <<>> /\ (s \o t)[1] = Head(s)
  OBVIOUS
<1>1. Len(s) >= 1 /\ s \o t \in Seq(Unit) /\ Len(s \o t) = Len(s) + Len(t)
  OBVIOUS
<1>2. (s \o t)[1] = s[1]
  BY <1>1
<1> QED
  BY <1>1, <1>2

LEMMA OtherEnds == \A e \in Ends : Other(e) \in Ends /\ Other(e) # e /\ Other(Other(e)) = e
BY DEF Other, Ends

LEMMA PendingType ==
    ASSUME SecrecyInv, FramesInv, NEW e \in Ends
    PROVE  /\ Pending(e) \in Seq(Kinds)
           /\ Len(Pending(e)) = Len(sent[Other(e)]) - Len(taken[e])
           /\ \A i \in 1..Len(Pending(e)) : Pending(e)[i] = sent[Other(e)][Len(taken[e]) + i]
           /\ Len(taken[e]) \in Nat
<1> DEFINE history == sent[Other(e)]
           count == Len(taken[e])
<1>1. history \in Seq(Kinds) /\ count \in Nat /\ count <= Len(history)
  BY OtherEnds DEF SecrecyInv, EndsType, FramesInv, Lane
<1> HIDE DEF history, count
<1>2. /\ SubSeq(history, count + 1, Len(history)) \in Seq(Kinds)
      /\ Len(SubSeq(history, count + 1, Len(history))) = Len(history) - count
      /\ \A i \in 1..(Len(history) - count) :
             SubSeq(history, count + 1, Len(history))[i] = history[count + i]
  BY <1>1
<1> QED
  BY <1>1, <1>2 DEF Pending, history, count

LEMMA StreamType ==
    ASSUME SecrecyInv, FramesInv, NEW e \in Ends
    PROVE  /\ Opening(e) \in Seq(Unit)
           /\ incoming[e] \in Parcel /\ incoming[e].got \in Seq(Unit)
           /\ incoming[e].size \in Nat
           /\ wire[Other(e)] \in Seq(Unit)
           /\ unsent[Other(e)] \in Seq(Unit)
           /\ Stream(e) \in Seq(Unit)
<1>1. incoming[e] \in Parcel /\ wire[Other(e)] \in Seq(Unit) /\ unsent[Other(e)] \in Seq(Unit)
  BY OtherEnds DEF SecrecyInv, UnitsType
<1>2. incoming[e].got \in Seq(Unit) /\ incoming[e].size \in Nat
  BY <1>1 DEF Parcel
<1>3. Opening(e) \in Seq(Unit)
  <2>1. CASE incoming[e].header
    <3>1. Pending(e) # <<>> /\ Pending(e) \in Seq(Kinds)
      BY <2>1, PendingType DEF FramesInv, Lane, ReadsFirst
    <3>2. Pending(e)[1] \in Kinds
      BY <3>1
    <3> QED
      BY <2>1, <3>2 DEF Opening, Header, Unit
  <2>2. CASE ~incoming[e].header
    BY <2>2 DEF Opening
  <2> QED
    BY <2>1, <2>2
<1> QED
  BY <1>1, <1>2, <1>3 DEF Stream

\* Nothing but the place of the units changes.
LEMMA SameLane ==
    ASSUME NEW e \in Ends, Lane(e), Pending(e)' = Pending(e), Stream(e)' = Stream(e),
           ReadsFirst(e)', Len(taken'[e]) = Len(taken[e]),
           Len(sent'[Other(e)]) = Len(sent[Other(e)]),
           open'[Other(e)] => open[Other(e)]
    PROVE  Lane(e)'
BY DEF Lane

LEMMA WriteLanes ==
    ASSUME SecrecyInv, FramesInv, NEW e \in Ends, Write(e), NEW d \in Ends
    PROVE  Lane(d)' /\ Stream(d)' = Stream(d) /\ Pending(d)' = Pending(d)
<1>1. Lane(d)
  BY DEF FramesInv
<1>2. /\ UNCHANGED <<incoming, open, sent, taken>>
      /\ Pending(d)' = Pending(d) /\ Opening(d)' = Opening(d) /\ ReadsFirst(d)'
  BY <1>1 DEF Write, Pending, Opening, Lane, ReadsFirst
<1>3. wire'[Other(d)] \o unsent'[Other(d)] = wire[Other(d)] \o unsent[Other(d)]
  <2>1. wire[e] \in Seq(Unit) /\ unsent[e] \in Seq(Unit)
    BY DEF SecrecyInv, UnitsType
  <2>2. PICK n \in 1..Len(unsent[e]) :
            /\ wire' = [wire EXCEPT ![e] = @ \o SubSeq(unsent[e], 1, n)]
            /\ unsent' = [unsent EXCEPT ![e] = SubSeq(@, n + 1, Len(@))]
    BY DEF Write
  <2>3. CASE Other(d) = e
    <3>1. /\ wire'[e] = wire[e] \o SubSeq(unsent[e], 1, n)
          /\ unsent'[e] = SubSeq(unsent[e], n + 1, Len(unsent[e]))
      BY <2>2 DEF SecrecyInv, UnitsType
    <3>2. (wire[e] \o SubSeq(unsent[e], 1, n)) \o SubSeq(unsent[e], n + 1, Len(unsent[e]))
              = wire[e] \o unsent[e]
      BY <2>1, CutJoin
    <3> QED
      BY <2>3, <3>1, <3>2
  <2>4. CASE Other(d) # e
    BY <2>2, <2>4, OtherEnds DEF SecrecyInv, UnitsType
  <2> QED
    BY <2>3, <2>4
<1>4. Stream(d)' = Stream(d)
  BY <1>2, <1>3 DEF Stream
<1> QED
  BY <1>1, <1>2, <1>4, SameLane

LEMMA ReadHeaderLanes ==
    ASSUME SecrecyInv, FramesInv, NEW e \in Ends, ReadHeader(e), NEW d \in Ends
    PROVE  Lane(d)' /\ Stream(d)' = Stream(d) /\ Pending(d)' = Pending(d)
<1> DEFINE from == Other(e)
           first == Pending(e)[1]
<1>1. Lane(d) /\ Lane(e)
  BY DEF FramesInv
<1>2. from \in Ends /\ wire[from] \in Seq(Unit) /\ wire[from] # <<>> /\ ~incoming[e].header
  BY OtherEnds DEF ReadHeader, Available, SecrecyInv, UnitsType
<1>3. /\ UNCHANGED <<unsent, open, sent, taken>>
      /\ incoming' = [incoming EXCEPT ![e] =
             [size |-> SizeOf(Head(wire[from]).kind), got |-> <<>>, header |-> TRUE]]
      /\ wire' = [wire EXCEPT ![from] = Tail(@)]
      /\ \A a \in Ends : Pending(a)' = Pending(a)
  BY DEF ReadHeader, Available, Pending
<1>4. /\ incoming'[e] = [size |-> SizeOf(Head(wire[from]).kind), got |-> <<>>, header |-> TRUE]
      /\ wire'[from] = Tail(wire[from])
      /\ d # e => incoming'[d] = incoming[d] /\ wire'[Other(d)] = wire[Other(d)]
  BY <1>2, <1>3, OtherEnds DEF SecrecyInv, UnitsType
<1>5. CASE d # e
  <2>1. Stream(d)' = Stream(d) /\ ReadsFirst(d)'
    BY <1>1, <1>3, <1>4, <1>5 DEF Stream, Opening, Lane, ReadsFirst
  <2> QED
    BY <1>1, <1>3, <2>1, SameLane
<1>6. CASE d = e
  <2> DEFINE rest == unsent[from]
  <2>1. /\ Stream(e) = wire[from] \o rest
        /\ wire[from] \o rest \in Seq(Unit) /\ wire[from] \o rest # <<>>
        /\ (wire[from] \o rest)[1] = Head(wire[from])
    <3>1. Opening(e) = <<>> /\ incoming[e].got = <<>> /\ rest \in Seq(Unit)
      BY <1>1, <1>2, StreamType DEF Opening, Lane, ReadsFirst
    <3>2. /\ wire[from] \o rest \in Seq(Unit) /\ wire[from] \o rest # <<>>
          /\ (wire[from] \o rest)[1] = Head(wire[from])
      <4> HIDE DEF from, rest
      <4> QED
        BY <1>2, <3>1, FirstOfJoin
    <3>3. \A s \in Seq(Unit) : <<>> \o (<<>> \o s) = s
      <4> TAKE s \in Seq(Unit)
      <4>1. <<>> \o s = s
        BY ConcatEmptySeq
      <4> QED
        BY <4>1
    <3> QED
      BY <3>1, <3>2, <3>3 DEF Stream
  <2>2. Pending(e) \in Seq(Kinds) /\ Pending(e) # <<>> /\ Head(wire[from]) = Header(first)
    BY <1>1, <2>1, PendingType, FirstUnit DEF Lane
  <2>3. first \in Kinds /\ Header(first).kind = first /\ <<Header(first)>> \in Seq(Unit)
    BY <2>2 DEF Header, Unit
  <2>4. ReadsFirst(e)'
    <3>1. SizeOf(first) \in Nat
      BY <2>3, SizeType
    <3> QED
      BY <1>3, <1>4, <2>2, <2>3, <3>1 DEF ReadsFirst
  <2>5. Stream(e)' = Stream(e)
    <3>1. Opening(e)' = <<Header(first)>>
      BY <1>3, <1>4 DEF Opening
    <3>2. Stream(e)' = <<Header(first)>> \o (<<>> \o (Tail(wire[from]) \o rest))
      <4>1. incoming'[e].got = <<>> /\ unsent'[from] = rest
        BY <1>3, <1>4
      <4> QED
        BY <1>4, <3>1, <4>1 DEF Stream
    <3>3. <<Header(first)>> \o Tail(wire[from]) = wire[from]
      BY <1>2, <2>2, <2>3
    <3>4. Tail(wire[from]) \in Seq(Unit) /\ rest \in Seq(Unit)
      BY <1>2, StreamType
    <3>5. Tail(wire[from]) \o rest \in Seq(Unit)
      BY <3>4
    <3>6. <<>> \o (Tail(wire[from]) \o rest) = Tail(wire[from]) \o rest
      BY <3>5, ConcatEmptySeq
    <3>7. (<<Header(first)>> \o Tail(wire[from])) \o rest
              = <<Header(first)>> \o (Tail(wire[from]) \o rest)
      <4> HIDE DEF from, rest, first
      <4> QED
        BY <2>3, <3>4, JoinThree
    <3> QED
      BY <2>1, <3>2, <3>3, <3>6, <3>7
  <2> QED
    BY <1>1, <1>3, <1>6, <2>4, <2>5, SameLane
<1> QED
  BY <1>5, <1>6

LEMMA ReadChunkLanes ==
    ASSUME SecrecyInv, FramesInv, NEW e \in Ends, ReadChunk(e), NEW d \in Ends
    PROVE  Lane(d)' /\ Stream(d)' = Stream(d) /\ Pending(d)' = Pending(d)
<1> DEFINE from == Other(e)
           missing == incoming[e].size - Len(incoming[e].got)
<1>1. Lane(d) /\ Lane(e)
  BY DEF FramesInv
<1>2. /\ from \in Ends /\ wire[from] \in Seq(Unit) /\ incoming[e].header
      /\ incoming[e] \in Parcel /\ incoming[e].got \in Seq(Unit) /\ incoming[e].size \in Nat
      /\ missing \in Nat
  <2>1. /\ from \in Ends /\ wire[from] \in Seq(Unit) /\ incoming[e].header
        /\ incoming[e] \in Parcel /\ incoming[e].got \in Seq(Unit) /\ incoming[e].size \in Nat
        /\ Len(incoming[e].got) < incoming[e].size
    BY OtherEnds, StreamType DEF ReadChunk
  <2>2. Len(incoming[e].got) \in Nat
    BY <2>1
  <2> QED
    BY <2>1, <2>2
<1>3. PICK n \in 1..Len(wire[from]) :
          /\ incoming' = [incoming EXCEPT ![e].got = @ \o SubSeq(wire[from], 1, n)]
          /\ wire' = [wire EXCEPT ![from] = SubSeq(@, n + 1, Len(@))]
          /\ n <= missing
  <2> DEFINE most == ChunkBuffer(missing)
             available == Len(wire[from])
  <2>1. PICK n \in 1..SmallerOf(most, available) :
            /\ incoming' = [incoming EXCEPT ![e].got = @ \o SubSeq(wire[from], 1, n)]
            /\ wire' = [wire EXCEPT ![from] = SubSeq(@, n + 1, Len(@))]
    BY DEF ReadChunk, Available
  <2>2. available \in Nat
    BY <1>2
  <2>3. most \in Int /\ most <= missing
    <3> HIDE DEF missing
    <3> QED
      BY <1>2, ConnectionAssumption DEF ChunkBuffer
  <2> HIDE DEF most, available, missing
  <2>4. n \in 1..available /\ n <= most
    BY <2>1, <2>2, <2>3 DEF SmallerOf
  <2>5. n <= missing
    BY <1>2, <2>3, <2>4
  <2> QED
    BY <2>1, <2>4, <2>5 DEF available
<1>4. /\ UNCHANGED <<unsent, open, sent, taken>>
      /\ \A a \in Ends : Pending(a)' = Pending(a)
  BY DEF ReadChunk, Pending
<1>5. /\ incoming'[e].got = incoming[e].got \o SubSeq(wire[from], 1, n)
      /\ incoming'[e].header /\ incoming'[e].size = incoming[e].size
      /\ wire'[from] = SubSeq(wire[from], n + 1, Len(wire[from]))
      /\ d # e => incoming'[d] = incoming[d] /\ wire'[Other(d)] = wire[Other(d)]
  BY <1>2, <1>3, OtherEnds DEF SecrecyInv, UnitsType, Parcel
<1>6. CASE d # e
  <2>1. Stream(d)' = Stream(d) /\ ReadsFirst(d)'
    BY <1>1, <1>4, <1>5, <1>6 DEF Stream, Opening, Lane, ReadsFirst
  <2> QED
    BY <1>1, <1>4, <2>1, SameLane
<1>7. CASE d = e
  <2> DEFINE got == incoming[e].got
             front == SubSeq(wire[from], 1, n)
             back == SubSeq(wire[from], n + 1, Len(wire[from]))
             rest == unsent[from]
  <2>1. got \in Seq(Unit) /\ front \in Seq(Unit) /\ back \in Seq(Unit) /\ rest \in Seq(Unit)
        /\ wire[from] \in Seq(Unit) /\ Len(front) = n
    BY <1>2, CutType, StreamType
  <2>2. ReadsFirst(e)'
    <3>1. Len(got \o front) = Len(got) + n
      BY <2>1
    <3>2. Len(got \o front) <= incoming[e].size
      BY <1>2, <1>3, <2>1, <3>1
    <3> QED
      BY <1>1, <1>2, <1>4, <1>5, <3>2 DEF Lane, ReadsFirst
  <2>3. Stream(e)' = Stream(e)
    <3>1. Opening(e)' = Opening(e)
      BY <1>2, <1>4, <1>5 DEF Opening
    <3>2. (got \o front) \o (back \o rest) = got \o (wire[from] \o rest)
      <4>1. (got \o front) \o back = got \o wire[from]
        BY <1>2, CutJoin
      <4> HIDE DEF got, front, back, rest
      <4>2. got \o front \in Seq(Unit)
        BY <2>1
      <4>3. (got \o front) \o (back \o rest) = ((got \o front) \o back) \o rest
        BY <2>1, <4>2, JoinThree
      <4>4. (got \o wire[from]) \o rest = got \o (wire[from] \o rest)
        BY ZenonT(30), <2>1, JoinThree
      <4> QED
        BY <4>1, <4>3, <4>4
    <3> QED
      BY <1>4, <1>5, <3>1, <3>2 DEF Stream
  <2> QED
    BY <1>1, <1>4, <1>7, <2>2, <2>3, SameLane
<1> QED
  BY <1>6, <1>7

\* Only the empty message has no payload.
LEMMA SizeZero == \A kind \in Kinds : SizeOf(kind) = 0 <=> kind = "empty"
BY ConnectionAssumption DEF SizeOf, Kinds, Requests, Answers

LEMMA DecodePayload == \A kind \in Kinds : Decode(Payload(kind)) = kind
<1> TAKE kind \in Kinds
<1>1. SizeOf(kind) \in Nat /\ (SizeOf(kind) = 0 <=> kind = "empty")
  BY SizeType, SizeZero
<1>2. CASE SizeOf(kind) = 0
  <2>1. Payload(kind) = <<>>
    BY <1>2 DEF Payload
  <2> QED
    BY <1>1, <1>2, <2>1 DEF Decode
<1>3. CASE SizeOf(kind) # 0
  <2>1. Len(Payload(kind)) # 0 /\ Payload(kind)[1] = [kind |-> kind, part |-> 1]
    BY <1>1, <1>3 DEF Payload
  <2>2. Payload(kind) # <<>> /\ Payload(kind)[1].kind = kind
    BY <2>1
  <2> QED
    BY <2>2 DEF Decode
<1> QED
  BY <1>2, <1>3

LEMMA RestOfHistory ==
    \A s \in Seq(Kinds), k \in Nat : k < Len(s) =>
        SubSeq(s, k + 1 + 1, Len(s)) = Tail(SubSeq(s, k + 1, Len(s)))
<1> SUFFICES ASSUME NEW s \in Seq(Kinds), NEW k \in Nat, k < Len(s)
             PROVE  SubSeq(s, k + 1 + 1, Len(s)) = Tail(SubSeq(s, k + 1, Len(s)))
  OBVIOUS
<1> DEFINE u == SubSeq(s, k + 1, Len(s))
           v == SubSeq(s, k + 1 + 1, Len(s))
<1>1. u \in Seq(Kinds) /\ Len(u) = Len(s) - k /\ \A i \in 1..(Len(s) - k) : u[i] = s[k + i]
  OBVIOUS
<1>2. v \in Seq(Kinds) /\ Len(v) = Len(s) - k - 1
      /\ \A i \in 1..(Len(s) - k - 1) : v[i] = s[k + 1 + i]
  OBVIOUS
<1> HIDE DEF u, v
<1>3. Tail(u) \in Seq(Kinds) /\ Len(Tail(u)) = Len(s) - k - 1
      /\ \A i \in 1..(Len(s) - k - 1) : Tail(u)[i] = u[i + 1]
  BY <1>1
<1>4. ASSUME NEW i \in 1..Len(v)
      PROVE  v[i] = Tail(u)[i]
  BY <1>1, <1>2, <1>3
<1> QED
  BY <1>2, <1>3, <1>4, SeqEqual DEF u, v

LEMMA LongerHistory ==
    \A s \in Seq(Kinds), k \in Nat, kind \in Kinds : k <= Len(s) =>
        SubSeq(Append(s, kind), k + 1, Len(Append(s, kind)))
            = Append(SubSeq(s, k + 1, Len(s)), kind)
<1> SUFFICES ASSUME NEW s \in Seq(Kinds), NEW k \in Nat, NEW kind \in Kinds, k <= Len(s)
             PROVE  SubSeq(Append(s, kind), k + 1, Len(Append(s, kind)))
                        = Append(SubSeq(s, k + 1, Len(s)), kind)
  OBVIOUS
<1> DEFINE t == Append(s, kind)
           u == SubSeq(s, k + 1, Len(s))
           v == SubSeq(t, k + 1, Len(t))
           w == Append(u, kind)
<1>1. t \in Seq(Kinds) /\ Len(t) = Len(s) + 1 /\ t[Len(s) + 1] = kind
      /\ \A i \in 1..Len(s) : t[i] = s[i]
  OBVIOUS
<1>2. u \in Seq(Kinds) /\ Len(u) = Len(s) - k /\ \A i \in 1..(Len(s) - k) : u[i] = s[k + i]
  OBVIOUS
<1> HIDE DEF t, u
<1>3. v \in Seq(Kinds) /\ Len(v) = Len(s) + 1 - k
      /\ \A i \in 1..(Len(s) + 1 - k) : v[i] = t[k + i]
  BY <1>1
<1>4. w \in Seq(Kinds) /\ Len(w) = Len(s) - k + 1 /\ w[Len(s) - k + 1] = kind
      /\ \A i \in 1..(Len(s) - k) : w[i] = u[i]
  BY <1>2
<1> HIDE DEF v, w
<1>5. ASSUME NEW i \in 1..Len(v)
      PROVE  v[i] = w[i]
  <2>1. CASE i = Len(s) - k + 1
    BY <1>1, <1>3, <1>4, <2>1
  <2>2. CASE i # Len(s) - k + 1
    <3>1. i \in 1..(Len(s) - k) /\ i \in 1..(Len(s) + 1 - k) /\ k + i \in 1..Len(s)
      <4>1. Len(s) \in Nat /\ i \in 1..(Len(s) + 1 - k)
        BY <1>3
      <4> QED
        BY <2>2, <4>1
    <3> QED
      BY <1>1, <1>2, <1>3, <1>4, <3>1
  <2> QED
    BY <2>1, <2>2
<1>6. v = w
  BY <1>3, <1>4, <1>5, SeqEqual
<1> QED
  BY <1>6 DEF t, u, v, w

\* The message that an end takes is the first one it was sent and has not taken.
LEMMA TakesFirst ==
    ASSUME SecrecyInv, FramesInv, NEW e \in Ends, TakeMessage(e)
    PROVE  /\ Pending(e) # <<>> /\ Pending(e) \in Seq(Kinds)
           /\ Received(e) = Pending(e)[1]
           /\ Pending(e)' = Tail(Pending(e)) \/ sent' # sent
           /\ wire[Other(e)] \o unsent[Other(e)] \in Seq(Unit)
           /\ Carries(wire[Other(e)] \o unsent[Other(e)], Tail(Pending(e)))
           /\ CarriesAll(Stream(e), Pending(e)) =>
                  CarriesAll(wire[Other(e)] \o unsent[Other(e)], Tail(Pending(e)))
<1> DEFINE messages == Pending(e)
           got == incoming[e].got
           rest == wire[Other(e)] \o unsent[Other(e)]
<1>1. Lane(e)
  BY DEF FramesInv
<1>2. incoming[e].header /\ Len(got) >= incoming[e].size
  BY DEF TakeMessage, Complete
<1>3. /\ messages # <<>> /\ messages \in Seq(Kinds) /\ messages[1] \in Kinds
      /\ Len(messages) = Len(sent[Other(e)]) - Len(taken[e])
  <2>1. messages # <<>> /\ messages \in Seq(Kinds)
        /\ Len(messages) = Len(sent[Other(e)]) - Len(taken[e])
    BY <1>1, <1>2, PendingType DEF Lane, ReadsFirst
  <2> QED
    BY <2>1
<1>4. got \in Seq(Unit) /\ rest \in Seq(Unit) /\ Stream(e) \in Seq(Unit)
      /\ incoming[e].size \in Nat
  <2>1. wire[Other(e)] \in Seq(Unit) /\ unsent[Other(e)] \in Seq(Unit)
    BY StreamType
  <2> QED
    BY <2>1, StreamType
<1>5. Len(got) = SizeOf(messages[1])
  BY <1>1, <1>2, <1>4 DEF Lane, ReadsFirst
<1>6. Stream(e) = <<Header(messages[1])>> \o (got \o rest) /\ Carries(Stream(e), messages)
  BY <1>1, <1>2 DEF Stream, Opening, Lane
<1>7. Pending(e)' = Tail(messages) \/ sent' # sent
  <2> SUFFICES ASSUME sent' = sent PROVE Pending(e)' = Tail(messages)
    OBVIOUS
  <2>1. Len(taken'[e]) = Len(taken[e]) + 1
    BY TakeMessageType DEF SecrecyInv, EndsType
  <2>2. /\ sent[Other(e)] \in Seq(Kinds) /\ Len(taken[e]) \in Nat
        /\ Len(taken[e]) < Len(sent[Other(e)])
    <3>1. Len(messages) # 0
      BY <1>3
    <3>2. sent[Other(e)] \in Seq(Kinds) /\ Len(taken[e]) \in Nat /\ Len(messages) \in Nat
      BY <1>3, PendingType, OtherEnds DEF FramesInv
    <3> HIDE DEF messages
    <3> QED
      BY <1>3, <3>1, <3>2
  <2> QED
    BY <2>1, <2>2, RestOfHistory DEF Pending
<1> HIDE DEF messages, got, rest
<1>8. /\ got = Payload(messages[1])
      /\ Carries(rest, Tail(messages))
      /\ CarriesAll(Stream(e), messages) => CarriesAll(rest, Tail(messages))
  BY <1>3, <1>4, <1>5, <1>6, FirstFrame
<1>9. Received(e) = messages[1]
  BY <1>3, <1>8, DecodePayload DEF Received, got
<1> QED
  BY <1>3, <1>4, <1>7, <1>8, <1>9 DEF messages, rest

LEMMA TakeLanes ==
    ASSUME SecrecyInv, FramesInv, NEW e \in Ends, TakeMessage(e),
           UNCHANGED <<unsent, wire, open, sent>>, NEW d \in Ends
    PROVE  /\ Lane(d)'
           /\ d = e /\ CarriesAll(Stream(d), Pending(d)) =>
                  CarriesAll(Stream(d)', Pending(d)')
<1> DEFINE rest == wire[Other(e)] \o unsent[Other(e)]
<1>1. Lane(d) /\ Lane(e)
  BY DEF FramesInv
<1>2. /\ incoming'[e] = Nothing /\ Len(taken'[e]) = Len(taken[e]) + 1
      /\ d # e => incoming'[d] = incoming[d] /\ taken'[d] = taken[d]
  BY TakeMessageType DEF TakeMessage, SecrecyInv, EndsType, UnitsType
<1>3. CASE d # e
  <2>1. Pending(d)' = Pending(d) /\ Opening(d)' = Opening(d) /\ ReadsFirst(d)'
    BY <1>1, <1>2, <1>3 DEF Pending, Opening, Lane, ReadsFirst
  <2>2. Stream(d)' = Stream(d)
    BY <1>2, <1>3, <2>1 DEF Stream
  <2> QED
    BY <1>1, <1>2, <1>3, <2>1, <2>2, SameLane
<1>4. CASE d = e
  <2>1. Pending(e) # <<>> /\ Len(taken'[e]) <= Len(sent'[Other(e)])
    <3>1. Pending(e) # <<>> /\ Pending(e) \in Seq(Kinds) /\ Len(taken[e]) \in Nat
          /\ Len(Pending(e)) = Len(sent[Other(e)]) - Len(taken[e])
      BY TakesFirst, PendingType
    <3>2. Len(Pending(e)) >= 1
      BY <3>1
    <3>3. Len(sent[Other(e)]) \in Nat
      BY OtherEnds DEF FramesInv
    <3> QED
      BY <1>2, <3>1, <3>2, <3>3
  <2>2. Pending(e)' = Tail(Pending(e))
    BY TakesFirst
  <2>3. Stream(e)' = rest
    <3>1. Opening(e)' = <<>> /\ incoming'[e].got = <<>>
      BY <1>2 DEF Opening, Nothing
    <3>2. rest \in Seq(Unit)
      BY TakesFirst
    <3>3. Stream(e)' = <<>> \o (<<>> \o rest)
      BY <3>1 DEF Stream
    <3> HIDE DEF rest
    <3> QED
      BY <3>2, <3>3, ConcatEmptySeq
  <2>4. ReadsFirst(e)'
    BY <1>2 DEF ReadsFirst, Nothing
  <2>5. /\ Carries(rest, Tail(Pending(e)))
        /\ open'[Other(e)] => CarriesAll(rest, Tail(Pending(e)))
    BY <1>1, TakesFirst DEF Lane
  <2>6. CarriesAll(Stream(e), Pending(e)) => CarriesAll(rest, Tail(Pending(e)))
    BY TakesFirst
  <2> HIDE DEF rest
  <2> QED
    BY <1>4, <2>1, <2>2, <2>3, <2>4, <2>5, <2>6 DEF Lane
<1> QED
  BY <1>3, <1>4

LEMMA SendLanes ==
    ASSUME SecrecyInv, FramesInv, NEW e \in Ends, NEW kind \in Kinds,
           SendMessage(e, kind), open[e], UNCHANGED <<wire, incoming, open, taken>>,
           NEW d \in Ends
    PROVE  Lane(d)'
<1>1. Lane(d)
  BY DEF FramesInv
<1>2. /\ unsent[e] = <<>> /\ unsent'[e] = Frame(kind)
      /\ sent[e] \in Seq(Kinds) /\ sent'[e] = Append(sent[e], kind)
      /\ Other(d) # e => unsent'[Other(d)] = unsent[Other(d)] /\ sent'[Other(d)] = sent[Other(d)]
  BY OtherEnds DEF SendMessage, SecrecyInv, UnitsType, FramesInv
<1>3. CASE Other(d) # e
  <2>1. Pending(d)' = Pending(d) /\ Opening(d)' = Opening(d) /\ ReadsFirst(d)'
    BY <1>1, <1>2, <1>3 DEF Pending, Opening, Lane, ReadsFirst
  <2>2. Stream(d)' = Stream(d)
    BY <1>2, <1>3, <2>1 DEF Stream
  <2> QED
    BY <1>1, <1>2, <1>3, <2>1, <2>2, SameLane
<1>4. CASE Other(d) = e
  <2>1. /\ Len(taken[d]) \in Nat /\ Len(taken[d]) <= Len(sent[e])
        /\ Pending(d) \in Seq(Kinds)
    BY <1>1, <1>4, PendingType DEF Lane
  <2>2. Pending(d)' = Append(Pending(d), kind)
    <3> DEFINE history == sent[e]
               count == Len(taken[d])
    <3>1. /\ Pending(d) = SubSeq(history, count + 1, Len(history))
          /\ Pending(d)' = SubSeq(Append(history, kind), count + 1, Len(Append(history, kind)))
      BY <1>2, <1>4 DEF Pending
    <3>2. history \in Seq(Kinds) /\ count \in Nat /\ count <= Len(history)
      BY <1>2, <2>1
    <3> HIDE DEF history, count
    <3> QED
      BY <3>1, <3>2, LongerHistory
  <2>3. Len(taken'[d]) <= Len(sent'[Other(d)])
    BY <1>2, <1>4, <2>1
  <2>4. incoming[d].header =>
            Pending(d) # <<>> /\ Append(Pending(d), kind) # <<>>
            /\ Append(Pending(d), kind)[1] = Pending(d)[1]
    <3>1. incoming[d].header => Pending(d) # <<>>
      BY <1>1 DEF Lane, ReadsFirst
    <3>2. Pending(d) # <<>> => Append(Pending(d), kind)[1] = Pending(d)[1]
      BY <2>1
    <3>3. Append(Pending(d), kind) # <<>>
      BY <2>1
    <3> QED
      BY <3>1, <3>2, <3>3
  <2>5. ReadsFirst(d)'
    BY <1>1, <2>2, <2>4 DEF Lane, ReadsFirst
  <2>6. Opening(d)' = Opening(d)
    BY <2>2, <2>4 DEF Opening
  <2>7. Stream(d)' = Stream(d) \o Frame(kind)
    <3> DEFINE first == Opening(d)
               got == incoming[d].got
               read == wire[e]
               frame == Frame(kind)
    <3>1. /\ first \in Seq(Unit) /\ got \in Seq(Unit) /\ read \in Seq(Unit)
          /\ frame \in Seq(Unit)
      BY <1>4, StreamType, FrameType
    <3>2. Stream(d)' = first \o (got \o (read \o frame))
      BY <1>2, <1>4, <2>6 DEF Stream
    <3>3. Stream(d) = first \o (got \o (read \o <<>>))
      BY <1>2, <1>4 DEF Stream
    <3> HIDE DEF first, got, read, frame
    <3>4. read \o <<>> = read
      BY <3>1, ConcatEmptySeq
    <3>5. got \o read \in Seq(Unit)
      BY <3>1
    <3>6. /\ (first \o (got \o read)) \o frame = first \o ((got \o read) \o frame)
          /\ (got \o read) \o frame = got \o (read \o frame)
      BY ZenonT(30), <3>1, <3>5, JoinThree
    <3> QED
      BY <3>2, <3>3, <3>4, <3>6 DEF frame
  <2>8. CarriesAll(Stream(d), Pending(d)) /\ Stream(d) \in Seq(Unit)
    BY <1>1, <1>4, StreamType DEF Lane
  <2>9. CarriesAll(Stream(d)', Pending(d)')
    BY <2>1, <2>2, <2>7, <2>8, FrameAppended
  <2>10. Carries(Stream(d)', Pending(d)')
    <3>1. Stream(d)' \in Seq(Unit) /\ Pending(d)' \in Seq(Kinds)
      BY <2>1, <2>2, <2>7, <2>8, FrameType
    <3> QED
      BY <2>9, <3>1, AllCarried
  <2> QED
    BY <2>3, <2>5, <2>9, <2>10 DEF Lane
<1> QED
  BY <1>3, <1>4

\* Closing a stream loses what was not written to it, and nothing else.
LEMMA CloseLanes ==
    ASSUME SecrecyInv, FramesInv, NEW e \in Ends, Close(e), NEW d \in Ends
    PROVE  /\ Lane(d)'
           /\ unsent[e] = <<>> => Stream(d)' = Stream(d)
           /\ Pending(d)' = Pending(d)
<1>1. Lane(d)
  BY DEF FramesInv
<1>2. /\ UNCHANGED <<wire, incoming, sent, taken>>
      /\ unsent'[e] = <<>> /\ ~open'[e]
      /\ Other(d) # e => /\ unsent'[Other(d)] = unsent[Other(d)]
                         /\ open'[Other(d)] = open[Other(d)]
  BY OtherEnds DEF Close, SecrecyInv, UnitsType, FramesInv
<1>3. Pending(d)' = Pending(d) /\ Opening(d)' = Opening(d) /\ ReadsFirst(d)'
  BY <1>1, <1>2 DEF Pending, Opening, Lane, ReadsFirst
<1>4. unsent'[Other(d)] = unsent[Other(d)] => Stream(d)' = Stream(d)
  BY <1>2, <1>3 DEF Stream
<1>5. CASE Other(d) # e
  BY <1>1, <1>2, <1>3, <1>4, <1>5, SameLane
<1>6. CASE Other(d) = e
  <2> DEFINE first == Opening(d)
             got == incoming[d].got
             read == wire[e]
             lost == unsent[e]
  <2>1. /\ first \in Seq(Unit) /\ got \in Seq(Unit) /\ read \in Seq(Unit)
        /\ lost \in Seq(Unit) /\ Pending(d) \in Seq(Kinds)
    BY <1>6, StreamType, PendingType
  <2>2. Stream(d)' = first \o (got \o (read \o <<>>))
    BY <1>2, <1>3, <1>6 DEF Stream
  <2>3. Stream(d) = first \o (got \o (read \o lost))
    BY <1>6 DEF Stream
  <2>4. Carries(Stream(d)', Pending(d))
    <3> HIDE DEF first, got, read, lost
    <3>1. read \o <<>> = read
      BY <2>1, ConcatEmptySeq
    <3>2. got \o read \in Seq(Unit) /\ first \o (got \o read) \in Seq(Unit)
      BY <2>1
    <3>3. (first \o (got \o read)) \o lost = first \o (got \o (read \o lost))
      <4> DEFINE both == got \o read
      <4>1. both \o lost = got \o (read \o lost)
        BY <2>1, JoinThree
      <4>2. (first \o both) \o lost = first \o (both \o lost)
        <5> HIDE DEF both
        <5>1. both \in Seq(Unit)
          BY <3>2 DEF both
        <5> QED
          BY SMTT(30), <2>1, <5>1, JoinThree
      <4> QED
        BY <4>1, <4>2
    <3>4. Carries((first \o (got \o read)) \o lost, Pending(d))
      BY <1>1, <2>3, <3>3 DEF Lane
    <3>5. Carries(first \o (got \o read), Pending(d))
      BY <2>1, <3>2, <3>4, CutShort
    <3> QED
      BY <2>2, <3>1, <3>5
  <2> QED
    BY <1>1, <1>2, <1>3, <1>4, <1>6, <2>4 DEF Lane
<1> QED
  BY <1>3, <1>4, <1>5, <1>6

-----------------------------------------------------------------------------
(* The messages of a connection arrive whole and in order.                 *)

\* A step of the abstract channel or none.
ChannelStep == [Channel!Next]_(Channel!vars)

LEMMA FramesInit == Init => FramesInv /\ Channel!Init
<1> SUFFICES ASSUME Init
             PROVE  FramesInv /\ Channel!Init
  OBVIOUS
<1>1. /\ open = [e \in Ends |-> TRUE] /\ sent = [e \in Ends |-> <<>>]
      /\ taken = [e \in Ends |-> <<>>] /\ unsent = [e \in Ends |-> <<>>]
      /\ wire = [e \in Ends |-> <<>>] /\ incoming = [e \in Ends |-> Nothing]
  BY DEF Init
<1>2. open \in [Ends -> BOOLEAN] /\ sent \in [Ends -> Seq(Kinds)]
  <2>1. <<>> \in Seq(Kinds)
    OBVIOUS
  <2> QED
    BY <1>1, <2>1
<1>3. OpenEnds
  BY <1>1 DEF OpenEnds, Ends
<1>4. ASSUME NEW e \in Ends
      PROVE  Lane(e)
  <2>1. /\ taken[e] = <<>> /\ sent[Other(e)] = <<>> /\ incoming[e] = Nothing
        /\ wire[Other(e)] = <<>> /\ unsent[Other(e)] = <<>>
    BY <1>1, OtherEnds
  <2>2. Pending(e) = <<>>
    BY <2>1 DEF Pending
  <2>3. Stream(e) = <<>>
    BY <2>1 DEF Stream, Opening, Nothing
  <2>4. ReadsFirst(e)
    BY <2>1 DEF ReadsFirst, Nothing
  <2>5. <<>> \in Seq(Kinds) /\ <<>> \in Seq(Unit)
    OBVIOUS
  <2>6. Carries(<<>>, <<>>) /\ CarriesAll(<<>>, <<>>)
    BY <2>5, CarriesNothing, AllCarried
  <2>7. Len(taken[e]) <= Len(sent[Other(e)])
    BY <2>1
  <2> QED
    BY <2>2, <2>3, <2>4, <2>6, <2>7 DEF Lane
<1> QED
  BY <1>1, <1>2, <1>3, <1>4 DEF FramesInv, Channel!Init

LEMMA SendFrames ==
    ASSUME SecrecyInv, FramesInv, NEW e \in Ends, NEW kind \in Kinds,
           SendMessage(e, kind), open[e], UNCHANGED <<wire, incoming, open, taken>>,
           OpenEnds'
    PROVE  FramesInv' /\ ChannelStep
<1>1. \A d \in Ends : Lane(d)'
  BY SendLanes
<1>2. sent' = [sent EXCEPT ![e] = Append(@, kind)]
  BY DEF SendMessage
<1>3. Append(sent[e], kind) \in Seq(Kinds)
  BY DEF FramesInv
<1>4. FramesInv'
  BY <1>1, <1>2, <1>3 DEF FramesInv
<1>5. Channel!Send(e, kind)
  BY <1>2 DEF Channel!Send
<1> QED
  BY <1>4, <1>5 DEF ChannelStep, Channel!Next

LEMMA TakeFrames ==
    ASSUME SecrecyInv, FramesInv, NEW e \in Ends, TakeMessage(e),
           UNCHANGED <<unsent, wire, open, sent>>, OpenEnds'
    PROVE  FramesInv' /\ ChannelStep
<1>1. \A d \in Ends : Lane(d)'
  BY TakeLanes
<1>2. FramesInv'
  BY <1>1 DEF FramesInv
<1>3. /\ Pending(e) # <<>> /\ Pending(e) \in Seq(Kinds) /\ Received(e) = Pending(e)[1]
      /\ Len(Pending(e)) = Len(sent[Other(e)]) - Len(taken[e])
      /\ \A i \in 1..Len(Pending(e)) : Pending(e)[i] = sent[Other(e)][Len(taken[e]) + i]
      /\ Len(taken[e]) \in Nat /\ Len(sent[Other(e)]) \in Nat
  BY TakesFirst, PendingType, OtherEnds DEF FramesInv
<1>4. Len(Pending(e)) >= 1
  BY <1>3
<1>5. Received(e) = sent[Other(e)][Len(taken[e]) + 1] /\ Len(taken[e]) < Len(sent[Other(e)])
  BY <1>3, <1>4
<1>6. Channel!Take(e, Other(e))
  BY <1>5 DEF TakeMessage, Channel!Take
<1> QED
  BY <1>2, <1>6, OtherEnds DEF ChannelStep, Channel!Next

LEMMA CloseFrames ==
    ASSUME SecrecyInv, FramesInv, NEW e \in Ends, Close(e), OpenEnds'
    PROVE  FramesInv' /\ ChannelStep
<1>1. \A d \in Ends : Lane(d)'
  BY CloseLanes
<1>2. FramesInv'
  BY <1>1 DEF FramesInv, Close
<1> QED
  BY <1>2 DEF ChannelStep, Close, Channel!vars

LEMMA TransportFrames ==
    ASSUME SecrecyInv, FramesInv, NEW e \in Ends, Transport(e)
    PROVE  FramesInv' /\ ChannelStep
<1>1. \A d \in Ends : Lane(d)'
  BY WriteLanes, ReadHeaderLanes, ReadChunkLanes DEF Transport
<1>2. UNCHANGED <<client, daemon, open, sent, taken>>
  BY DEF Transport, Write, ReadHeader, ReadChunk
<1>3. FramesInv'
  BY <1>1, <1>2 DEF FramesInv, OpenEnds
<1> QED
  BY <1>2, <1>3 DEF ChannelStep, Channel!vars

LEMMA ClientFrames ==
    ASSUME SecrecyInv, FramesInv, ClientStep \/ ClientKilled
    PROVE  FramesInv' /\ ChannelStep
<1> USE DEF OpenEnds, Running
<1> DEFINE ClientType == [place : ClientPlaces, secret : Secrets, program : Seq(Requests)]
<1>1. /\ client \in ClientType /\ OpenEnds /\ "client" \in Ends
      /\ open \in [Ends -> BOOLEAN]
  BY DEF SecrecyInv, EndsType, FramesInv, Ends
<1>2. CASE Connect
  <2>1. client.secret \in Kinds /\ open["client"] /\ OpenEnds'
    BY <1>1, <1>2 DEF Connect, Kinds
  <2> QED
    BY <1>1, <1>2, <2>1, SendFrames DEF Connect
<1>3. CASE SendRequest
  <2>1. Head(client.program) \in Requests
    <3>1. client.program \in Seq(Requests) /\ client.program # <<>>
      BY <1>1, <1>3 DEF SendRequest
    <3> QED
      BY <3>1
  <2>2. Head(client.program) \in Kinds /\ open["client"] /\ OpenEnds'
    BY <1>1, <1>3, <2>1 DEF SendRequest, Kinds
  <2> QED
    BY <1>1, <1>3, <2>2, SendFrames DEF SendRequest
<1>4. CASE FinishHandshake \/ ReceiveResponse
  <2>1. TakeMessage("client") /\ UNCHANGED <<unsent, wire, open, sent, daemon>>
    BY <1>4 DEF FinishHandshake, ReceiveResponse
  <2>2. open["client"]
    BY <2>1 DEF TakeMessage, Complete, Reads
  <2> QED
    BY <1>1, <2>1, <2>2, TakeFrames
<1>5. CASE ClientExits \/ ClientCutOff \/ ClientKilled
  <2>1. Close("client") /\ daemon' = daemon
    BY <1>5 DEF ClientExits, ClientCutOff, ClientKilled
  <2>2. client'.place \notin Running
    BY <1>1, <1>5 DEF ClientExits, ClientCutOff, ClientKilled
  <2>3. OpenEnds'
    BY <1>1, <2>1, <2>2 DEF Close, Ends
  <2> QED
    BY <1>1, <2>1, <2>3, CloseFrames
<1> QED
  BY <1>2, <1>3, <1>4, <1>5 DEF ClientStep

LEMMA DaemonFrames ==
    ASSUME SecrecyInv, FramesInv, DaemonStep \/ DaemonExits \/ ShutdownElsewhere
    PROVE  FramesInv' /\ ChannelStep
<1> USE DEF OpenEnds
<1>1. /\ daemon \in [place : DaemonPlaces, request : Message \cup {"none"}, chunks : Nat]
      /\ OpenEnds /\ "daemon" \in Ends /\ open \in [Ends -> BOOLEAN]
  BY DEF SecrecyInv, EndsType, FramesInv, Ends
<1>2. CASE CheckSecret \/ ReceiveRequest
  <2>1. TakeMessage("daemon") /\ UNCHANGED <<unsent, wire, open, sent, client>>
    BY <1>2 DEF CheckSecret, ReceiveRequest
  <2>2. open["daemon"]
    BY <2>1 DEF TakeMessage, Complete, Reads
  <2> QED
    BY <1>1, <2>1, <2>2, TakeFrames
<1>3. CASE SendVersion \/ Answer \/ StreamChunk \/ EndStream \/ AnswerShutdown \/ AnswerBroken
  <2>1. PICK kind \in {"version", "state", "success", "failure", "chunk", "close"} :
            SendMessage("daemon", kind)
    BY <1>3 DEF SendVersion, Answer, StreamChunk, EndStream, AnswerShutdown, AnswerBroken
  <2>2. UNCHANGED <<client, wire, incoming, open, taken>> /\ daemon.place # "gone"
    BY <1>3 DEF SendVersion, Answer, StreamChunk, EndStream, AnswerShutdown, AnswerBroken
  <2>3. kind \in Kinds /\ open["daemon"] /\ OpenEnds'
    BY <1>1, <2>2 DEF Kinds, Answers
  <2> QED
    BY <1>1, <2>1, <2>2, <2>3, SendFrames
<1>4. CASE Leave \/ DaemonExits
  <2>1. Close("daemon") /\ client' = client /\ daemon' = [daemon EXCEPT !.place = "gone"]
    BY <1>4 DEF Leave, DaemonExits
  <2>2. OpenEnds'
    BY <1>1, <2>1 DEF Close, Ends
  <2> QED
    BY <1>1, <2>1, <2>2, CloseFrames
<1>5. CASE InitiateShutdown \/ ShutdownElsewhere
  <2>1. UNCHANGED <<client, streams>> /\ (daemon.place = "gone" => daemon' = daemon)
    BY <1>5 DEF InitiateShutdown, ShutdownElsewhere
  <2>2. OpenEnds'
    BY <1>1, <1>5 DEF InitiateShutdown, ShutdownElsewhere, streams
  <2>3. ASSUME NEW e \in Ends
        PROVE  Lane(e)'
    BY <2>1 DEF streams, FramesInv, Lane, Pending, Stream, Opening, ReadsFirst
  <2>4. FramesInv'
    BY <2>1, <2>2, <2>3 DEF FramesInv, streams
  <2> QED
    BY <2>1, <2>4 DEF ChannelStep, Channel!vars, streams
<1> QED
  BY <1>2, <1>3, <1>4, <1>5 DEF DaemonStep

LEMMA FramesNext == SecrecyInv /\ FramesInv /\ [Next]_vars => FramesInv' /\ ChannelStep
<1> SUFFICES ASSUME SecrecyInv, FramesInv, [Next]_vars
             PROVE  FramesInv' /\ ChannelStep
  OBVIOUS
<1>1. CASE UNCHANGED vars
  <2>1. ASSUME NEW e \in Ends
        PROVE  Lane(e)'
    BY <1>1 DEF vars, streams, FramesInv, Lane, Pending, Stream, Opening, ReadsFirst
  <2>2. FramesInv'
    BY <1>1, <2>1 DEF vars, streams, FramesInv, OpenEnds
  <2> QED
    BY <1>1, <2>2 DEF vars, streams, ChannelStep, Channel!vars
<1> QED
  BY <1>1, TransportFrames, ClientFrames, DaemonFrames DEF Next

\* send_bytes and receive_bytes (pueue_lib/src/network/protocol.rs) implement the channel:
\* whatever the packet size, the sizes of messages and the portions the stream delivers,
\* and wherever it ends, each end takes whole messages, each at most once, in the order
\* in which they were sent.
THEOREM MessagesAreKept == Spec => ExchangesMessages
<1>1. Init /\ [][Next]_vars => [](SecrecyInv /\ FramesInv)
  BY SecrecyInit, SecrecyNext, FramesInit, FramesNext, PTL
<1>2. SecrecyInv /\ FramesInv /\ [Next]_vars => [Channel!Next]_(Channel!vars)
  BY FramesNext DEF ChannelStep
<1> QED
  BY <1>1, <1>2, FramesInit, PTL DEF Spec, ExchangesMessages, Channel!Spec

-----------------------------------------------------------------------------
(* Whoever is cut off has given a reason.                                  *)

ToDaemon == Pending("daemon")
ToClient == Pending("client")

LastSent == sent["client"][Len(sent["client"])]
SentBefore == {sent["client"][i] : i \in 1..(Len(sent["client"]) - 1)}

Reason == shutdown = "requested elsewhere" \/ "shutdown" \in SentBefore

\* The course of one request: nothing is on its way; it is; it is being worked on; the
\* last message of its answer has been sent.
Idle == ToDaemon = <<>> /\ ToClient = <<>>
Asked == Len(ToDaemon) = 1 /\ ToClient = <<>>
Handled ==
    /\ ToDaemon = <<>>
    /\ \A i \in 1..Len(ToClient) : ToClient[i] = "chunk"
Answered(last) ==
    /\ ToDaemon = <<>> /\ ToClient # <<>> /\ last # "chunk"
    /\ ToClient[Len(ToClient)] = last
    /\ \A i \in 1..(Len(ToClient) - 1) : ToClient[i] = "chunk"

Connecting ==
    /\ client.place = "connecting" /\ daemon.place = "secret" /\ shutdown = "no"
    /\ sent["client"] = <<>> /\ Idle

Greeting ==
    /\ client.place = "handshake" /\ shutdown = "no"
    /\ Len(sent["client"]) = 1 /\ LastSent = "right"
    /\ \/ Asked /\ daemon.place = "secret"
       \/ Idle /\ daemon.place = "accepting"
       \/ Answered("version") /\ Len(ToClient) = 1 /\ daemon.place = "waiting"

Ready ==
    /\ client.place = "ready" /\ Idle
    /\ sent["client"] # <<>>
    /\ \/ daemon.place = "waiting" /\ shutdown = "no"
       \/ LastSent = "shutdown" /\ daemon.place \in {"waiting", "answering", "gone"}

\* The answer is complete, and so is what the stream holds of it if the daemon has gone.
AnswerOnItsWay ==
    \E last \in Kinds :
        /\ Answered(last)
        /\ \/ daemon.place = "waiting" /\ shutdown = "no"
           \/ daemon.place = "refusing" /\ shutdown = "no" /\ last = "failure"
           \/ daemon.place = "answering" /\ shutdown = "no" /\ LastSent = "shutdown"
           \/ /\ daemon.place = "waiting" /\ LastSent = "shutdown"
              /\ unsent["daemon"] = <<>>
           \/ /\ daemon.place = "gone" /\ (LastSent = "shutdown" \/ last = "failure")
              /\ unsent["daemon"] = <<>> /\ CarriesAll(Stream("client"), ToClient)

Awaiting ==
    /\ client.place = "awaiting" /\ sent["client"] # <<>> /\ LastSent \in Requests
    /\ \/ Asked /\ daemon.place = "waiting" /\ shutdown = "no"
       \/ /\ Handled /\ daemon.place = "handling" /\ shutdown = "no"
          /\ daemon.request = LastSent
       \/ AnswerOnItsWay
       \/ LastSent = "follow" /\ Idle /\ daemon.place = "waiting" /\ shutdown = "no"
       \/ LastSent = "unknown" /\ Handled /\ daemon.place = "gone"

Conversation == Reason \/ Connecting \/ Greeting \/ Ready \/ Awaiting

ReasonInv ==
    /\ client.secret = "right" /\ client.place \in Running => Conversation
    /\ client.place \notin Running /\ open["client"] => unsent["client"] = <<>>
    /\ CutOffForReason

LEMMA EndNames == /\ "client" \in Ends /\ "daemon" \in Ends
                  /\ Other("client") = "daemon" /\ Other("daemon") = "client"
BY DEF Ends, Other

LEMMA PendingTypes ==
    ASSUME SecrecyInv, FramesInv
    PROVE  /\ ToClient \in Seq(Kinds) /\ ToDaemon \in Seq(Kinds)
           /\ sent["client"] \in Seq(Kinds)
           /\ Len(ToDaemon) = Len(sent["client"]) - Len(taken["daemon"])
           /\ Len(taken["daemon"]) \in Nat
           /\ \A i \in 1..Len(ToDaemon) :
                  ToDaemon[i] = sent["client"][Len(taken["daemon"]) + i]
BY PendingType, EndNames DEF ToClient, ToDaemon, FramesInv

LEMMA SendPending ==
    ASSUME SecrecyInv, FramesInv, NEW e \in Ends, NEW kind \in Kinds,
           SendMessage(e, kind), UNCHANGED taken
    PROVE  /\ Pending(Other(e))' = Append(Pending(Other(e)), kind)
           /\ Pending(e)' = Pending(e)
           /\ sent'[e] = Append(sent[e], kind) /\ sent'[Other(e)] = sent[Other(e)]
<1> DEFINE d == Other(e)
<1>1. /\ d \in Ends /\ d # e /\ Other(d) = e
      /\ sent[e] \in Seq(Kinds) /\ sent'[e] = Append(sent[e], kind) /\ sent'[d] = sent[d]
  BY OtherEnds DEF SendMessage, FramesInv
<1>2. Len(taken[d]) \in Nat /\ Len(taken[d]) <= Len(sent[e])
  BY <1>1, PendingType DEF FramesInv, Lane
<1>3. Pending(d)' = Append(Pending(d), kind)
  <2> DEFINE history == sent[e]
             count == Len(taken[d])
  <2>1. /\ Pending(d) = SubSeq(history, count + 1, Len(history))
        /\ Pending(d)' = SubSeq(Append(history, kind), count + 1, Len(Append(history, kind)))
    BY <1>1 DEF Pending
  <2>2. history \in Seq(Kinds) /\ count \in Nat /\ count <= Len(history)
    BY <1>1, <1>2
  <2> HIDE DEF history, count, d
  <2> QED
    BY <2>1, <2>2, LongerHistory
<1>4. Pending(e)' = Pending(e)
  BY <1>1 DEF Pending
<1> QED
  BY <1>1, <1>3, <1>4

\* The client sends its next message.
LEMMA ClientAsks ==
    ASSUME SecrecyInv, FramesInv, Idle, NEW kind \in Kinds,
           SendMessage("client", kind), UNCHANGED taken
    PROVE  /\ Asked' /\ LastSent' = kind
           /\ sent'["client"] # <<>> /\ Len(sent'["client"]) = Len(sent["client"]) + 1
           /\ sent["client"] # <<>> => LastSent \in SentBefore'
<1>1. /\ ToDaemon' = Append(ToDaemon, kind) /\ ToClient' = ToClient
      /\ sent'["client"] = Append(sent["client"], kind)
  BY SendPending, EndNames DEF ToDaemon, ToClient
<1>2. sent["client"] \in Seq(Kinds)
  BY PendingTypes
<1>3. Asked'
  BY <1>1 DEF Idle, Asked
<1>4. LastSent' = kind /\ sent'["client"] # <<>>
      /\ Len(sent'["client"]) = Len(sent["client"]) + 1
  BY <1>1, <1>2 DEF LastSent
<1>5. ASSUME sent["client"] # <<>>
      PROVE  LastSent \in SentBefore'
  <2> DEFINE n == Len(sent["client"])
  <2>1. n \in 1..(Len(sent'["client"]) - 1) /\ sent'["client"][n] = LastSent
    BY <1>1, <1>2, <1>5 DEF LastSent
  <2> QED
    BY <2>1 DEF SentBefore
<1> QED
  BY <1>3, <1>4, <1>5

\* The daemon takes it.
LEMMA DaemonTakes ==
    ASSUME SecrecyInv, FramesInv, TakeMessage("daemon"), UNCHANGED sent
    PROVE  /\ ToDaemon # <<>> /\ ToClient' = ToClient
           /\ Asked => Idle' /\ Received("daemon") = LastSent
<1>1. /\ ToDaemon # <<>> /\ Received("daemon") = ToDaemon[1] /\ ToDaemon' = Tail(ToDaemon)
  BY TakesFirst, EndNames DEF ToDaemon
<1>2. ToClient' = ToClient
  <2>1. taken'["client"] = taken["client"]
    BY TakeMessageType, EndNames DEF SecrecyInv, EndsType, TakeMessage, Ends
  <2> QED
    BY <2>1 DEF ToClient, Pending
<1>3. ASSUME Asked
      PROVE  Idle' /\ Received("daemon") = LastSent
  <2>1. Len(ToDaemon) = 1 /\ ToDaemon \in Seq(Kinds)
    BY <1>3, PendingTypes DEF Asked
  <2>2. ToDaemon[1] = sent["client"][Len(taken["daemon"]) + 1]
        /\ Len(taken["daemon"]) + 1 = Len(sent["client"])
    BY <2>1, PendingTypes
  <2>3. Tail(ToDaemon) = <<>>
    <3> DEFINE rest == Tail(ToDaemon)
    <3>1. rest \in Seq(Kinds) /\ Len(rest) = 0
      BY <2>1
    <3> HIDE DEF rest
    <3>2. rest = <<>>
      BY <3>1
    <3> QED
      BY <3>2 DEF rest
  <2> QED
    BY <1>1, <1>2, <1>3, <2>2, <2>3 DEF Asked, Idle, LastSent
<1> QED
  BY <1>1, <1>2, <1>3

\* The daemon sends a message of its answer.
LEMMA DaemonAnswers ==
    ASSUME SecrecyInv, FramesInv, Handled, NEW kind \in Kinds,
           SendMessage("daemon", kind), UNCHANGED taken
    PROVE  /\ kind = "chunk" => Handled'
           /\ kind # "chunk" => Answered(kind)'
           /\ ToClient = <<>> => Len(ToClient)' = 1
           /\ sent'["client"] = sent["client"]
<1>1. /\ ToClient' = Append(ToClient, kind) /\ ToDaemon' = ToDaemon
      /\ sent'["client"] = sent["client"]
  BY SendPending, EndNames DEF ToDaemon, ToClient
<1>2. /\ ToClient \in Seq(Kinds)
      /\ \A i \in 1..Len(ToClient) : ToClient[i] = "chunk"
  BY PendingTypes DEF Handled
<1> DEFINE longer == Append(ToClient, kind)
<1>3. /\ longer # <<>> /\ Len(longer) = Len(ToClient) + 1 /\ longer[Len(longer)] = kind
      /\ \A i \in 1..Len(ToClient) : longer[i] = "chunk"
  BY <1>2
<1> HIDE DEF longer
<1>4. kind # "chunk" => Answered(kind)'
  BY <1>1, <1>2, <1>3 DEF Handled, Answered, longer
<1>5. kind = "chunk" => Handled'
  <2>1. kind = "chunk" => \A i \in 1..Len(longer) : longer[i] = "chunk"
    BY <1>2, <1>3
  <2> QED
    BY <1>1, <2>1 DEF Handled, longer
<1> QED
  BY <1>1, <1>3, <1>4, <1>5 DEF longer

\* The client takes a message of the answer.
LEMMA ClientTakes ==
    ASSUME SecrecyInv, FramesInv, TakeMessage("client"), UNCHANGED sent
    PROVE  /\ ToClient # <<>> /\ ToDaemon' = ToDaemon
           /\ Handled => Received("client") = "chunk" /\ Handled'
           /\ \A last \in Kinds : Answered(last) =>
                  \/ Received("client") = last /\ Idle'
                  \/ Received("client") = "chunk" /\ Answered(last)' /\ Len(ToClient) # 1
<1>1. /\ ToClient # <<>> /\ Received("client") = ToClient[1] /\ ToClient' = Tail(ToClient)
  BY TakesFirst, EndNames DEF ToClient
<1>2. ToDaemon' = ToDaemon
  <2>1. taken'["daemon"] = taken["daemon"]
    BY TakeMessageType, EndNames DEF SecrecyInv, EndsType, TakeMessage, Ends
  <2> QED
    BY <2>1 DEF ToDaemon, Pending
<1>3. ToClient \in Seq(Kinds) /\ Len(ToClient) \in Nat /\ Len(ToClient) >= 1
  BY <1>1, PendingTypes
<1> DEFINE rest == Tail(ToClient)
<1>4. /\ rest \in Seq(Kinds) /\ Len(rest) = Len(ToClient) - 1
      /\ \A i \in 1..(Len(ToClient) - 1) : rest[i] = ToClient[i + 1]
  BY <1>3
<1> HIDE DEF rest
<1>5. ASSUME Handled
      PROVE  Received("client") = "chunk" /\ Handled'
  <2>1. \A i \in 1..Len(rest) : rest[i] = "chunk"
    BY <1>3, <1>4, <1>5 DEF Handled
  <2> QED
    BY <1>1, <1>2, <1>3, <1>5, <2>1 DEF Handled, rest
<1>6. ASSUME NEW last \in Kinds, Answered(last)
      PROVE  \/ Received("client") = last /\ Idle'
             \/ Received("client") = "chunk" /\ Answered(last)' /\ Len(ToClient) # 1
  <2>1. CASE Len(ToClient) = 1
    <3>1. rest = <<>>
      BY <1>4, <2>1
    <3>2. ToClient[1] = last /\ ToDaemon = <<>>
      BY <1>6, <2>1 DEF Answered
    <3>3. Idle'
      BY <1>1, <1>2, <3>1, <3>2 DEF Idle, rest
    <3> QED
      BY <1>1, <3>2, <3>3
  <2>2. CASE Len(ToClient) # 1
    <3>1. ToClient[1] = "chunk"
      <4>1. 1 \in 1..(Len(ToClient) - 1)
        <5> DEFINE n == Len(ToClient)
        <5>1. n \in Nat /\ n >= 1 /\ n # 1
          BY <1>3, <2>2
        <5> HIDE DEF n
        <5>2. 1 \in 1..(n - 1)
          BY <5>1
        <5> QED
          BY <5>2 DEF n
      <4> QED
        BY <1>6, <4>1 DEF Answered
    <3>2. rest # <<>> /\ rest[Len(rest)] = last
      BY <1>3, <1>4, <1>6, <2>2 DEF Answered
    <3>3. \A i \in 1..(Len(rest) - 1) : rest[i] = "chunk"
      BY <1>3, <1>4, <1>6, <2>2 DEF Answered
    <3> QED
      BY <1>1, <1>2, <1>6, <2>2, <3>1, <3>2, <3>3 DEF Answered, rest
  <2> QED
    BY <2>1, <2>2
<1> QED
  BY <1>1, <1>2, <1>5, <1>6

LEMMA StreamLength ==
    ASSUME SecrecyInv, FramesInv, NEW e \in Ends
    PROVE  Len(Stream(e)) = Len(Opening(e)) + Len(incoming[e].got)
                                + Len(wire[Other(e)]) + Len(unsent[Other(e)])
<1> DEFINE first == Opening(e)
           got == incoming[e].got
           read == wire[Other(e)]
           rest == unsent[Other(e)]
<1>1. first \in Seq(Unit) /\ got \in Seq(Unit) /\ read \in Seq(Unit) /\ rest \in Seq(Unit)
  BY StreamType
<1>2. Stream(e) = first \o (got \o (read \o rest))
  BY DEF Stream
<1> HIDE DEF first, got, read, rest
<1>3. read \o rest \in Seq(Unit) /\ Len(read \o rest) = Len(read) + Len(rest)
  BY <1>1
<1>4. /\ got \o (read \o rest) \in Seq(Unit)
      /\ Len(got \o (read \o rest)) = Len(got) + Len(read) + Len(rest)
  BY <1>1, <1>3
<1>5. Len(first \o (got \o (read \o rest))) = Len(first) + Len(got) + Len(read) + Len(rest)
  BY <1>1, <1>4
<1> QED
  BY <1>2, <1>5 DEF first, got, read, rest

\* An end that was sent nothing more leaves the other one nothing to write.
LEMMA NothingUnsent ==
    ASSUME SecrecyInv, FramesInv, NEW e \in Ends, open[Other(e)], Pending(e) = <<>>
    PROVE  unsent[Other(e)] = <<>>
<1>1. CarriesAll(Stream(e), <<>>)
  BY DEF FramesInv, Lane
<1>2. Len(Stream(e)) = 0
  <2>1. PICK b \in Bounds(<<>>) : Len(Stream(e)) = b[Len(<<>>) + 1]
    BY <1>1 DEF CarriesAll
  <2>2. b[1] = 0 /\ Len(<<>>) + 1 = 1
    BY DEF Bounds
  <2> QED
    BY <2>1, <2>2
<1>3. /\ unsent[Other(e)] \in Seq(Unit) /\ Len(Opening(e)) \in Nat
      /\ Len(incoming[e].got) \in Nat /\ Len(wire[Other(e)]) \in Nat
  BY StreamType
<1>4. Len(unsent[Other(e)]) = 0
  <2> DEFINE a == Len(Opening(e))
             b == Len(incoming[e].got)
             c == Len(wire[Other(e)])
             l == Len(unsent[Other(e)])
  <2>1. a \in Nat /\ b \in Nat /\ c \in Nat /\ l \in Nat
    BY <1>3
  <2>2. a + b + c + l = 0
    BY <1>2, StreamLength
  <2> HIDE DEF a, b, c, l
  <2>3. l = 0
    BY <2>1, <2>2
  <2> QED
    BY <2>3 DEF l
<1> QED
  BY <1>3, <1>4

\* A message that is on the stream as a whole is complete when the stream has been read.
LEMMA ReadToTheEnd ==
    ASSUME SecrecyInv, FramesInv, NEW e \in Ends, CarriesAll(Stream(e), Pending(e)),
           Pending(e) # <<>>, wire[Other(e)] = <<>>, unsent[Other(e)] = <<>>
    PROVE  incoming[e].header /\ Len(incoming[e].got) >= incoming[e].size
<1>1. Pending(e) \in Seq(Kinds) /\ Stream(e) \in Seq(Unit) /\ Pending(e)[1] \in Kinds
  BY PendingType, StreamType
<1>2. Len(Stream(e)) >= SizeOf(Pending(e)[1]) + 1 /\ SizeOf(Pending(e)[1]) \in Nat
  BY <1>1, WholeFrame, SizeType
<1>3. Len(Stream(e)) = Len(Opening(e)) + Len(incoming[e].got) /\ Len(incoming[e].got) \in Nat
  <2>1. Len(Opening(e)) \in Nat /\ Len(incoming[e].got) \in Nat
    BY StreamType
  <2>2. Len(wire[Other(e)]) = 0 /\ Len(unsent[Other(e)]) = 0
    OBVIOUS
  <2>3. Len(Stream(e)) = Len(Opening(e)) + Len(incoming[e].got) + 0 + 0
    BY <2>2, StreamLength
  <2> HIDE DEF Opening
  <2> QED
    BY <2>1, <2>3
<1>4. ReadsFirst(e)
  BY DEF FramesInv, Lane
<1>5. incoming[e].header
  <2> SUFFICES ASSUME ~incoming[e].header PROVE FALSE
    OBVIOUS
  <2>1. Len(Opening(e)) = 0 /\ Len(incoming[e].got) = 0
    BY <1>4 DEF Opening, ReadsFirst
  <2> QED
    BY <1>2, <1>3, <2>1
<1>6. Len(Opening(e)) = 1 /\ incoming[e].size = SizeOf(Pending(e)[1])
  BY <1>4, <1>5 DEF Opening, ReadsFirst
<1> QED
  BY <1>2, <1>3, <1>5, <1>6

\* What has once been a reason stays one.
LEMMA ReasonStays ==
    ASSUME SecrecyInv, FramesInv, [Next]_vars, Reason
    PROVE  Reason'
<1>1. ChannelStep
  BY FramesNext
<1>2. sent["client"] \in Seq(Kinds) /\ sent \in [Ends -> Seq(Kinds)]
  BY PendingTypes DEF FramesInv
<1>3. \/ sent'["client"] = sent["client"]
      \/ \E kind \in Kinds : sent'["client"] = Append(sent["client"], kind)
  <2>1. CASE \E e \in Ends, kind \in Kinds : Channel!Send(e, kind)
    <3>1. PICK e \in Ends, kind \in Kinds : sent' = [sent EXCEPT ![e] = Append(@, kind)]
      BY <2>1 DEF Channel!Send
    <3> QED
      BY <1>2, <3>1, EndNames
  <2>2. CASE sent' = sent
    BY <2>2
  <2> QED
    BY <1>1, <2>1, <2>2
    DEF ChannelStep, Channel!Next, Channel!Take, Channel!vars
<1>4. SentBefore \subseteq SentBefore'
  <2>1. CASE sent'["client"] = sent["client"]
    BY <2>1 DEF SentBefore
  <2>2. ASSUME NEW kind \in Kinds, sent'["client"] = Append(sent["client"], kind)
        PROVE  SentBefore \subseteq SentBefore'
    <3>1. ASSUME NEW i \in 1..(Len(sent["client"]) - 1)
          PROVE  /\ i \in 1..(Len(sent'["client"]) - 1)
                 /\ sent'["client"][i] = sent["client"][i]
      BY <1>2, <2>2
    <3> QED
      BY <3>1 DEF SentBefore
  <2> QED
    BY <1>3, <2>1, <2>2
<1>5. shutdown = "requested elsewhere" => shutdown' = "requested elsewhere"
  BY DEF Next, vars, streams, ClientStep, ClientKilled, DaemonStep, ShutdownElsewhere,
         DaemonExits, Transport, Write, ReadHeader, ReadChunk, Connect, FinishHandshake,
         SendRequest, ReceiveResponse, ClientExits, ClientCutOff, CheckSecret, SendVersion,
         ReceiveRequest, Answer, StreamChunk, EndStream, AnswerShutdown,
         InitiateShutdown, AnswerBroken, Leave
<1> QED
  BY <1>4, <1>5 DEF Reason

\* Where the conversation is, told from the client's place.
LEMMA PlaceTells ==
    ASSUME Conversation, ~Reason
    PROVE  /\ client.place = "connecting" => Connecting
           /\ client.place = "handshake" => Greeting
           /\ client.place = "ready" => Ready
           /\ client.place = "awaiting" => Awaiting
BY DEF Conversation, Connecting, Greeting, Ready, Awaiting

LEMMA ClientConverses ==
    ASSUME SecrecyInv, FramesInv, client.secret = "right", Conversation, ~Reason,
           ClientStep, client'.place \in Running
    PROVE  Conversation'
<1> USE DEF Running
<1> DEFINE ClientType == [place : ClientPlaces, secret : Secrets, program : Seq(Requests)]
<1>1. client \in ClientType /\ sent["client"] \in Seq(Kinds)
  BY PendingTypes DEF SecrecyInv, EndsType
<1>2. CASE Connect
  <2>1. Connecting
    BY <1>2, PlaceTells DEF Connect
  <2>2. client'.place = "handshake" /\ "right" \in Kinds
    BY <1>1, <1>2 DEF Connect, Kinds
  <2>3. Asked' /\ LastSent' = "right" /\ Len(sent'["client"]) = Len(sent["client"]) + 1
    BY <1>2, <2>1, <2>2, ClientAsks DEF Connect, Connecting
  <2>4. Len(sent["client"]) = 0
    BY <2>1 DEF Connecting
  <2>5. Greeting'
    BY <1>2, <2>1, <2>2, <2>3, <2>4 DEF Connect, Connecting, Greeting
  <2> QED
    BY <2>5 DEF Conversation
<1>3. CASE FinishHandshake
  <2>1. TakeMessage("client") /\ UNCHANGED <<sent, daemon, shutdown>>
        /\ client'.place = "ready" /\ Greeting
    BY <1>1, <1>3, PlaceTells DEF FinishHandshake
  <2>2. Answered("version") /\ Len(ToClient) = 1 /\ daemon.place = "waiting"
    BY <2>1, ClientTakes DEF Greeting, Asked, Idle
  <2>3. Idle'
    BY <2>1, <2>2, ClientTakes DEF Kinds
  <2>4. sent["client"] # <<>>
    BY <2>1 DEF Greeting
  <2>5. Ready'
    BY <2>1, <2>2, <2>3, <2>4 DEF Greeting, Ready
  <2> QED
    BY <2>5 DEF Conversation
<1>4. CASE SendRequest
  <2> DEFINE kind == Head(client.program)
  <2>1. kind \in Requests /\ kind \in Kinds
    <3>1. client.program \in Seq(Requests) /\ client.program # <<>>
      BY <1>1, <1>4 DEF SendRequest
    <3> QED
      BY <3>1 DEF Kinds
  <2>2. /\ Ready /\ SendMessage("client", kind) /\ UNCHANGED <<taken, daemon, shutdown>>
        /\ client'.place = "awaiting"
    BY <1>1, <1>4, PlaceTells DEF SendRequest
  <2> HIDE DEF kind
  <2>3. Asked' /\ LastSent' = kind /\ sent'["client"] # <<>> /\ LastSent \in SentBefore'
    BY <2>1, <2>2, ClientAsks DEF Ready
  <2>4. CASE LastSent = "shutdown"
    BY <2>3, <2>4 DEF Reason, Conversation
  <2>5. CASE LastSent # "shutdown"
    <3>1. Awaiting'
      BY <2>1, <2>2, <2>3, <2>5 DEF Ready, Awaiting
    <3> QED
      BY <3>1 DEF Conversation
  <2> QED
    BY <2>4, <2>5
<1>5. CASE ReceiveResponse
  <2>1. /\ TakeMessage("client") /\ UNCHANGED <<unsent, wire, open, sent, daemon, shutdown>>
        /\ LastSent' = LastSent /\ Awaiting
    BY <1>5, PlaceTells DEF ReceiveResponse, LastSent
  <2>2. /\ Received("client") = "chunk" => client'.place = "awaiting"
        /\ Received("client") = "failure" => client'.place = "refused"
        /\ Received("client") \notin {"chunk", "failure"} =>
               \/ client'.place = "ready"
               \/ client'.place = "awaiting" /\ LastSent = "follow"
    BY <1>1, <1>5 DEF ReceiveResponse, Unheeded, LastSent
  <2>3. CASE Handled /\ daemon.place # "waiting"
    <3>1. Received("client") = "chunk" /\ Handled'
      BY <2>1, <2>3, ClientTakes
    <3>2. \/ daemon.place = "handling" /\ shutdown = "no" /\ daemon.request = LastSent
          \/ LastSent = "unknown" /\ daemon.place = "gone"
      BY <2>1, <2>3, ClientTakes DEF Awaiting, AnswerOnItsWay, Answered, Handled
    <3>3. Awaiting'
      BY <2>1, <2>2, <3>1, <3>2 DEF Awaiting
    <3> QED
      BY <3>3 DEF Conversation
  <2>4. CASE AnswerOnItsWay
    <3>1. PICK last \in Kinds :
        /\ Answered(last)
        /\ \/ daemon.place = "waiting" /\ shutdown = "no"
           \/ daemon.place = "refusing" /\ shutdown = "no" /\ last = "failure"
           \/ daemon.place = "answering" /\ shutdown = "no" /\ LastSent = "shutdown"
           \/ /\ daemon.place = "waiting" /\ LastSent = "shutdown"
              /\ unsent["daemon"] = <<>>
           \/ /\ daemon.place = "gone" /\ (LastSent = "shutdown" \/ last = "failure")
              /\ unsent["daemon"] = <<>> /\ CarriesAll(Stream("client"), ToClient)
      BY <2>4 DEF AnswerOnItsWay
    <3>2. CASE Received("client") = last /\ Idle'
      <4>1. /\ last # "chunk" /\ last # "failure"
            /\ \/ client'.place = "ready"
               \/ client'.place = "awaiting" /\ LastSent = "follow"
        BY <2>2, <3>1, <3>2 DEF Answered
      <4>2. CASE client'.place = "ready"
        <5>1. Ready'
          BY <2>1, <3>1, <3>2, <4>1, <4>2 DEF Awaiting, Ready
        <5> QED
          BY <5>1 DEF Conversation
      <4>3. CASE client'.place = "awaiting" /\ LastSent = "follow"
        <5>1. daemon.place = "waiting" /\ shutdown = "no"
          BY <3>1, <4>1, <4>3
        <5>2. Awaiting'
          BY <2>1, <3>2, <4>3, <5>1 DEF Awaiting
        <5> QED
          BY <5>2 DEF Conversation
      <4> QED
        BY <4>1, <4>2, <4>3
    <3>3. CASE Received("client") = "chunk" /\ Answered(last)'
      <4>1. CarriesAll(Stream("client"), ToClient) =>
                CarriesAll(Stream("client"), ToClient)'
        BY <2>1, TakeLanes, EndNames DEF ToClient
      <4>2. AnswerOnItsWay'
        BY <2>1, <3>1, <3>3, <4>1 DEF AnswerOnItsWay
      <4>3. Awaiting'
        BY <2>1, <2>2, <3>3, <4>2 DEF Awaiting
      <4> QED
        BY <4>3 DEF Conversation
    <3> QED
      BY <2>1, <3>1, <3>2, <3>3, ClientTakes
  <2> QED
    BY <2>1, <2>3, <2>4, ClientTakes DEF Awaiting, Asked, Idle
<1>6. CASE ClientExits \/ ClientCutOff
  BY <1>1, <1>6 DEF ClientExits, ClientCutOff
<1> QED
  BY <1>2, <1>3, <1>4, <1>5, <1>6 DEF ClientStep

\* Nothing changes but what the daemon has closed.
LEMMA GoneConverses ==
    ASSUME SecrecyInv, FramesInv, Close("daemon"), UNCHANGED <<client, shutdown>>,
           daemon'.place = "gone",
           \/ Ready /\ LastSent = "shutdown"
           \/ Awaiting /\ LastSent = "unknown" /\ Handled
           \/ \E last \in Kinds :
                  /\ Awaiting
                  /\ Answered(last) /\ (LastSent = "shutdown" \/ last = "failure")
                  /\ unsent["daemon"] = <<>> /\ CarriesAll(Stream("client"), ToClient)
    PROVE  Conversation'
<1>1. /\ UNCHANGED sent /\ unsent'["daemon"] = <<>> /\ LastSent' = LastSent
      /\ ToDaemon' = ToDaemon /\ ToClient' = ToClient
  BY CloseLanes, EndNames DEF Close, ToDaemon, ToClient, LastSent, SecrecyInv, UnitsType
<1>2. unsent["daemon"] = <<>> => Stream("client")' = Stream("client")
  BY CloseLanes, EndNames
<1>3. CASE Ready /\ LastSent = "shutdown"
  <2>1. Ready'
    BY <1>1, <1>3 DEF Ready, Idle
  <2> QED
    BY <2>1 DEF Conversation
<1>4. CASE Awaiting
  <2>2. CASE LastSent = "unknown" /\ Handled
    <3>1. Awaiting'
      BY <1>1, <1>4, <2>2 DEF Awaiting, Handled
    <3> QED
      BY <3>1 DEF Conversation
  <2>3. ASSUME NEW last \in Kinds, Answered(last), LastSent = "shutdown" \/ last = "failure",
               unsent["daemon"] = <<>>, CarriesAll(Stream("client"), ToClient)
        PROVE  Conversation'
    <3>1. AnswerOnItsWay'
      BY <1>1, <1>2, <2>3 DEF AnswerOnItsWay, Answered
    <3>2. Awaiting'
      BY <1>1, <1>4, <3>1 DEF Awaiting
    <3> QED
      BY <3>2 DEF Conversation
  <2>4. ~Ready
    BY <1>4 DEF Awaiting, Ready
  <2> QED
    BY <2>2, <2>3, <2>4
<1> QED
  BY <1>3, <1>4

LEMMA DaemonConverses ==
    ASSUME SecrecyInv, FramesInv, client.secret = "right", client.place \in Running,
           Conversation, ~Reason, DaemonStep \/ DaemonExits
    PROVE  Conversation'
<1> USE DEF Running
<1>1. /\ daemon \in [place : DaemonPlaces, request : Message \cup {"none"}, chunks : Nat]
      /\ open["client"] /\ (daemon.place # "gone" => open["daemon"])
      /\ client' = client /\ (~InitiateShutdown => shutdown' = shutdown)
  BY DEF SecrecyInv, EndsType, FramesInv, OpenEnds, DaemonStep, DaemonExits, CheckSecret,
         SendVersion, ReceiveRequest, Answer, StreamChunk, EndStream, AnswerShutdown,
         InitiateShutdown, AnswerBroken, Leave
<1>2. Connecting \/ Greeting \/ Ready \/ Awaiting
  BY DEF Conversation
<1>3. CASE CheckSecret
  <2>1. TakeMessage("daemon") /\ UNCHANGED <<sent, shutdown>> /\ daemon.place = "secret"
    BY <1>3 DEF CheckSecret
  <2>2. Greeting /\ Asked
    BY <1>2, <2>1, DaemonTakes
    DEF Connecting, Greeting, Ready, Awaiting, AnswerOnItsWay, Idle, Answered
  <2>3. Idle' /\ Received("daemon") = "right"
    BY <2>1, <2>2, DaemonTakes DEF Greeting
  <2>4. daemon'.place = "accepting"
    BY <1>1, <1>3, <2>3 DEF CheckSecret, SecretMatches
  <2>5. Greeting'
    BY <1>1, <2>1, <2>2, <2>3, <2>4 DEF Greeting, LastSent
  <2> QED
    BY <2>5 DEF Conversation
<1>4. CASE SendVersion
  <2>1. /\ SendMessage("daemon", "version") /\ UNCHANGED <<taken, shutdown>>
        /\ daemon.place = "accepting" /\ daemon'.place = "waiting"
    BY <1>1, <1>4 DEF SendVersion
  <2>2. Greeting /\ Idle
    BY <1>2, <2>1 DEF Connecting, Greeting, Ready, Awaiting, AnswerOnItsWay
  <2>3. Handled /\ ToClient = <<>>
    BY <2>2 DEF Idle, Handled
  <2>4. /\ Answered("version")' /\ Len(ToClient)' = 1
        /\ sent'["client"] = sent["client"]
    BY <2>1, <2>3, DaemonAnswers DEF Kinds
  <2>5. Greeting'
    BY <1>1, <2>1, <2>2, <2>4 DEF Greeting, LastSent
  <2> QED
    BY <2>5 DEF Conversation
<1>5. CASE ReceiveRequest
  <2>1. TakeMessage("daemon") /\ UNCHANGED <<sent, shutdown>> /\ daemon.place = "waiting"
    BY <1>5 DEF ReceiveRequest
  <2>2. Awaiting /\ Asked /\ shutdown = "no"
    BY <1>2, <2>1, DaemonTakes
    DEF Connecting, Greeting, Ready, Awaiting, AnswerOnItsWay, Idle, Answered
  <2>3. Idle' /\ Received("daemon") = LastSent
    BY <2>1, <2>2, DaemonTakes
  <2>4. daemon'.place = "handling" /\ daemon'.request = LastSent
    BY <1>5, <2>3 DEF ReceiveRequest
  <2>5. Handled'
    BY <2>3 DEF Idle, Handled
  <2>6. Awaiting'
    BY <1>1, <2>1, <2>2, <2>4, <2>5 DEF Awaiting, LastSent
  <2> QED
    BY <2>6 DEF Conversation
<1>6. ASSUME daemon.place = "handling"
      PROVE  Awaiting /\ Handled /\ shutdown = "no" /\ daemon.request = LastSent
  BY <1>2, <1>6 DEF Connecting, Greeting, Ready, Awaiting, AnswerOnItsWay
<1>7. CASE Answer \/ EndStream \/ AnswerShutdown \/ AnswerBroken
  <2>1. PICK kind \in {"state", "success", "failure", "close"} :
            /\ SendMessage("daemon", kind)
            /\ AnswerBroken => kind = "failure"
    BY <1>7 DEF Answer, EndStream, AnswerShutdown, AnswerBroken
  <2>2. /\ UNCHANGED <<taken, shutdown>> /\ daemon.place = "handling"
        /\ \/ daemon'.place = "waiting"
           \/ daemon'.place = "answering" /\ daemon.request = "shutdown"
           \/ daemon'.place = "refusing" /\ kind = "failure"
    BY <1>1, <1>7, <2>1 DEF Answer, EndStream, AnswerShutdown, AnswerBroken
  <2>3. kind \in Kinds /\ kind # "chunk"
    BY DEF Kinds, Answers
  <2>4. Answered(kind)' /\ sent'["client"] = sent["client"]
    BY <1>6, <2>1, <2>2, <2>3, DaemonAnswers
  <2>5. LastSent' = LastSent
    BY <2>4 DEF LastSent
  <2>6. AnswerOnItsWay'
    BY <1>6, <2>2, <2>3, <2>4, <2>5 DEF AnswerOnItsWay
  <2>7. Awaiting'
    BY <1>1, <1>6, <2>2, <2>4, <2>5, <2>6 DEF Awaiting
  <2> QED
    BY <2>7 DEF Conversation
<1>8. CASE StreamChunk
  <2>1. /\ SendMessage("daemon", "chunk") /\ UNCHANGED <<taken, shutdown>>
        /\ daemon.place = "handling"
        /\ daemon'.place = "handling" /\ daemon'.request = daemon.request
    BY <1>1, <1>8 DEF StreamChunk
  <2>2. Handled' /\ sent'["client"] = sent["client"]
    BY <1>6, <2>1, DaemonAnswers DEF Kinds, Answers
  <2>3. Awaiting'
    BY <1>1, <1>6, <2>1, <2>2 DEF Awaiting, LastSent
  <2> QED
    BY <2>3 DEF Conversation
<1>9. CASE InitiateShutdown
  <2>1. /\ daemon.place = "answering" /\ unsent["daemon"] = <<>> /\ UNCHANGED streams
        /\ daemon'.place = "waiting"
    BY <1>1, <1>9 DEF InitiateShutdown
  <2>2. /\ ToDaemon' = ToDaemon /\ ToClient' = ToClient /\ LastSent' = LastSent
        /\ UNCHANGED <<unsent, sent>>
    BY <2>1 DEF streams, ToDaemon, ToClient, Pending, LastSent
  <2>3. CASE Ready
    <3>1. Ready'
      BY <1>1, <2>1, <2>2, <2>3 DEF Ready, Idle
    <3> QED
      BY <3>1 DEF Conversation
  <2>4. CASE Awaiting
    <3>1. PICK last \in Kinds : Answered(last) /\ LastSent = "shutdown"
      BY <2>1, <2>4 DEF Awaiting, AnswerOnItsWay
    <3>2. AnswerOnItsWay'
      BY <2>1, <2>2, <3>1 DEF AnswerOnItsWay, Answered
    <3>3. Awaiting'
      BY <1>1, <2>2, <2>4, <3>2 DEF Awaiting
    <3> QED
      BY <3>3 DEF Conversation
  <2> QED
    BY <1>2, <2>1, <2>3, <2>4 DEF Connecting, Greeting
<1>10. Close("daemon") /\ daemon' = [daemon EXCEPT !.place = "gone"]
           => Close("daemon") /\ daemon'.place = "gone"
  BY <1>1
<1>11. CASE Leave
  <2>1. Close("daemon") /\ UNCHANGED <<client, shutdown>> /\ daemon'.place = "gone"
        /\ open["daemon"]
    BY <1>10, <1>11 DEF Leave
  <2>2. CASE daemon.place = "refusing" /\ unsent["daemon"] = <<>>
    <3>1. Awaiting /\ Answered("failure")
      BY <1>2, <2>2 DEF Connecting, Greeting, Ready, Awaiting, AnswerOnItsWay
    <3>2. CarriesAll(Stream("client"), ToClient)
      BY <2>1, EndNames DEF FramesInv, Lane, ToClient
    <3> QED
      BY <2>1, <2>2, <3>1, <3>2, GoneConverses DEF Kinds, Answers
  <2>3. CASE daemon.place = "handling" /\ Unanswerable(daemon.request)
    <3>1. Awaiting /\ Handled /\ LastSent = daemon.request /\ LastSent \in Requests
      BY <1>6, <2>3 DEF Awaiting
    <3>2. LastSent = "unknown"
      BY <2>3, <3>1 DEF Unanswerable, Requests
    <3> QED
      BY <2>1, <3>1, <3>2, GoneConverses
  <2>4. CASE TooBig("daemon") /\ incoming["daemon"].header
    <3>1. /\ ToDaemon # <<>> /\ incoming["daemon"].size = SizeOf(ToDaemon[1])
          /\ daemon.place = "secret" /\ incoming["daemon"].size > SecretLimit
      BY <2>4, EndNames DEF TooBig, FramesInv, Lane, ReadsFirst, ToDaemon
    <3>2. Greeting /\ Asked
      BY <1>2, <3>1
      DEF Connecting, Greeting, Ready, Awaiting, AnswerOnItsWay, Idle
    <3>3. ToDaemon[1] = "right"
      <4>1. Len(ToDaemon) = 1 /\ LastSent = "right"
        BY <3>2 DEF Greeting, Asked
      <4>2. ToDaemon[1] = sent["client"][Len(taken["daemon"]) + 1]
            /\ Len(taken["daemon"]) + 1 = Len(sent["client"])
        BY <4>1, PendingTypes
      <4> QED
        BY <4>1, <4>2 DEF LastSent
    <3>4. SizeOf("right") = 1
      BY DEF SizeOf
    <3> QED
      BY <3>1, <3>3, <3>4, ConnectionAssumption
  <2>5. CASE StreamBroke("daemon")
    BY <1>1, <2>5, EndNames DEF StreamBroke
  <2> QED
    BY <1>11, <2>2, <2>3, <2>4, <2>5 DEF Leave
<1>12. CASE DaemonExits
  <2>1. Close("daemon") /\ UNCHANGED <<client, shutdown>> /\ daemon'.place = "gone"
        /\ open["daemon"] /\ shutdown # "no"
    BY <1>10, <1>12 DEF DaemonExits
  <2>2. CASE Ready
    <3>1. LastSent = "shutdown"
      BY <2>1, <2>2 DEF Ready
    <3> QED
      BY <2>1, <2>2, <3>1, GoneConverses
  <2>3. CASE Awaiting
    <3>1. CarriesAll(Stream("client"), ToClient)
      BY <2>1, EndNames DEF FramesInv, Lane, ToClient
    <3>2. \/ LastSent = "unknown" /\ Handled
          \/ \E last \in Kinds :
                  /\ Answered(last) /\ (LastSent = "shutdown" \/ last = "failure")
                  /\ unsent["daemon"] = <<>>
      BY <2>1, <2>3 DEF Awaiting, AnswerOnItsWay
    <3> QED
      BY <2>1, <2>3, <3>1, <3>2, GoneConverses
  <2> QED
    BY <1>2, <2>1, <2>2, <2>3 DEF Connecting, Greeting
<1> QED
  BY <1>3, <1>4, <1>5, <1>7, <1>8, <1>9, <1>11, <1>12 DEF DaemonStep

LEMMA TransportConverses ==
    ASSUME SecrecyInv, FramesInv, Conversation, ~Reason, NEW e \in Ends, Transport(e)
    PROVE  Conversation'
<1>1. /\ UNCHANGED <<client, daemon, shutdown, sent>> /\ LastSent' = LastSent
      /\ ToDaemon' = ToDaemon /\ ToClient' = ToClient
      /\ Stream("client")' = Stream("client")
  BY WriteLanes, ReadHeaderLanes, ReadChunkLanes, EndNames
  DEF Transport, Write, ReadHeader, ReadChunk, ToDaemon, ToClient, LastSent
<1>2. unsent["daemon"] = <<>> => unsent'["daemon"] = <<>>
  <2>1. CASE Write(e)
    <3>1. unsent \in [Ends -> Seq(Unit)]
      BY DEF SecrecyInv, UnitsType
    <3>2. e = "daemon" => Len(unsent["daemon"]) # 0
      BY <2>1 DEF Write
    <3>3. e # "daemon" => unsent'["daemon"] = unsent["daemon"]
      BY <2>1, <3>1, EndNames DEF Write
    <3> QED
      BY <3>2, <3>3
  <2>2. CASE ReadHeader(e) \/ ReadChunk(e)
    BY <2>2 DEF ReadHeader, ReadChunk
  <2> QED
    BY <2>1, <2>2 DEF Transport
<1>3. Connecting => Connecting'
  BY <1>1 DEF Connecting, Idle
<1>4. Greeting => Greeting'
  BY <1>1 DEF Greeting, Idle, Asked, Answered
<1>5. Ready => Ready'
  BY <1>1 DEF Ready, Idle
<1>6. AnswerOnItsWay => AnswerOnItsWay'
  BY <1>1, <1>2 DEF AnswerOnItsWay, Answered
<1>7. Awaiting => Awaiting'
  BY <1>1, <1>6 DEF Awaiting, Idle, Asked, Handled
<1> QED
  BY <1>3, <1>4, <1>5, <1>7 DEF Conversation

LEMMA ConversationNext ==
    ASSUME SecrecyInv, FramesInv, [Next]_vars, client.secret = "right",
           client.place \in Running => Conversation, client'.place \in Running
    PROVE  Conversation'
<1>1. client.place \in Running
  <2>1. client \in [place : ClientPlaces, secret : Secrets, program : Seq(Requests)]
    BY DEF SecrecyInv, EndsType
  <2>2. ASSUME client' # client
        PROVE  client.place \in Running
    <3>1. ClientStep \/ ClientKilled
      BY <2>2 DEF Next, vars, streams, DaemonStep, ShutdownElsewhere, DaemonExits, Transport,
             Write, ReadHeader, ReadChunk, CheckSecret, SendVersion, ReceiveRequest, Answer,
             StreamChunk, EndStream, AnswerShutdown, InitiateShutdown, AnswerBroken, Leave
    <3> QED
      BY <2>1, <3>1
      DEF ClientStep, ClientKilled, Connect, FinishHandshake, SendRequest, ReceiveResponse,
          ClientExits, ClientCutOff, Running
  <2> QED
    BY <2>2
<1>2. CASE Reason
  BY <1>2, ReasonStays DEF Conversation
<1>3. CASE ~Reason
  <2>1. CASE ClientStep
    BY <1>1, <1>3, <2>1, ClientConverses
  <2>2. CASE ClientKilled
    <3>1. client'.place = "killed"
      BY <2>2 DEF ClientKilled, SecrecyInv, EndsType
    <3> QED
      BY <3>1 DEF Running
  <2>3. CASE DaemonStep \/ DaemonExits
    BY <1>1, <1>3, <2>3, DaemonConverses
  <2>4. CASE ShutdownElsewhere
    BY <2>4 DEF ShutdownElsewhere, Reason, Conversation
  <2>5. CASE \E e \in Ends : Transport(e)
    BY <1>1, <1>3, <2>5, TransportConverses
  <2>6. CASE UNCHANGED vars
    <3>1. /\ UNCHANGED <<client, daemon, shutdown, sent, unsent>> /\ LastSent' = LastSent
          /\ ToDaemon' = ToDaemon /\ ToClient' = ToClient
          /\ Stream("client")' = Stream("client")
      BY <2>6 DEF vars, streams, LastSent, ToDaemon, ToClient, Pending, Stream, Opening
    <3>2. AnswerOnItsWay => AnswerOnItsWay'
      BY <3>1 DEF AnswerOnItsWay, Answered
    <3> QED
      BY <1>1, <1>3, <3>1, <3>2
      DEF Conversation, Connecting, Greeting, Ready, Awaiting, Idle, Asked, Handled, Answered
  <2> QED
    BY <2>1, <2>2, <2>3, <2>4, <2>5, <2>6 DEF Next
<1> QED
  BY <1>2, <1>3

\* What a client has still to write when it reads no more.
LEMMA QuietNext ==
    ASSUME SecrecyInv, FramesInv, [Next]_vars,
           client.place \notin Running /\ open["client"] => unsent["client"] = <<>>,
           client'.place \notin Running, open'["client"]
    PROVE  unsent'["client"] = <<>>
<1>1. /\ client \in [place : ClientPlaces, secret : Secrets, program : Seq(Requests)]
      /\ unsent \in [Ends -> Seq(Unit)] /\ sent \in [Ends -> Seq(Kinds)]
      /\ open \in [Ends -> BOOLEAN]
  BY DEF SecrecyInv, EndsType, UnitsType, FramesInv
<1>2. CASE ClientStep \/ ClientKilled
  <2>1. CASE ReceiveResponse \/ FinishHandshake
    BY <2>1 DEF ReceiveResponse, FinishHandshake, TakeMessage, Complete, Reads
  <2>2. CASE Connect \/ SendRequest
    BY <1>1, <2>2 DEF Connect, SendRequest, Running
  <2>3. CASE ClientExits \/ ClientCutOff \/ ClientKilled
    BY <1>1, <2>3, EndNames DEF ClientExits, ClientCutOff, ClientKilled, Close
  <2> QED
    BY <1>2, <2>1, <2>2, <2>3 DEF ClientStep
<1>3. CASE DaemonStep \/ ShutdownElsewhere \/ DaemonExits
  <2>1. client' = client
    BY <1>3 DEF DaemonStep, ShutdownElsewhere, DaemonExits, CheckSecret, SendVersion,
         ReceiveRequest, Answer, StreamChunk, EndStream, AnswerShutdown, InitiateShutdown,
         AnswerBroken, Leave
  <2>2. unsent'["client"] = unsent["client"] /\ open'["client"] = open["client"]
    BY <1>1, <1>3, EndNames DEF DaemonStep, ShutdownElsewhere, DaemonExits, CheckSecret,
         SendVersion, ReceiveRequest, Answer, StreamChunk, EndStream, AnswerShutdown,
         InitiateShutdown, AnswerBroken, Leave, streams, Close, SendMessage
  <2> QED
    BY <2>1, <2>2
<1>4. CASE \E e \in Ends : Transport(e)
  <2>1. PICK e \in Ends : Transport(e)
    BY <1>4
  <2>2. UNCHANGED <<client, open>>
    BY <2>1 DEF Transport, Write, ReadHeader, ReadChunk
  <2>3. CASE Write(e)
    <3>1. e = "client" => Len(unsent["client"]) # 0
      BY <2>3 DEF Write
    <3>2. e # "client" => unsent'["client"] = unsent["client"]
      BY <1>1, <2>3, EndNames DEF Write
    <3> QED
      BY <2>2, <3>1, <3>2
  <2>4. CASE ReadHeader(e) \/ ReadChunk(e)
    BY <2>2, <2>4 DEF ReadHeader, ReadChunk
  <2> QED
    BY <2>1, <2>3, <2>4 DEF Transport
<1>5. CASE UNCHANGED vars
  BY <1>5 DEF vars, streams
<1> QED
  BY <1>2, <1>3, <1>4, <1>5 DEF Next

\* A client that is cut off now.
LEMMA CutOffNow ==
    ASSUME SecrecyInv, FramesInv, ReasonInv, ClientCutOff, client.secret = "right"
    PROVE  LastSent = "unknown" \/ Reason
<1>1. /\ StreamBroke("client") /\ ~open["daemon"] /\ open["client"]
      /\ daemon.place = "gone"
  BY EndNames DEF ClientCutOff, StreamBroke, FramesInv, OpenEnds
<1>2. SUFFICES ASSUME ~Reason, LastSent # "unknown"
               PROVE  FALSE
  OBVIOUS
<1>3. CASE client.place \notin Running
  BY <1>1, <1>3 DEF ReasonInv, StreamBroke, Reads, Running
<1>4. CASE client.place \in Running
  <2>1. Ready \/ Awaiting
    BY <1>1, <1>2, <1>4 DEF ReasonInv, Conversation, Connecting, Greeting
  <2>2. ToDaemon = <<>>
    BY <1>1, <1>2, <2>1 DEF Ready, Awaiting, Idle, AnswerOnItsWay, Answered
  <2>3. unsent["client"] = <<>>
    BY <1>1, <2>2, NothingUnsent, EndNames DEF ToDaemon
  <2>4. Reads("client") /\ ~Complete("client") /\ wire["daemon"] = <<>>
    BY <1>1, <2>3, EndNames DEF StreamBroke, Available
  <2>5. Awaiting
    BY <2>1, <2>4 DEF Reads, Ready
  <2>6. /\ ToClient # <<>> /\ unsent["daemon"] = <<>>
        /\ CarriesAll(Stream("client"), ToClient)
    BY <1>1, <1>2, <2>5 DEF Awaiting, AnswerOnItsWay, Answered
  <2>7. incoming["client"].header /\ Len(incoming["client"].got) >= incoming["client"].size
    BY <2>4, <2>6, ReadToTheEnd, EndNames DEF ToClient
  <2> QED
    BY <2>4, <2>7 DEF Complete, TooBig
<1> QED
  BY <1>3, <1>4

LEMMA CutOffNext == SecrecyInv /\ FramesInv /\ ReasonInv /\ [Next]_vars => CutOffForReason'
<1> SUFFICES ASSUME SecrecyInv, FramesInv, ReasonInv, [Next]_vars,
                    client'.place = "cut off", client'.secret = "right"
             PROVE  LastSent' = "unknown" \/ Reason'
  BY DEF CutOffForReason, LastSent, Reason, SentBefore
<1>1. client \in [place : ClientPlaces, secret : Secrets, program : Seq(Requests)]
  BY DEF SecrecyInv, EndsType
<1>2. Reason => Reason'
  BY ReasonStays
<1>3. CASE ClientCutOff
  <2>1. client.secret = "right" /\ LastSent' = LastSent
    BY <1>1, <1>3 DEF ClientCutOff, Close, LastSent
  <2> QED
    BY <1>2, <1>3, <2>1, CutOffNow
<1>4. CASE ~ClientCutOff
  <2>1. (~ClientStep /\ ~ClientKilled) \/ UNCHANGED vars
    BY <1>1, <1>4 DEF ClientStep, ClientKilled, Connect, FinishHandshake, SendRequest,
         ReceiveResponse, ClientExits
  <2>2. client' = client /\ sent'["client"] = sent["client"]
    <3>1. sent \in [Ends -> Seq(Kinds)]
      BY DEF FramesInv
    <3> QED
      BY <2>1, <3>1, EndNames DEF Next, vars, streams, DaemonStep, ShutdownElsewhere,
         DaemonExits, Transport, Write, ReadHeader, ReadChunk, CheckSecret, SendVersion,
         ReceiveRequest, Answer, StreamChunk, EndStream, AnswerShutdown, InitiateShutdown,
         AnswerBroken, Leave, Close, SendMessage
  <2>3. LastSent = "unknown" \/ Reason
    BY <2>2 DEF ReasonInv, CutOffForReason, LastSent, Reason, SentBefore
  <2>4. LastSent' = LastSent
    BY <2>2 DEF LastSent
  <2> QED
    BY <1>2, <2>3, <2>4
<1> QED
  BY <1>3, <1>4

LEMMA ReasonInit == Init => ReasonInv
<1> SUFFICES ASSUME Init PROVE ReasonInv
  OBVIOUS
<1>1. /\ client.place = "connecting" /\ daemon.place = "secret" /\ shutdown = "no"
      /\ sent["client"] = <<>> /\ sent["daemon"] = <<>>
      /\ taken["client"] = <<>> /\ taken["daemon"] = <<>>
  BY EndNames DEF Init
<1>2. Idle
  BY <1>1, EndNames DEF Idle, ToDaemon, ToClient, Pending
<1>3. Connecting
  BY <1>1, <1>2 DEF Connecting
<1> QED
  BY <1>1, <1>3 DEF ReasonInv, Conversation, CutOffForReason, Running

LEMMA ReasonNext == SecrecyInv /\ FramesInv /\ ReasonInv /\ [Next]_vars => ReasonInv'
<1> SUFFICES ASSUME SecrecyInv, FramesInv, ReasonInv, [Next]_vars
             PROVE  ReasonInv'
  OBVIOUS
<1>1. client'.secret = client.secret
  <2>1. client \in [place : ClientPlaces, secret : Secrets, program : Seq(Requests)]
    BY DEF SecrecyInv, EndsType
  <2> QED
    BY <2>1 DEF Next, vars, ClientStep, ClientKilled, Connect, FinishHandshake, SendRequest,
       ReceiveResponse, ClientExits, ClientCutOff, DaemonStep, ShutdownElsewhere,
       DaemonExits, Transport, Write, ReadHeader, ReadChunk, CheckSecret, SendVersion,
       ReceiveRequest, Answer, StreamChunk, EndStream, AnswerShutdown, InitiateShutdown,
       AnswerBroken, Leave
<1>2. client'.secret = "right" /\ client'.place \in Running => Conversation'
  BY <1>1, ConversationNext DEF ReasonInv
<1>3. client'.place \notin Running /\ open'["client"] => unsent'["client"] = <<>>
  BY QuietNext DEF ReasonInv
<1> QED
  BY <1>2, <1>3, CutOffNext DEF ReasonInv

\* handle_incoming, handle_request and receive_response: a client with the right secret
\* loses its connection before its answer only because it sent a request that the daemon
\* does not know, or because someone has asked for the shutdown; the client that asks for
\* it gets its answer first.  No answer is lost when the daemon closes the stream, however
\* the stream cuts it.
THEOREM CutOffOnlyForReason == Spec => []CutOffForReason
<1>1. Init /\ [][Next]_vars => [](SecrecyInv /\ FramesInv /\ ReasonInv)
  BY SecrecyInit, SecrecyNext, FramesInit, FramesNext, ReasonInit, ReasonNext, PTL
<1> QED
  BY <1>1, PTL DEF Spec, ReasonInv

-----------------------------------------------------------------------------
(* Nobody waits for somebody who waits, but for the one hang of a follow.  *)

\* What an end may do next of its own: write or notice that nobody reads, read or notice
\* that nothing comes, take the message it has received or refuse it, go on.
HasWork(e) ==
    /\ open[e]
    /\ \/ unsent[e] # <<>>
       \/ /\ Reads(e)
          /\ \/ Available(e) # <<>> \/ Complete(e) \/ ~open[Other(e)]
             \/ incoming[e].header /\ TooBig(e)
       \/ e = "client" /\ client.place \in {"connecting", "ready", "refused"}
       \/ e = "daemon" /\ daemon.place \in {"accepting", "refusing", "answering"}
       \/ e = "daemon" /\ daemon.place = "handling" /\ daemon.request \in Requests

Over == client.place \notin Running /\ daemon.place = "gone"

SomebodyMoves == Over \/ HasWork("client") \/ HasWork("daemon") \/ HungFollow

\* What a follow may be answered with in the end.
EndsFollow(last) == LastSent = "follow" => last \in {"close", "failure", "success"}

\* Whose turn it is, whatever the secret and whoever asked for a shutdown.
Turn ==
    \/ client.place = "connecting" /\ Idle /\ daemon.place = "secret"
    \/ /\ client.place = "handshake"
       /\ \/ Asked /\ daemon.place = "secret"
          \/ Idle /\ daemon.place \in {"accepting", "refusing"}
          \/ Answered("version") /\ Len(ToClient) = 1 /\ daemon.place = "waiting"
    \/ client.place = "ready" /\ Idle /\ daemon.place \in {"waiting", "answering"}
    \/ /\ client.place = "awaiting"
       /\ \/ Asked /\ daemon.place \in {"waiting", "answering"}
          \/ Handled /\ daemon.place = "handling" /\ daemon.request = LastSent
          \/ \E last \in Kinds :
                 /\ Answered(last) /\ EndsFollow(last)
                 /\ \/ daemon.place = "waiting"
                    \/ daemon.place = "answering" /\ LastSent = "shutdown"
                    \/ daemon.place = "refusing" /\ last = "failure"
          \/ /\ Idle /\ daemon.place = "waiting" /\ LastSent = "follow"
             /\ taken["client"][Len(taken["client"])] = "success"

\* What the client sends after its secret are requests, so the daemon can handle them.
WordsInv ==
    /\ client.place = "connecting" => sent["client"] = <<>>
    /\ \A i \in 2..Len(sent["client"]) : sent["client"][i] \in Requests
    /\ daemon.place \notin {"secret", "gone"} => taken["daemon"] # <<>>
    /\ daemon.place = "handling" => daemon.request \in Requests
    /\ daemon.chunks \in 0..MaxChunks

TurnInv ==
    /\ client.place \in Running /\ daemon.place # "gone" => Turn
    /\ client.place \notin Running \cup {"refused"} => ~open["client"]
    /\ daemon.place = "gone" => ~open["daemon"]

LEMMA WordsNext == SecrecyInv /\ FramesInv /\ WordsInv /\ [Next]_vars => WordsInv'
<1> SUFFICES ASSUME SecrecyInv, FramesInv, WordsInv, [Next]_vars
             PROVE  WordsInv'
  OBVIOUS
<1>1. /\ client \in [place : ClientPlaces, secret : Secrets, program : Seq(Requests)]
      /\ daemon \in [place : DaemonPlaces, request : Message \cup {"none"}, chunks : Nat]
      /\ sent \in [Ends -> Seq(Kinds)] /\ taken \in [Ends -> Seq(Message)]
  BY DEF SecrecyInv, EndsType, FramesInv
<1>2. /\ client'.place = "connecting" => sent'["client"] = <<>>
      /\ \A i \in 2..Len(sent'["client"]) : sent'["client"][i] \in Requests
  <2>1. CASE Connect
    <3>1. client'.place = "handshake" /\ client.secret \in Kinds
      BY <1>1, <2>1 DEF Connect, Kinds
    <3>2. sent'["client"] = Append(<<>>, client.secret)
      BY <1>1, <2>1, EndNames DEF Connect, SendMessage, WordsInv
    <3> QED
      BY <3>1, <3>2
  <2>2. CASE SendRequest
    <3> DEFINE kind == Head(client.program)
               words == sent["client"]
    <3>1. kind \in Requests /\ words \in Seq(Kinds) /\ kind \in Kinds
      BY <1>1, <2>2, EndNames DEF SendRequest, Kinds
    <3>2. sent'["client"] = Append(words, kind) /\ client'.place = "awaiting"
      BY <1>1, <2>2, EndNames DEF SendRequest, SendMessage
    <3>3. \A i \in 2..Len(words) : words[i] \in Requests
      BY DEF WordsInv
    <3> HIDE DEF kind, words
    <3> QED
      BY <3>1, <3>2, <3>3
  <2>3. CASE ~Connect /\ ~SendRequest
    <3>1. sent'["client"] = sent["client"]
      BY <1>1, <2>3, EndNames
      DEF Next, vars, streams, ClientStep, ClientKilled, FinishHandshake, ReceiveResponse,
          ClientExits, ClientCutOff, DaemonStep, ShutdownElsewhere, DaemonExits, Transport,
          Write, ReadHeader, ReadChunk, CheckSecret, SendVersion, ReceiveRequest, Answer,
          StreamChunk, EndStream, AnswerShutdown, InitiateShutdown, AnswerBroken, Leave,
          Close, SendMessage
    <3>2. client'.place = "connecting" => client.place = "connecting"
      BY <1>1, <2>3
      DEF Next, vars, ClientStep, ClientKilled, FinishHandshake, ReceiveResponse,
          ClientExits, ClientCutOff, DaemonStep, ShutdownElsewhere, DaemonExits, Transport,
          Write, ReadHeader, ReadChunk, CheckSecret, SendVersion, ReceiveRequest, Answer,
          StreamChunk, EndStream, AnswerShutdown, InitiateShutdown, AnswerBroken, Leave
    <3> QED
      BY <3>1, <3>2 DEF WordsInv
  <2> QED
    BY <2>1, <2>2, <2>3
<1>3. /\ daemon'.place \notin {"secret", "gone"} => taken'["daemon"] # <<>>
      /\ daemon'.place = "handling" => daemon'.request \in Requests
      /\ daemon'.chunks \in 0..MaxChunks
  <2>1. CASE CheckSecret
    <3>1. Len(taken'["daemon"]) = Len(taken["daemon"]) + 1 /\ taken["daemon"] \in Seq(Message)
      BY <1>1, <2>1, TakeMessageType, EndNames DEF CheckSecret, SecrecyInv
    <3>2. taken'["daemon"] # <<>>
      BY <3>1
    <3>3. daemon'.place # "handling" /\ daemon'.chunks = daemon.chunks
      BY <1>1, <2>1 DEF CheckSecret
    <3> QED
      BY <3>2, <3>3 DEF WordsInv
  <2>2. CASE ReceiveRequest
    <3>1. /\ Len(taken'["daemon"]) = Len(taken["daemon"]) + 1
          /\ taken["daemon"] \in Seq(Message) /\ taken["daemon"] # <<>>
      BY <1>1, <2>2, TakeMessageType, EndNames DEF ReceiveRequest, SecrecyInv, WordsInv
    <3>2. taken'["daemon"] # <<>> /\ Len(taken["daemon"]) >= 1
      BY <3>1
    <3>3. ToDaemon # <<>> /\ Received("daemon") = ToDaemon[1]
      BY <2>2, TakesFirst, EndNames DEF ReceiveRequest, ToDaemon
    <3>4. /\ Len(ToDaemon) >= 1 /\ Len(ToDaemon) = Len(sent["client"]) - Len(taken["daemon"])
          /\ ToDaemon[1] = sent["client"][Len(taken["daemon"]) + 1]
      <4>1. ToDaemon \in Seq(Kinds) /\ 1 \in 1..Len(ToDaemon)
        BY <3>3, PendingTypes
      <4>2. \A i \in 1..Len(ToDaemon) :
                ToDaemon[i] = sent["client"][Len(taken["daemon"]) + i]
        BY PendingTypes
      <4>3. ToDaemon[1] = sent["client"][Len(taken["daemon"]) + 1]
        BY <4>1, <4>2
      <4>4. Len(ToDaemon) = Len(sent["client"]) - Len(taken["daemon"])
        BY PendingTypes
      <4> HIDE DEF ToDaemon
      <4> QED
        BY <4>1, <4>3, <4>4
    <3>5. Len(taken["daemon"]) + 1 \in 2..Len(sent["client"])
      BY <1>1, <3>1, <3>2, <3>4, EndNames
    <3>6. Received("daemon") \in Requests
      BY <3>3, <3>4, <3>5 DEF WordsInv
    <3>7. daemon'.request = Received("daemon") /\ daemon'.chunks = 0 /\ MaxChunks \in Nat
      BY <2>2, ConnectionAssumption DEF ReceiveRequest
    <3> QED
      BY <3>2, <3>6, <3>7
  <2>3. CASE ~CheckSecret /\ ~ReceiveRequest
    <3>1. taken'["daemon"] = taken["daemon"]
      BY <1>1, <2>3, EndNames
      DEF Next, vars, streams, ClientStep, ClientKilled, Connect, FinishHandshake,
          SendRequest, ReceiveResponse, ClientExits, ClientCutOff, DaemonStep,
          ShutdownElsewhere, DaemonExits, Transport, Write, ReadHeader, ReadChunk,
          SendVersion, Answer, StreamChunk, EndStream, AnswerShutdown, InitiateShutdown,
          AnswerBroken, Leave, Close, TakeMessage
    <3>2. /\ daemon'.place \notin {"secret", "gone"} => daemon.place \notin {"secret", "gone"}
          /\ daemon'.place = "handling" => /\ daemon.place = "handling"
                                           /\ daemon'.request = daemon.request
          /\ \/ daemon'.chunks = daemon.chunks
             \/ daemon.chunks < MaxChunks /\ daemon'.chunks = daemon.chunks + 1
      BY <1>1, <2>3
      DEF Next, vars, ClientStep, ClientKilled, Connect, FinishHandshake,
          SendRequest, ReceiveResponse, ClientExits, ClientCutOff, DaemonStep,
          ShutdownElsewhere, DaemonExits, Transport, Write, ReadHeader, ReadChunk,
          SendVersion, Answer, StreamChunk, EndStream, AnswerShutdown, InitiateShutdown,
          AnswerBroken, Leave
    <3>3. daemon'.chunks \in 0..MaxChunks
      BY <3>2, ConnectionAssumption DEF WordsInv
    <3> QED
      BY <3>1, <3>2, <3>3 DEF WordsInv
  <2> QED
    BY <2>1, <2>2, <2>3
<1> QED
  BY <1>2, <1>3 DEF WordsInv

\* What has been taken is the last of the history.
LEMMA LastTaken ==
    ASSUME SecrecyInv, FramesInv, TakeMessage("client")
    PROVE  taken'["client"][Len(taken'["client"])] = Received("client")
<1>1. taken["client"] \in Seq(Message) /\ Received("client") \in Message
  BY TakeMessageType, EndNames DEF SecrecyInv, EndsType
<1>2. taken'["client"] = Append(taken["client"], Received("client"))
  BY EndNames DEF TakeMessage, SecrecyInv, EndsType
<1> QED
  BY <1>1, <1>2

LEMMA TurnClient ==
    ASSUME SecrecyInv, FramesInv, Turn, ClientStep, client'.place \in Running
    PROVE  Turn'
<1>1. /\ client \in [place : ClientPlaces, secret : Secrets, program : Seq(Requests)]
      /\ daemon' = daemon
  BY DEF SecrecyInv, EndsType, ClientStep, Connect, FinishHandshake, SendRequest,
         ReceiveResponse, ClientExits, ClientCutOff
<1>2. CASE Connect
  <2>1. /\ Idle /\ daemon.place = "secret" /\ client'.place = "handshake"
        /\ client.secret \in Kinds
    BY <1>1, <1>2 DEF Connect, Turn, Kinds
  <2>2. Asked'
    BY <1>2, <2>1, ClientAsks DEF Connect
  <2> QED
    BY <1>1, <2>1, <2>2 DEF Turn
<1>3. CASE FinishHandshake
  <2>1. /\ TakeMessage("client") /\ UNCHANGED sent /\ client.place = "handshake"
        /\ client'.place = "ready"
    BY <1>1, <1>3 DEF FinishHandshake
  <2>2. Answered("version") /\ Len(ToClient) = 1 /\ daemon.place = "waiting"
    BY <2>1, ClientTakes DEF Turn, Asked, Idle
  <2>3. Idle'
    BY <2>1, <2>2, ClientTakes DEF Kinds
  <2> QED
    BY <1>1, <2>1, <2>2, <2>3 DEF Turn
<1>4. CASE SendRequest
  <2> DEFINE kind == Head(client.program)
  <2>1. kind \in Kinds
    <3>1. client.program \in Seq(Requests) /\ client.program # <<>>
      BY <1>1, <1>4 DEF SendRequest
    <3> QED
      BY <3>1 DEF Kinds
  <2>2. /\ Idle /\ daemon.place \in {"waiting", "answering"}
        /\ SendMessage("client", kind) /\ UNCHANGED taken /\ client'.place = "awaiting"
    BY <1>1, <1>4 DEF SendRequest, Turn
  <2> HIDE DEF kind
  <2>3. Asked'
    BY <2>1, <2>2, ClientAsks
  <2> QED
    BY <1>1, <2>2, <2>3 DEF Turn
<1>5. CASE ReceiveResponse
  <2>1. /\ TakeMessage("client") /\ UNCHANGED sent /\ client.place = "awaiting"
        /\ LastSent' = LastSent
    BY <1>5 DEF ReceiveResponse, LastSent
  <2>2. /\ Received("client") = "chunk" => client'.place = "awaiting"
        /\ Received("client") = "failure" => client'.place = "refused"
        /\ Received("client") \notin {"chunk", "failure"} =>
               \/ client'.place = "ready"
               \/ /\ client'.place = "awaiting" /\ LastSent = "follow"
                  /\ Received("client") # "close"
    BY <1>1, <1>5 DEF ReceiveResponse, Unheeded, LastSent
  <2>3. CASE Handled /\ daemon.place = "handling" /\ daemon.request = LastSent
    <3>1. Received("client") = "chunk" /\ Handled'
      BY <2>1, <2>3, ClientTakes
    <3> QED
      BY <1>1, <2>1, <2>2, <2>3, <3>1 DEF Turn
  <2>4. ASSUME NEW last \in Kinds, Answered(last), EndsFollow(last),
               \/ daemon.place = "waiting"
               \/ daemon.place = "answering" /\ LastSent = "shutdown"
               \/ daemon.place = "refusing" /\ last = "failure"
        PROVE  Turn'
    <3>1. CASE Received("client") = last /\ Idle'
      <4>1. last # "failure" /\ last # "chunk"
        BY <2>2, <2>4, <3>1 DEF Answered, Running
      <4>2. CASE client'.place = "ready"
        BY <1>1, <2>4, <3>1, <4>1, <4>2 DEF Turn
      <4>3. CASE client'.place = "awaiting" /\ LastSent = "follow" /\ last # "close"
        <5>1. last = "success" /\ daemon.place = "waiting"
          BY <2>4, <4>1, <4>3 DEF EndsFollow
        <5>2. taken'["client"][Len(taken'["client"])] = "success"
          BY <2>1, <3>1, <5>1, LastTaken
        <5> QED
          BY <1>1, <2>1, <3>1, <4>3, <5>1, <5>2 DEF Turn
      <4> QED
        BY <2>2, <3>1, <4>1, <4>2, <4>3
    <3>2. CASE Received("client") = "chunk" /\ Answered(last)'
      BY <1>1, <2>1, <2>2, <2>4, <3>2 DEF Turn, EndsFollow
    <3> QED
      BY <2>1, <2>4, <3>1, <3>2, ClientTakes
  <2>5. ~Asked /\ ~Idle
    BY <2>1, ClientTakes DEF Asked, Idle
  <2> QED
    BY <2>1, <2>3, <2>4, <2>5 DEF Turn
<1>6. CASE ClientExits \/ ClientCutOff
  BY <1>1, <1>6 DEF ClientExits, ClientCutOff, Running
<1> QED
  BY <1>2, <1>3, <1>4, <1>5, <1>6 DEF ClientStep

LEMMA TurnDaemon ==
    ASSUME SecrecyInv, FramesInv, Turn, DaemonStep, daemon'.place # "gone"
    PROVE  Turn'
<1>1. /\ daemon \in [place : DaemonPlaces, request : Message \cup {"none"}, chunks : Nat]
      /\ client' = client
  BY DEF SecrecyInv, EndsType, DaemonStep, CheckSecret, SendVersion, ReceiveRequest, Answer,
         StreamChunk, EndStream, AnswerShutdown, InitiateShutdown, AnswerBroken, Leave
<1>2. CASE CheckSecret
  <2>1. /\ TakeMessage("daemon") /\ UNCHANGED sent /\ daemon.place = "secret"
        /\ daemon'.place \in {"accepting", "refusing"}
    BY <1>1, <1>2 DEF CheckSecret
  <2>2. Asked /\ client.place = "handshake"
    BY <2>1, DaemonTakes DEF Turn, Idle
  <2>3. Idle'
    BY <2>1, <2>2, DaemonTakes
  <2> QED
    BY <1>1, <2>1, <2>2, <2>3 DEF Turn
<1>3. CASE SendVersion
  <2>1. /\ SendMessage("daemon", "version") /\ UNCHANGED taken
        /\ daemon.place = "accepting" /\ daemon'.place = "waiting"
    BY <1>1, <1>3 DEF SendVersion
  <2>2. client.place = "handshake" /\ Idle
    BY <2>1 DEF Turn
  <2>3. Handled /\ ToClient = <<>>
    BY <2>2 DEF Idle, Handled
  <2>4. Answered("version")' /\ Len(ToClient)' = 1
    BY <2>1, <2>3, DaemonAnswers DEF Kinds
  <2> QED
    BY <1>1, <2>1, <2>2, <2>4 DEF Turn
<1>4. CASE ReceiveRequest
  <2>1. /\ TakeMessage("daemon") /\ UNCHANGED sent /\ daemon.place = "waiting"
        /\ daemon'.place = "handling"
    BY <1>4 DEF ReceiveRequest
  <2>2. client.place = "awaiting" /\ Asked
    BY <2>1, DaemonTakes DEF Turn, Idle, Answered
  <2>3. Idle' /\ Received("daemon") = LastSent /\ LastSent' = LastSent
    BY <2>1, <2>2, DaemonTakes DEF LastSent
  <2>4. Handled' /\ daemon'.request = LastSent'
    BY <1>4, <2>3 DEF Idle, Handled, ReceiveRequest
  <2> QED
    BY <1>1, <2>1, <2>2, <2>4 DEF Turn
<1>5. daemon.place = "handling" =>
          client.place = "awaiting" /\ Handled /\ daemon.request = LastSent
  BY DEF Turn
<1>6. CASE Answer \/ EndStream \/ AnswerShutdown \/ AnswerBroken
  <2>1. PICK kind \in {"state", "success", "failure", "close"} :
            /\ SendMessage("daemon", kind)
            /\ AnswerBroken => kind = "failure"
            /\ EndStream => kind # "state"
    BY <1>6 DEF Answer, EndStream, AnswerShutdown, AnswerBroken
  <2>2. /\ UNCHANGED taken /\ daemon.place = "handling"
        /\ \/ daemon'.place = "waiting"
           \/ daemon'.place = "answering" /\ daemon.request = "shutdown"
           \/ daemon'.place = "refusing" /\ kind = "failure"
    BY <1>1, <1>6, <2>1 DEF Answer, EndStream, AnswerShutdown, AnswerBroken
  <2>3. kind \in Kinds /\ kind # "chunk"
    BY DEF Kinds, Answers
  <2>4. Answered(kind)' /\ LastSent' = LastSent
    BY <1>5, <2>1, <2>2, <2>3, DaemonAnswers DEF LastSent
  <2>5. daemon.request = "follow" => kind \in {"close", "failure", "success"}
    BY <1>6, <2>1 DEF Answer, EndStream, AnswerShutdown, AnswerBroken
  <2> QED
    BY <1>1, <1>5, <2>2, <2>3, <2>4, <2>5 DEF Turn, EndsFollow
<1>7. CASE StreamChunk
  <2>1. /\ SendMessage("daemon", "chunk") /\ UNCHANGED taken
        /\ daemon.place = "handling" /\ daemon'.place = "handling"
    BY <1>1, <1>7 DEF StreamChunk
  <2>2. /\ Handled' /\ LastSent' = LastSent
        /\ daemon'.request = daemon.request
    BY <1>1, <1>5, <1>7, <2>1, DaemonAnswers DEF Kinds, Answers, LastSent, StreamChunk
  <2> QED
    BY <1>1, <1>5, <2>1, <2>2 DEF Turn
<1>8. CASE InitiateShutdown
  <2>1. /\ UNCHANGED streams /\ daemon.place = "answering" /\ daemon'.place = "waiting"
    BY <1>1, <1>8 DEF InitiateShutdown
  <2>2. ToDaemon' = ToDaemon /\ ToClient' = ToClient /\ LastSent' = LastSent
    BY <2>1 DEF streams, ToDaemon, ToClient, Pending, LastSent
  <2> QED
    BY <1>1, <2>1, <2>2 DEF Turn, Idle, Asked, Answered, EndsFollow
<1>9. CASE Leave
  BY <1>1, <1>9 DEF Leave
<1> QED
  BY <1>2, <1>3, <1>4, <1>6, <1>7, <1>8, <1>9 DEF DaemonStep

LEMMA TurnNext == SecrecyInv /\ FramesInv /\ TurnInv /\ [Next]_vars => TurnInv'
<1> SUFFICES ASSUME SecrecyInv, FramesInv, TurnInv, [Next]_vars
             PROVE  TurnInv'
  OBVIOUS
<1>1. /\ client \in [place : ClientPlaces, secret : Secrets, program : Seq(Requests)]
      /\ daemon \in [place : DaemonPlaces, request : Message \cup {"none"}, chunks : Nat]
      /\ open \in [Ends -> BOOLEAN]
  BY DEF SecrecyInv, EndsType, FramesInv
<1>2. CASE ClientStep \/ ClientKilled
  <2>1. daemon' = daemon /\ open'["daemon"] = open["daemon"]
    BY <1>1, <1>2, EndNames DEF ClientStep, ClientKilled, Connect, FinishHandshake,
         SendRequest, ReceiveResponse, ClientExits, ClientCutOff, Close
  <2>2. client'.place \in Running => ClientStep /\ client.place \in Running
    BY <1>1, <1>2 DEF ClientStep, ClientKilled, Connect, FinishHandshake,
         SendRequest, ReceiveResponse, ClientExits, ClientCutOff, Running
  <2>3. client'.place \notin Running \cup {"refused"} => ~open'["client"]
    BY <1>1, <1>2, EndNames DEF ClientStep, ClientKilled, Connect, FinishHandshake,
         SendRequest, ReceiveResponse, ClientExits, ClientCutOff, Close, Running
  <2>4. client'.place \in Running /\ daemon'.place # "gone" => Turn'
    BY <2>1, <2>2, TurnClient DEF TurnInv
  <2> QED
    BY <2>1, <2>3, <2>4 DEF TurnInv
<1>3. CASE DaemonStep \/ DaemonExits
  <2>1. client' = client /\ open'["client"] = open["client"]
    BY <1>1, <1>3, EndNames DEF DaemonStep, DaemonExits, CheckSecret, SendVersion,
         ReceiveRequest, Answer, StreamChunk, EndStream, AnswerShutdown, InitiateShutdown,
         AnswerBroken, Leave, streams, Close
  <2>2. daemon'.place # "gone" => DaemonStep /\ daemon.place # "gone"
    BY <1>1, <1>3 DEF DaemonStep, DaemonExits, CheckSecret, SendVersion,
         ReceiveRequest, Answer, StreamChunk, EndStream, AnswerShutdown, InitiateShutdown,
         AnswerBroken, Leave
  <2>3. daemon'.place = "gone" => ~open'["daemon"]
    <3>1. CASE Leave \/ DaemonExits
      BY <1>1, <3>1, EndNames DEF Leave, DaemonExits, Close
    <3>2. CASE CheckSecret \/ ReceiveRequest
      <4>1. daemon'.place \in {"accepting", "refusing", "handling"}
        BY <1>1, <3>2 DEF CheckSecret, ReceiveRequest
      <4> QED
        BY <4>1
    <3>3. CASE SendVersion \/ Answer \/ StreamChunk \/ EndStream
      BY <1>1, <3>3 DEF SendVersion, Answer, StreamChunk, EndStream
    <3>4. CASE AnswerShutdown \/ InitiateShutdown \/ AnswerBroken
      BY <1>1, <3>4 DEF AnswerShutdown, InitiateShutdown, AnswerBroken
    <3> QED
      BY <1>3, <3>1, <3>2, <3>3, <3>4 DEF DaemonStep
  <2>4. client'.place \in Running /\ daemon'.place # "gone" => Turn'
    BY <2>1, <2>2, TurnDaemon DEF TurnInv
  <2> QED
    BY <2>1, <2>3, <2>4 DEF TurnInv
<1>4. CASE ShutdownElsewhere \/ (\E e \in Ends : Transport(e)) \/ UNCHANGED vars
  <2>1. UNCHANGED <<client, daemon, sent, taken, open>>
    BY <1>4 DEF ShutdownElsewhere, Transport, Write, ReadHeader, ReadChunk, vars, streams
  <2>2. ToDaemon' = ToDaemon /\ ToClient' = ToClient /\ LastSent' = LastSent
    BY <2>1 DEF ToDaemon, ToClient, Pending, LastSent
  <2>3. Turn => Turn'
    BY <2>1, <2>2 DEF Turn, Idle, Asked, Handled, Answered, EndsFollow
  <2> QED
    BY <2>1, <2>3 DEF TurnInv
<1> QED
  BY <1>2, <1>3, <1>4 DEF Next

\* Who waits for a message has something to read, unless none is on its way.
LEMMA NothingToRead ==
    ASSUME SecrecyInv, FramesInv, NEW e \in Ends, Reads(e), open[Other(e)],
           ~HasWork(e), ~HasWork(Other(e))
    PROVE  Pending(e) = <<>>
<1>1. /\ Other(e) \in Ends /\ open[e] /\ unsent[Other(e)] = <<>>
  BY OtherEnds DEF HasWork, Reads
<1>2. wire[Other(e)] = <<>> /\ ~Complete(e) /\ ~(incoming[e].header /\ TooBig(e))
  BY <1>1 DEF HasWork, Available
<1>3. CarriesAll(Stream(e), Pending(e))
  BY DEF FramesInv, Lane
<1>4. SUFFICES ASSUME Pending(e) # <<>> PROVE FALSE
  OBVIOUS
<1>5. incoming[e].header /\ Len(incoming[e].got) >= incoming[e].size
  BY <1>1, <1>2, <1>3, <1>4, ReadToTheEnd
<1> QED
  BY <1>2, <1>5 DEF Complete

LEMMA TurnMoves ==
    ASSUME SecrecyInv, FramesInv, WordsInv, TurnInv
    PROVE  SomebodyMoves
<1> SUFFICES ASSUME ~Over, ~HasWork("client"), ~HasWork("daemon"), ~HungFollow
             PROVE  FALSE
  BY DEF SomebodyMoves
<1>1. client.place \in ClientPlaces /\ daemon.place \in DaemonPlaces
  BY DEF SecrecyInv, EndsType
<1>2. CASE client.place \notin Running /\ daemon.place # "gone"
  <2>1. open["daemon"]
    BY <1>2 DEF FramesInv, OpenEnds
  <2>2. ~open["client"]
    BY <1>2 DEF HasWork, TurnInv
  <2> QED
    BY <1>1, <1>2, <2>1, <2>2, EndNames DEF HasWork, Reads, DaemonPlaces, WordsInv
<1>3. CASE client.place \in Running /\ daemon.place = "gone"
  <2>1. open["client"] /\ ~open["daemon"]
    BY <1>3 DEF FramesInv, OpenEnds, TurnInv
  <2> QED
    BY <1>1, <1>3, <2>1, EndNames DEF HasWork, Reads, Running
<1>4. CASE client.place \in Running /\ daemon.place # "gone"
  <2>1. open["client"] /\ open["daemon"] /\ Turn
    BY <1>4 DEF FramesInv, OpenEnds, TurnInv
  <2>2. /\ client.place \in {"handshake", "awaiting"} /\ daemon.place \in {"secret", "waiting"}
        /\ Reads("client") /\ Reads("daemon")
    BY <1>1, <1>4, <2>1 DEF HasWork, Reads, Running, DaemonPlaces, WordsInv
  <2>3. ToClient = <<>> /\ ToDaemon = <<>>
    BY <2>1, <2>2, NothingToRead, EndNames DEF ToClient, ToDaemon
  <2>4. ~(LastSent = "follow" /\ taken["client"][Len(taken["client"])] = "success"
             /\ client.place = "awaiting" /\ daemon.place = "waiting")
    <3>1. \A e \in Ends : Pending(e) = <<>>
      BY <2>3 DEF Ends, ToClient, ToDaemon
    <3>2. \A e \in Ends : Len(taken[e]) = Len(sent[Other(e)])
      <4> SUFFICES ASSUME NEW e \in Ends PROVE Len(taken[e]) = Len(sent[Other(e)])
        OBVIOUS
      <4>1. 0 = Len(sent[Other(e)]) - Len(taken[e])
        BY <3>1, PendingType
      <4>2. Len(sent[Other(e)]) \in Nat /\ Len(taken[e]) \in Nat
        BY OtherEnds DEF SecrecyInv, EndsType, FramesInv
      <4> QED
        BY <4>1, <4>2
    <3> QED
      BY <3>2 DEF HungFollow, LastSent
  <2> QED
    BY <2>1, <2>2, <2>3, <2>4 DEF Turn, Asked, Answered
<1> QED
  BY <1>2, <1>3, <1>4 DEF Over

LEMMA TurnInit == Init => WordsInv /\ TurnInv
<1> SUFFICES ASSUME Init PROVE WordsInv /\ TurnInv
  OBVIOUS
<1>1. /\ client.place = "connecting" /\ daemon.place = "secret" /\ daemon.chunks = 0
      /\ sent["client"] = <<>> /\ sent["daemon"] = <<>>
      /\ taken["client"] = <<>> /\ taken["daemon"] = <<>>
  BY EndNames DEF Init
<1>2. Idle
  BY <1>1, EndNames DEF Idle, ToDaemon, ToClient, Pending
<1>3. Turn
  BY <1>1, <1>2 DEF Turn
<1>4. MaxChunks \in Nat
  BY ConnectionAssumption
<1> QED
  BY <1>1, <1>3, <1>4 DEF WordsInv, TurnInv, Running

\* Client and daemon wait for each other only over a follow whose log file was gone, which
\* the daemon has answered with a success: until both have ended, one of the two has a
\* step of its own to take in every other state.  In particular every request that reaches
\* the daemon has a handler that answers it or closes the connection, and no message that
\* an end waits for is left in the stream.
THEOREM NobodyWaitsForever == Spec => []SomebodyMoves
<1>1. Init /\ [][Next]_vars => [](SecrecyInv /\ FramesInv /\ WordsInv /\ TurnInv)
  BY SecrecyInit, SecrecyNext, FramesInit, FramesNext, TurnInit, WordsNext, TurnNext, PTL
<1>2. SecrecyInv /\ FramesInv /\ WordsInv /\ TurnInv => SomebodyMoves
  BY TurnMoves
<1> QED
  BY <1>1, <1>2, PTL DEF Spec

-----------------------------------------------------------------------------
(* Nobody goes on for ever.                                                *)

\* The steps that one message takes at most, from the buffer of its sender to its reader.
FrameCost == 3 * (LargeSize + SecretLimit + 1)

\* What the daemon does with one request at most, the messages of the answer included.
HandlingCost == MaxChunks * (FrameCost + 1) + FrameCost + 3

\* What a request costs that has not been sent.
RequestCost == HandlingCost + FrameCost + 1

HeaderCost(e) == IF incoming[e].header THEN 1 ELSE 0
OpenCost(e) == IF open[e] THEN 1 ELSE 0
ShutdownCost == IF shutdown = "no" THEN 1 ELSE 0

UnitCost(e) ==
    3 * Len(unsent[e]) + 2 * Len(wire[e]) + HeaderCost(e) + OpenCost(e)

PlaceCost(place) ==
    CASE place = "connecting" -> RequestCost + 1
      [] place \in {"handshake", "ready", "awaiting"} -> 1
      [] OTHER -> 0

ClientCost == Len(client.program) * RequestCost + PlaceCost(client.place)

DaemonCost ==
    CASE daemon.place = "secret"    -> FrameCost + 3
      [] daemon.place = "accepting" -> FrameCost + 2
      [] daemon.place = "handling"  ->
             (MaxChunks - daemon.chunks) * (FrameCost + 1) + FrameCost + 3
      [] daemon.place = "answering" -> 2
      [] daemon.place \in {"waiting", "refusing"} -> 1
      [] OTHER -> 0

PendingCost == Len(ToDaemon) * HandlingCost

\* A bound on the steps that are left to the connection.
StepsLeft ==
    UnitCost("client") + UnitCost("daemon") + ClientCost + DaemonCost + PendingCost
        + ShutdownCost

BoundIsNatural == StepsLeft \in Nat
EveryStepIsPaid == [][StepsLeft' < StepsLeft]_vars

LEMMA Products ==
    ASSUME NEW n \in Nat, NEW w \in Nat
    PROVE  /\ n * w \in Nat /\ (n + 1) * w = n * w + w
           /\ n > 0 => (n - 1) * w = n * w - w
OBVIOUS

LEMMA CostTypes ==
    /\ FrameCost \in Nat /\ HandlingCost \in Nat /\ RequestCost \in Nat
    /\ RequestCost = HandlingCost + FrameCost + 1
    /\ HandlingCost = MaxChunks * (FrameCost + 1) + FrameCost + 3
    /\ MaxChunks \in Nat
<1>1. FrameCost \in Nat /\ MaxChunks \in Nat
  BY ConnectionAssumption DEF FrameCost
<1>2. MaxChunks * (FrameCost + 1) \in Nat
  BY <1>1, Products
<1> QED
  BY <1>1, <1>2 DEF HandlingCost, RequestCost

LEMMA FrameCosts == \A kind \in Kinds : 3 * Len(Frame(kind)) <= FrameCost
<1> SUFFICES ASSUME NEW kind \in Kinds PROVE 3 * Len(Frame(kind)) <= FrameCost
  OBVIOUS
<1>1. SizeOf(kind) \in Nat /\ SizeOf(kind) <= LargeSize + SecretLimit
  BY ConnectionAssumption DEF SizeOf
<1>2. Len(Frame(kind)) = SizeOf(kind) + 1
  <2> DEFINE size == SizeOf(kind)
  <2>1. Payload(kind) = [k \in 1..size |-> [kind |-> kind, part |-> k]]
    BY DEF Payload
  <2>2. size \in Nat
    BY <1>1
  <2> HIDE DEF size
  <2>3. Payload(kind) \in Seq(Unit) /\ Len(Payload(kind)) = size
    BY <2>1, <2>2 DEF Unit
  <2>4. Header(kind) \in Unit
    BY DEF Header, Unit
  <2>5. Len(<<Header(kind)>> \o Payload(kind)) = 1 + Len(Payload(kind))
    BY <2>3, <2>4
  <2> QED
    BY <2>2, <2>3, <2>5 DEF Frame, size
<1> QED
  BY <1>1, <1>2, ConnectionAssumption DEF FrameCost

LEMMA UnitCostType ==
    ASSUME SecrecyInv, FramesInv, NEW e \in Ends
    PROVE  /\ UnitCost(e) \in Nat
           /\ Len(unsent[e]) \in Nat /\ Len(wire[e]) \in Nat
           /\ HeaderCost(e) \in 0..1 /\ OpenCost(e) \in 0..1
<1> DEFINE a == Len(unsent[e])
           b == Len(wire[e])
<1>1. a \in Nat /\ b \in Nat
  BY DEF SecrecyInv, UnitsType
<1>2. HeaderCost(e) \in 0..1 /\ OpenCost(e) \in 0..1
  BY DEF HeaderCost, OpenCost
<1>3. UnitCost(e) = 3 * a + 2 * b + HeaderCost(e) + OpenCost(e)
  BY DEF UnitCost
<1> HIDE DEF a, b
<1>4. UnitCost(e) \in Nat
  BY <1>1, <1>2, <1>3
<1> QED
  BY <1>1, <1>2, <1>4 DEF a, b

LEMMA SendCosts ==
    ASSUME SecrecyInv, FramesInv, NEW e \in Ends, NEW kind \in Kinds,
           SendMessage(e, kind), UNCHANGED <<wire, incoming, open>>
    PROVE  /\ UnitCost(e)' <= UnitCost(e) + FrameCost
           /\ UnitCost(Other(e))' = UnitCost(Other(e))
           /\ UnitCost(e)' \in Nat
<1> DEFINE b == Len(wire[e])
           f == Len(Frame(kind))
<1>1. /\ Len(unsent[e]) = 0 /\ unsent'[e] = Frame(kind)
      /\ unsent'[Other(e)] = unsent[Other(e)]
  BY OtherEnds DEF SendMessage, SecrecyInv, UnitsType
<1>2. 3 * f <= FrameCost /\ f \in Nat /\ FrameCost \in Nat
  BY FrameCosts, FrameType, CostTypes
<1>3. UnitCost(Other(e))' = UnitCost(Other(e))
  BY <1>1 DEF UnitCost, HeaderCost, OpenCost
<1>4. UnitCost(e) = 3 * 0 + 2 * b + HeaderCost(e) + OpenCost(e)
  BY <1>1 DEF UnitCost
<1>5. UnitCost(e)' = 3 * f + 2 * b + HeaderCost(e) + OpenCost(e)
  BY <1>1 DEF UnitCost, HeaderCost, OpenCost
<1>6. b \in Nat /\ HeaderCost(e) \in 0..1 /\ OpenCost(e) \in 0..1
  BY UnitCostType
<1> HIDE DEF b, f
<1>7. UnitCost(e)' <= UnitCost(e) + FrameCost /\ UnitCost(e)' \in Nat
  BY <1>2, <1>4, <1>5, <1>6
<1> QED
  BY <1>3, <1>7

LEMMA TakeCosts ==
    ASSUME SecrecyInv, FramesInv, NEW e \in Ends,
           TakeMessage(e), UNCHANGED <<unsent, wire, open>>
    PROVE  /\ UnitCost(e)' = UnitCost(e) - 1 /\ UnitCost(e)' \in Nat
           /\ UnitCost(Other(e))' = UnitCost(Other(e))
<1> DEFINE a == Len(unsent[e])
           b == Len(wire[e])
<1>1. /\ incoming[e].header /\ incoming'[e] = Nothing
      /\ incoming'[Other(e)] = incoming[Other(e)]
  BY OtherEnds DEF TakeMessage, Complete, SecrecyInv, UnitsType
<1>2. HeaderCost(e) = 1 /\ HeaderCost(e)' = 0 /\ OpenCost(e)' = OpenCost(e)
  BY <1>1 DEF HeaderCost, OpenCost, Nothing
<1>3. UnitCost(Other(e))' = UnitCost(Other(e))
  BY <1>1 DEF UnitCost, HeaderCost, OpenCost
<1>4. UnitCost(e) = 3 * a + 2 * b + 1 + OpenCost(e)
  BY <1>2 DEF UnitCost
<1>5. UnitCost(e)' = 3 * a + 2 * b + 0 + OpenCost(e)
  BY <1>2 DEF UnitCost
<1>6. a \in Nat /\ b \in Nat /\ OpenCost(e) \in 0..1
  BY UnitCostType
<1> HIDE DEF a, b
<1>7. UnitCost(e)' = UnitCost(e) - 1 /\ UnitCost(e)' \in Nat
  BY <1>4, <1>5, <1>6
<1> QED
  BY <1>3, <1>7

LEMMA CloseCosts ==
    ASSUME SecrecyInv, FramesInv, NEW e \in Ends, open[e], Close(e)
    PROVE  /\ UnitCost(e)' < UnitCost(e) /\ UnitCost(e)' \in Nat
           /\ UnitCost(Other(e))' = UnitCost(Other(e))
<1> DEFINE a == Len(unsent[e])
           b == Len(wire[e])
<1>1. /\ ~open'[e] /\ unsent'[e] = <<>>
      /\ open'[Other(e)] = open[Other(e)] /\ unsent'[Other(e)] = unsent[Other(e)]
      /\ UNCHANGED <<wire, incoming>>
  BY OtherEnds DEF Close, SecrecyInv, UnitsType, FramesInv
<1>2. /\ OpenCost(e) = 1 /\ OpenCost(e)' = 0 /\ HeaderCost(e)' = HeaderCost(e)
      /\ Len(unsent'[e]) = 0
  BY <1>1 DEF HeaderCost, OpenCost
<1>3. UnitCost(Other(e))' = UnitCost(Other(e))
  BY <1>1 DEF UnitCost, HeaderCost, OpenCost
<1>4. UnitCost(e) = 3 * a + 2 * b + HeaderCost(e) + 1
  BY <1>2 DEF UnitCost
<1>5. UnitCost(e)' = 3 * 0 + 2 * b + HeaderCost(e) + 0
  BY <1>1, <1>2 DEF UnitCost
<1>6. a \in Nat /\ b \in Nat /\ HeaderCost(e) \in 0..1
  BY UnitCostType
<1> HIDE DEF a, b
<1>7. UnitCost(e)' < UnitCost(e) /\ UnitCost(e)' \in Nat
  BY <1>4, <1>5, <1>6
<1> QED
  BY <1>3, <1>7

LEMMA TransportCosts ==
    ASSUME SecrecyInv, FramesInv, NEW e \in Ends, Transport(e)
    PROVE  /\ UnitCost("client")' \in Nat /\ UnitCost("daemon")' \in Nat
           /\ UnitCost("client")' + UnitCost("daemon")'
                  < UnitCost("client") + UnitCost("daemon")
<1> DEFINE d == Other(e)
           a == Len(unsent[e])
           b == Len(wire[e])
           c == Len(wire[d])
           r == Len(unsent[d])
<1>1. /\ d \in Ends /\ d # e
      /\ unsent[e] \in Seq(Unit) /\ unsent[d] \in Seq(Unit)
      /\ wire[e] \in Seq(Unit) /\ wire[d] \in Seq(Unit)
      /\ unsent \in [Ends -> Seq(Unit)] /\ wire \in [Ends -> Seq(Unit)]
      /\ incoming \in [Ends -> Parcel]
  BY OtherEnds DEF SecrecyInv, UnitsType
<1>2. /\ a \in Nat /\ b \in Nat /\ c \in Nat /\ r \in Nat
      /\ HeaderCost(e) \in 0..1 /\ OpenCost(e) \in 0..1
      /\ HeaderCost(d) \in 0..1 /\ OpenCost(d) \in 0..1
  BY <1>1, UnitCostType
<1>3. /\ UnitCost(e) = 3 * a + 2 * b + HeaderCost(e) + OpenCost(e)
      /\ UnitCost(d) = 3 * r + 2 * c + HeaderCost(d) + OpenCost(d)
  BY DEF UnitCost
<1>4. open' = open /\ OpenCost(e)' = OpenCost(e) /\ OpenCost(d)' = OpenCost(d)
  BY DEF Transport, Write, ReadHeader, ReadChunk, OpenCost
<1>5. /\ UnitCost(e)' \in Nat /\ UnitCost(d)' \in Nat
      /\ UnitCost(e)' + UnitCost(d)' < UnitCost(e) + UnitCost(d)
  <2>1. CASE Write(e)
    <3>1. PICK n \in 1..a :
              /\ wire' = [wire EXCEPT ![e] = @ \o SubSeq(unsent[e], 1, n)]
              /\ unsent' = [unsent EXCEPT ![e] = SubSeq(@, n + 1, Len(@))]
              /\ incoming' = incoming
      BY <2>1 DEF Write
    <3>2. /\ SubSeq(unsent[e], 1, n) \in Seq(Unit) /\ Len(SubSeq(unsent[e], 1, n)) = n
          /\ SubSeq(unsent[e], n + 1, Len(unsent[e])) \in Seq(Unit)
          /\ Len(SubSeq(unsent[e], n + 1, Len(unsent[e]))) = a - n
      BY <1>1
    <3>3. Len(wire'[e]) = b + n /\ Len(unsent'[e]) = a - n
      BY <1>1, <3>1, <3>2
    <3>4. /\ wire'[d] = wire[d] /\ unsent'[d] = unsent[d]
          /\ HeaderCost(e)' = HeaderCost(e) /\ HeaderCost(d)' = HeaderCost(d)
      BY <1>1, <3>1 DEF HeaderCost
    <3>5. /\ UnitCost(e)' = 3 * (a - n) + 2 * (b + n) + HeaderCost(e) + OpenCost(e)
          /\ UnitCost(d)' = UnitCost(d)
      BY <1>4, <3>3, <3>4 DEF UnitCost
    <3>6. n \in Nat /\ n >= 1 /\ n <= a
      BY <1>2, <3>1
    <3> HIDE DEF a, b, c, r, d
    <3> QED
      BY <1>2, <1>3, <3>5, <3>6
  <2>2. CASE ReadHeader(e)
    <3>1. /\ wire[d] # <<>> /\ wire' = [wire EXCEPT ![d] = Tail(@)] /\ unsent' = unsent
          /\ ~incoming[e].header /\ incoming'[e].header /\ incoming'[d] = incoming[d]
      BY <1>1, <2>2 DEF ReadHeader, Available
    <3>2. Len(wire'[d]) = c - 1 /\ c >= 1 /\ wire'[e] = wire[e]
      BY <1>1, <3>1
    <3>3. HeaderCost(e) = 0 /\ HeaderCost(e)' = 1 /\ HeaderCost(d)' = HeaderCost(d)
      BY <3>1 DEF HeaderCost
    <3>4. /\ UnitCost(e)' = 3 * a + 2 * b + 1 + OpenCost(e)
          /\ UnitCost(d)' = 3 * r + 2 * (c - 1) + HeaderCost(d) + OpenCost(d)
      BY <1>4, <3>1, <3>2, <3>3 DEF UnitCost
    <3>5. c >= 1 /\ HeaderCost(e) = 0
      BY <3>2, <3>3
    <3> HIDE DEF a, b, c, r, d
    <3>6. UnitCost(e)' = UnitCost(e) + 1 /\ UnitCost(e)' \in Nat
      BY <1>2, <1>3, <3>4, <3>5
    <3>7. UnitCost(d)' = UnitCost(d) - 2 /\ UnitCost(d)' \in Nat
      BY <1>2, <1>3, <3>4, <3>5
    <3>8. UnitCost(e) \in Nat /\ UnitCost(d) \in Nat
      BY <1>2, <1>3
    <3> QED
      BY <3>6, <3>7, <3>8
  <2>3. CASE ReadChunk(e)
    <3>1. PICK n \in 1..SmallerOf(ChunkBuffer(incoming[e].size - Len(incoming[e].got)), c) :
              /\ incoming' = [incoming EXCEPT ![e].got = @ \o SubSeq(wire[d], 1, n)]
              /\ wire' = [wire EXCEPT ![d] = SubSeq(@, n + 1, Len(@))]
              /\ unsent' = unsent
      BY <2>3 DEF ReadChunk, Available
    <3>2. n \in Nat /\ n >= 1 /\ n <= c
      <4>1. /\ incoming[e].size \in Nat /\ Len(incoming[e].got) \in Nat
            /\ PacketSize \in Nat
        BY <1>1, ConnectionAssumption DEF Parcel
      <4> DEFINE remaining == incoming[e].size - Len(incoming[e].got)
      <4>2. remaining \in Int
        BY <4>1
      <4> HIDE DEF remaining, c
      <4>3. ChunkBuffer(remaining) \in Int
        BY <4>1, <4>2 DEF ChunkBuffer
      <4>4. n \in 1..SmallerOf(ChunkBuffer(remaining), c)
        BY <3>1 DEF remaining
      <4> QED
        BY <1>2, <4>3, <4>4 DEF SmallerOf
    <3>3. Len(SubSeq(wire[d], n + 1, Len(wire[d]))) = c - n
      BY <1>1, <3>2
    <3>4. Len(wire'[d]) = c - n /\ wire'[e] = wire[e]
      BY <1>1, <3>1, <3>3
    <3>5. HeaderCost(e)' = HeaderCost(e) /\ HeaderCost(d)' = HeaderCost(d)
      BY <1>1, <3>1 DEF HeaderCost, Parcel
    <3>6. /\ UnitCost(e)' = UnitCost(e)
          /\ UnitCost(d)' = 3 * r + 2 * (c - n) + HeaderCost(d) + OpenCost(d)
      BY <1>4, <3>1, <3>4, <3>5 DEF UnitCost
    <3> HIDE DEF a, b, c, r, d
    <3>7. UnitCost(d)' = UnitCost(d) - 2 * n /\ UnitCost(d)' \in Nat
      BY <1>2, <1>3, <3>2, <3>6
    <3>8. UnitCost(e) \in Nat /\ UnitCost(d) \in Nat
      BY <1>2, <1>3
    <3> QED
      BY <3>2, <3>6, <3>7, <3>8
  <2> QED
    BY <2>1, <2>2, <2>3 DEF Transport
<1>6. UnitCost(e) \in Nat /\ UnitCost(d) \in Nat
  BY <1>1, UnitCostType
<1>7. CASE e = "client"
  BY <1>5, <1>6, <1>7, EndNames
<1>8. CASE e = "daemon"
  <2>1. d = "client"
    BY <1>8, EndNames
  <2> HIDE DEF d
  <2> QED
    BY <1>5, <1>6, <1>8, <2>1
<1> QED
  BY <1>7, <1>8 DEF Ends

\* The messages that the daemon has not taken.
LEMMA PendingCosts ==
    ASSUME SecrecyInv, FramesInv
    PROVE  /\ PendingCost \in Nat
           /\ \A kind \in Kinds : SendMessage("client", kind) /\ UNCHANGED taken
                  => PendingCost' = PendingCost + HandlingCost
           /\ TakeMessage("daemon") /\ UNCHANGED sent
                  => PendingCost' = PendingCost - HandlingCost /\ PendingCost' \in Nat
           /\ sent'["client"] = sent["client"] /\ taken'["daemon"] = taken["daemon"]
                  => PendingCost' = PendingCost
<1> DEFINE n == Len(ToDaemon)
<1>1. ToDaemon \in Seq(Kinds) /\ n \in Nat
  BY PendingTypes
<1>2. HandlingCost \in Nat
  BY CostTypes
<1>3. PendingCost = n * HandlingCost
  BY DEF PendingCost
<1>4. ASSUME NEW kind \in Kinds, SendMessage("client", kind), UNCHANGED taken
      PROVE  PendingCost' = PendingCost + HandlingCost
  <2>1. ToDaemon' = Append(ToDaemon, kind)
    BY <1>4, SendPending, EndNames DEF ToDaemon
  <2>2. PendingCost' = (n + 1) * HandlingCost
    <3>1. Len(ToDaemon)' = n + 1
      BY <1>1, <2>1
    <3> QED
      BY <3>1 DEF PendingCost, HandlingCost, FrameCost
  <2> HIDE DEF n
  <2> QED
    BY <1>1, <1>2, <1>3, <2>2, Products
<1>5. ASSUME TakeMessage("daemon"), UNCHANGED sent
      PROVE  PendingCost' = PendingCost - HandlingCost /\ PendingCost' \in Nat
  <2>1. ToDaemon # <<>> /\ ToDaemon' = Tail(ToDaemon)
    BY <1>5, TakesFirst, EndNames DEF ToDaemon
  <2>2. PendingCost' = (n - 1) * HandlingCost /\ n > 0
    <3>1. Len(ToDaemon)' = n - 1 /\ n > 0
      BY <1>1, <2>1
    <3> QED
      BY <3>1 DEF PendingCost, HandlingCost, FrameCost
  <2> HIDE DEF n
  <2>3. n - 1 \in Nat
    BY <1>1, <2>2
  <2>4. (n - 1) * HandlingCost \in Nat
    BY <1>2, <2>3, Products
  <2> QED
    BY <1>1, <1>2, <1>3, <2>2, <2>4, Products
<1>6. ASSUME sent'["client"] = sent["client"], taken'["daemon"] = taken["daemon"]
      PROVE  PendingCost' = PendingCost
  BY <1>6, EndNames DEF PendingCost, ToDaemon, Pending, HandlingCost, FrameCost
<1>7. PendingCost \in Nat
  <2> HIDE DEF n
  <2> QED
    BY <1>1, <1>2, <1>3, Products
<1> QED
  BY <1>4, <1>5, <1>6, <1>7

LEMMA CostParts ==
    ASSUME SecrecyInv, FramesInv, WordsInv
    PROVE  /\ UnitCost("client") \in Nat /\ UnitCost("daemon") \in Nat
           /\ ClientCost \in Nat /\ DaemonCost \in Nat /\ PendingCost \in Nat
           /\ ShutdownCost \in 0..1 /\ ShutdownCost' \in 0..1
<1>1. UnitCost("client") \in Nat /\ UnitCost("daemon") \in Nat /\ PendingCost \in Nat
  BY UnitCostType, PendingCosts, EndNames
<1>2. ShutdownCost \in 0..1 /\ ShutdownCost' \in 0..1
  BY DEF ShutdownCost
<1>3. ClientCost \in Nat
  <2> DEFINE n == Len(client.program)
  <2>1. n \in Nat
    BY DEF SecrecyInv, EndsType
  <2>2. PlaceCost(client.place) \in Nat
    BY CostTypes DEF PlaceCost
  <2>3. ClientCost = n * RequestCost + PlaceCost(client.place)
    BY DEF ClientCost
  <2> HIDE DEF n
  <2> QED
    BY <2>1, <2>2, <2>3, CostTypes, Products
<1>4. DaemonCost \in Nat
  <2>1. MaxChunks - daemon.chunks \in Nat /\ FrameCost + 1 \in Nat
    BY CostTypes DEF WordsInv
  <2>2. (MaxChunks - daemon.chunks) * (FrameCost + 1) \in Nat
    BY <2>1, Products
  <2> QED
    BY <2>2, CostTypes DEF DaemonCost
<1> QED
  BY <1>1, <1>2, <1>3, <1>4

LEMMA ClientCostIs ==
    ASSUME SecrecyInv
    PROVE  /\ ClientCost = Len(client.program) * RequestCost + PlaceCost(client.place)
           /\ ClientCost' = Len(client'.program) * RequestCost + PlaceCost(client'.place)
           /\ Len(client.program) * RequestCost \in Nat /\ RequestCost \in Nat
           /\ PlaceCost(client.place) \in Nat /\ PlaceCost(client'.place) \in Nat
           /\ client' = client => ClientCost' = ClientCost
<1> DEFINE n == Len(client.program)
<1>1. n \in Nat
  BY DEF SecrecyInv, EndsType
<1>2. RequestCost \in Nat
  BY CostTypes
<1>3. ClientCost = n * RequestCost + PlaceCost(client.place)
  BY DEF ClientCost
<1>4. ClientCost' = Len(client'.program) * RequestCost + PlaceCost(client'.place)
  BY DEF ClientCost, PlaceCost, RequestCost, HandlingCost, FrameCost
<1>5. n * RequestCost \in Nat
  <2> HIDE DEF n
  <2> QED
    BY <1>1, <1>2, Products
<1>6. PlaceCost(client.place) \in Nat /\ PlaceCost(client'.place) \in Nat
  BY <1>2 DEF PlaceCost
<1>7. client' = client => ClientCost' = ClientCost
  BY <1>3, <1>4
<1> QED
  BY <1>2, <1>3, <1>4, <1>5, <1>6, <1>7

\* Connecting and every request are paid for.
LEMMA ClientPays ==
    ASSUME SecrecyInv, Connect \/ SendRequest
    PROVE  ClientCost' = ClientCost - RequestCost
<1> DEFINE n == Len(client.program)
           place == client.place
           after == client'.place
<1>1. /\ client \in [place : ClientPlaces, secret : Secrets, program : Seq(Requests)]
      /\ n \in Nat
  BY DEF SecrecyInv, EndsType
<1>2. /\ ClientCost = n * RequestCost + PlaceCost(place) /\ RequestCost \in Nat
      /\ n * RequestCost \in Nat
      /\ ClientCost' = Len(client'.program) * RequestCost + PlaceCost(after)
  BY ClientCostIs
<1>3. CASE Connect
  <2>1. client'.program = client.program /\ place = "connecting" /\ after = "handshake"
    BY <1>1, <1>3 DEF Connect
  <2>2. PlaceCost(place) = RequestCost + 1 /\ PlaceCost(after) = 1
    BY <2>1 DEF PlaceCost
  <2>3. ClientCost' = n * RequestCost + 1
    BY <1>2, <2>1, <2>2
  <2> HIDE DEF n, place, after
  <2> QED
    BY <1>2, <2>2, <2>3
<1>4. CASE SendRequest
  <2>1. /\ client'.program = Tail(client.program) /\ client.program # <<>>
        /\ place = "ready" /\ after = "awaiting"
    BY <1>1, <1>4 DEF SendRequest
  <2>2. PlaceCost(place) = 1 /\ PlaceCost(after) = 1
    BY <2>1 DEF PlaceCost
  <2>3. Len(client'.program) = n - 1 /\ n > 0
    BY <1>1, <2>1
  <2>4. ClientCost' = (n - 1) * RequestCost + 1
    BY <1>2, <2>2, <2>3
  <2> HIDE DEF n, place, after
  <2>5. (n - 1) * RequestCost = n * RequestCost - RequestCost
    BY <1>1, <1>2, <2>3, Products
  <2> QED
    BY <1>2, <2>2, <2>4, <2>5
<1> QED
  BY <1>3, <1>4

LEMMA ClientSpends ==
    ASSUME SecrecyInv,
           FinishHandshake \/ ReceiveResponse \/ ClientExits \/ ClientCutOff \/ ClientKilled
    PROVE  ClientCost' <= ClientCost /\ ClientCost' \in Nat
<1> DEFINE n == Len(client.program)
           place == client.place
           after == client'.place
<1>1. client \in [place : ClientPlaces, secret : Secrets, program : Seq(Requests)]
  BY DEF SecrecyInv, EndsType
<1>2. /\ ClientCost = n * RequestCost + PlaceCost(place) /\ RequestCost \in Nat
      /\ n * RequestCost \in Nat
      /\ ClientCost' = Len(client'.program) * RequestCost + PlaceCost(after)
      /\ PlaceCost(place) \in Nat /\ PlaceCost(after) \in Nat
  BY ClientCostIs
<1>3. client'.program = client.program \/ client'.program = <<>>
  BY <1>1 DEF FinishHandshake, ReceiveResponse, ClientExits, ClientCutOff, ClientKilled
<1>4. \/ place \in {"handshake", "awaiting"} /\ after \in {"ready", "awaiting", "refused"}
      \/ after \in {"done", "cut off", "killed"}
      \/ after = place
  BY <1>1 DEF FinishHandshake, ReceiveResponse, ClientExits, ClientCutOff, ClientKilled
<1>5. PlaceCost(after) <= PlaceCost(place)
  <2>1. CASE place \in {"handshake", "awaiting"} /\ after \in {"ready", "awaiting", "refused"}
    <3>1. PlaceCost(place) = 1 /\ PlaceCost(after) \in {0, 1}
      BY <2>1 DEF PlaceCost
    <3> QED
      BY <3>1
  <2>2. CASE after \in {"done", "cut off", "killed"}
    <3>1. PlaceCost(after) = 0
      BY <2>2 DEF PlaceCost
    <3> QED
      BY <1>2, <3>1
  <2>3. CASE after = place
    BY <1>2, <2>3
  <2> QED
    BY <1>4, <2>1, <2>2, <2>3
<1>6. \/ ClientCost' = n * RequestCost + PlaceCost(after)
      \/ ClientCost' = PlaceCost(after)
  <2>1. CASE client'.program = client.program
    BY <1>2, <2>1
  <2>2. CASE client'.program = <<>>
    <3>1. Len(client'.program) = 0
      BY <2>2
    <3>2. 0 * RequestCost = 0
      BY <1>2
    <3> QED
      BY <1>2, <3>1, <3>2
  <2> QED
    BY <1>3, <2>1, <2>2
<1> HIDE DEF n, place, after
<1>7. ClientCost' \in Nat
  BY <1>2, <1>6
<1> QED
  BY <1>2, <1>5, <1>6, <1>7

\* The daemon pays for what it takes when it takes it.
LEMMA DaemonCosts ==
    ASSUME SecrecyInv, FramesInv, WordsInv
    PROVE  /\ CheckSecret \/ InitiateShutdown \/ Leave \/ DaemonExits
                  => DaemonCost' <= DaemonCost /\ DaemonCost' \in Nat
           /\ InitiateShutdown => DaemonCost' = DaemonCost - 1
           /\ SendVersion \/ Answer \/ StreamChunk \/ EndStream \/ AnswerShutdown
                  \/ AnswerBroken => /\ DaemonCost' <= DaemonCost - FrameCost - 1
                                     /\ DaemonCost' \in Nat
           /\ ReceiveRequest => DaemonCost' = HandlingCost /\ DaemonCost = 1
           /\ daemon' = daemon => DaemonCost' = DaemonCost
<1> DEFINE left == (MaxChunks - daemon.chunks) * (FrameCost + 1)
<1>1. /\ daemon \in [place : DaemonPlaces, request : Message \cup {"none"}, chunks : Nat]
      /\ FrameCost \in Nat /\ FrameCost' = FrameCost
  BY CostTypes DEF SecrecyInv, EndsType, FrameCost
<1>2. /\ MaxChunks \in Nat /\ MaxChunks - daemon.chunks \in Nat
      /\ HandlingCost = MaxChunks * (FrameCost + 1) + FrameCost + 3
  BY CostTypes DEF WordsInv
<1>3. left \in Nat
  <2>1. FrameCost + 1 \in Nat
    BY <1>1
  <2> QED
    BY <1>2, <2>1, Products
<1>4. /\ daemon.place = "secret" => DaemonCost = FrameCost + 3
      /\ daemon.place = "accepting" => DaemonCost = FrameCost + 2
      /\ daemon.place = "handling" => DaemonCost = left + FrameCost + 3
      /\ daemon.place = "answering" => DaemonCost = 2
      /\ daemon.place \in {"waiting", "refusing"} => DaemonCost = 1
      /\ daemon.place = "gone" => DaemonCost = 0
  BY DEF DaemonCost
<1>5. /\ daemon'.place = "accepting" => DaemonCost' = FrameCost + 2
      /\ daemon'.place = "answering" => DaemonCost' = 2
      /\ daemon'.place \in {"waiting", "refusing"} => DaemonCost' = 1
      /\ daemon'.place = "gone" => DaemonCost' = 0
      /\ daemon'.place = "handling" => DaemonCost' =
             (MaxChunks - daemon'.chunks) * (FrameCost + 1) + FrameCost + 3
  BY <1>1 DEF DaemonCost
<1>6. ASSUME CheckSecret
      PROVE  DaemonCost' <= DaemonCost /\ DaemonCost' \in Nat
  <2>1. daemon.place = "secret" /\ daemon'.place \in {"accepting", "refusing"}
    BY <1>1, <1>6 DEF CheckSecret
  <2>2. DaemonCost = FrameCost + 3 /\ DaemonCost' \in {FrameCost + 2, 1}
    BY <1>4, <1>5, <2>1
  <2> QED
    BY <1>1, <2>2
<1>7. ASSUME InitiateShutdown
      PROVE  DaemonCost = 2 /\ DaemonCost' = 1
  <2>1. daemon.place = "answering" /\ daemon'.place = "waiting"
    BY <1>1, <1>7 DEF InitiateShutdown
  <2> QED
    BY <1>4, <1>5, <2>1
<1>8. ASSUME Leave \/ DaemonExits
      PROVE  DaemonCost' <= DaemonCost /\ DaemonCost' \in Nat
  <2>1. daemon'.place = "gone"
    BY <1>1, <1>8 DEF Leave, DaemonExits
  <2>2. DaemonCost' = 0
    BY <1>5, <2>1
  <2> QED
    BY <2>2, CostParts
<1>9. ASSUME SendVersion
      PROVE  DaemonCost' <= DaemonCost - FrameCost - 1 /\ DaemonCost' \in Nat
  <2>1. daemon.place = "accepting" /\ daemon'.place = "waiting"
    BY <1>1, <1>9 DEF SendVersion
  <2>2. DaemonCost = FrameCost + 2 /\ DaemonCost' = 1
    BY <1>4, <1>5, <2>1
  <2> QED
    BY <1>1, <2>2
<1>10. ASSUME Answer \/ EndStream \/ AnswerShutdown \/ AnswerBroken
       PROVE  DaemonCost' <= DaemonCost - FrameCost - 1 /\ DaemonCost' \in Nat
  <2>1. daemon.place = "handling" /\ daemon'.place \in {"waiting", "answering", "refusing"}
    BY <1>1, <1>10 DEF Answer, EndStream, AnswerShutdown, AnswerBroken
  <2>2. DaemonCost = left + FrameCost + 3 /\ DaemonCost' \in {1, 2}
    BY <1>4, <1>5, <2>1
  <2> HIDE DEF left
  <2> QED
    BY <1>1, <1>3, <2>2
<1>11. ASSUME StreamChunk
       PROVE  DaemonCost' <= DaemonCost - FrameCost - 1 /\ DaemonCost' \in Nat
  <2> DEFINE m == MaxChunks - daemon.chunks
             w == FrameCost + 1
  <2>1. /\ daemon.place = "handling" /\ daemon'.place = "handling"
        /\ daemon'.chunks = daemon.chunks + 1 /\ daemon.chunks < MaxChunks
    BY <1>1, <1>11 DEF StreamChunk
  <2>2. MaxChunks - daemon'.chunks = m - 1 /\ m > 0 /\ m \in Nat /\ w \in Nat
    BY <1>1, <1>2, <2>1
  <2>3. DaemonCost = m * w + FrameCost + 3 /\ DaemonCost' = (m - 1) * w + FrameCost + 3
    BY <1>4, <1>5, <2>1, <2>2
  <2>4. w = FrameCost + 1
    OBVIOUS
  <2> HIDE DEF m, w
  <2>5. (m - 1) * w = m * w - w /\ m * w \in Nat
    BY <2>2, Products
  <2>6. m - 1 \in Nat
    BY <2>2
  <2>7. (m - 1) * w \in Nat
    BY <2>2, <2>6, Products
  <2> QED
    BY <1>1, <2>2, <2>3, <2>4, <2>5, <2>7
<1>12. ASSUME ReceiveRequest
       PROVE  DaemonCost' = HandlingCost /\ DaemonCost = 1
  <2>1. daemon.place = "waiting" /\ daemon'.place = "handling" /\ daemon'.chunks = 0
    BY <1>12 DEF ReceiveRequest
  <2>2. MaxChunks - daemon'.chunks = MaxChunks
    BY <1>2, <2>1
  <2> QED
    BY <1>2, <1>4, <1>5, <2>1, <2>2
<1>13. ASSUME daemon' = daemon
       PROVE  DaemonCost' = DaemonCost
  BY <1>13 DEF DaemonCost, FrameCost
<1>14. InitiateShutdown => /\ DaemonCost' <= DaemonCost /\ DaemonCost' \in Nat
                           /\ DaemonCost' = DaemonCost - 1
  BY <1>7
<1> QED
  BY <1>6, <1>8, <1>9, <1>10, <1>11, <1>12, <1>13, <1>14

LEMMA ClientGoesOn ==
    ASSUME SecrecyInv, FramesInv, WordsInv, ClientStep \/ ClientKilled
    PROVE  StepsLeft' < StepsLeft
<1>1. /\ UnitCost("client") \in Nat /\ UnitCost("daemon") \in Nat
      /\ ClientCost \in Nat /\ DaemonCost \in Nat
      /\ PendingCost \in Nat /\ ShutdownCost \in 0..1
  BY CostParts
<1>2. /\ StepsLeft = UnitCost("client") + UnitCost("daemon")
                     + ClientCost + DaemonCost + PendingCost + ShutdownCost
      /\ StepsLeft' = UnitCost("client")' + UnitCost("daemon")'
                      + ClientCost' + DaemonCost' + PendingCost'
                          + ShutdownCost'
  BY DEF StepsLeft
<1>3. daemon' = daemon /\ shutdown' = shutdown
  BY DEF ClientStep, ClientKilled, Connect, FinishHandshake, SendRequest, ReceiveResponse,
         ClientExits, ClientCutOff
<1>4. DaemonCost' = DaemonCost /\ ShutdownCost' = ShutdownCost
  BY <1>3, DaemonCosts DEF ShutdownCost
<1>5. /\ RequestCost = HandlingCost + FrameCost + 1
      /\ HandlingCost \in Nat /\ FrameCost \in Nat
  BY CostTypes
<1>6. CASE Connect \/ SendRequest
  <2>1. PICK kind \in Kinds : /\ SendMessage("client", kind)
                              /\ UNCHANGED <<wire, incoming, open, taken>>
    <3>1. client \in [place : ClientPlaces, secret : Secrets, program : Seq(Requests)]
      BY DEF SecrecyInv, EndsType
    <3>2. CASE Connect
      BY <3>1, <3>2 DEF Connect, Kinds
    <3>3. CASE SendRequest
      <4>1. Head(client.program) \in Kinds
        <5>1. client.program \in Seq(Requests) /\ client.program # <<>>
          BY <3>1, <3>3 DEF SendRequest
        <5> QED
          BY <5>1 DEF Kinds
      <4> QED
        BY <3>3, <4>1 DEF SendRequest
    <3> QED
      BY <1>6, <3>2, <3>3
  <2>2. /\ UnitCost("client")' <= UnitCost("client") + FrameCost
        /\ UnitCost("client")' \in Nat /\ UnitCost("daemon")' = UnitCost("daemon")
    BY <2>1, SendCosts, EndNames
  <2>3. PendingCost' = PendingCost + HandlingCost
    BY <2>1, PendingCosts
  <2>4. ClientCost' = ClientCost - RequestCost
    BY <1>6, ClientPays
  <2> QED
    BY <1>1, <1>2, <1>4, <1>5, <2>2, <2>3, <2>4
<1>7. CASE ~(Connect \/ SendRequest)
  <2>1. ClientCost' <= ClientCost /\ ClientCost' \in Nat
    BY <1>7, ClientSpends DEF ClientStep
  <2>2. /\ UnitCost("client")' < UnitCost("client") /\ UnitCost("client")' \in Nat
        /\ UnitCost("daemon")' = UnitCost("daemon")
    <3>1. CASE FinishHandshake \/ ReceiveResponse
      <4>1. TakeMessage("client") /\ UNCHANGED <<unsent, wire, open>>
        BY <3>1 DEF FinishHandshake, ReceiveResponse
      <4>2. /\ UnitCost("client")' = UnitCost("client") - 1 /\ UnitCost("client")' \in Nat
            /\ UnitCost("daemon")' = UnitCost("daemon")
        BY <4>1, TakeCosts, EndNames
      <4> QED
        BY <1>1, <4>2
    <3>2. CASE ClientExits \/ ClientCutOff \/ ClientKilled
      BY <3>2, CloseCosts, EndNames DEF ClientExits, ClientCutOff, ClientKilled, StreamBroke
    <3> QED
      BY <1>7, <3>1, <3>2 DEF ClientStep
  <2>3. PendingCost' = PendingCost
    <3>1. sent'["client"] = sent["client"]
      BY <1>7 DEF ClientStep, ClientKilled, FinishHandshake, ReceiveResponse, ClientExits,
                  ClientCutOff, Close
    <3>2. taken'["daemon"] = taken["daemon"]
      <4>1. taken \in [Ends -> Seq(Message)]
        BY DEF SecrecyInv, EndsType
      <4> QED
        BY <1>7, <4>1, EndNames DEF ClientStep, ClientKilled, FinishHandshake,
           ReceiveResponse, ClientExits, ClientCutOff, Close, TakeMessage
    <3> QED
      BY <3>1, <3>2, PendingCosts
  <2> QED
    BY <1>1, <1>2, <1>4, <2>1, <2>2, <2>3
<1> QED
  BY <1>6, <1>7

LEMMA DaemonGoesOn ==
    ASSUME SecrecyInv, FramesInv, WordsInv, DaemonStep \/ DaemonExits
    PROVE  StepsLeft' < StepsLeft
<1>1. /\ UnitCost("client") \in Nat /\ UnitCost("daemon") \in Nat
      /\ ClientCost \in Nat /\ DaemonCost \in Nat
      /\ PendingCost \in Nat /\ ShutdownCost \in 0..1 /\ ShutdownCost' \in 0..1
  BY CostParts
<1>2. /\ StepsLeft = UnitCost("client") + UnitCost("daemon")
                     + ClientCost + DaemonCost + PendingCost + ShutdownCost
      /\ StepsLeft' = UnitCost("client")' + UnitCost("daemon")'
                      + ClientCost' + DaemonCost' + PendingCost'
                          + ShutdownCost'
  BY DEF StepsLeft
<1>3. ClientCost' = ClientCost
  <2>1. client' = client
    BY DEF DaemonStep, DaemonExits, CheckSecret, SendVersion, ReceiveRequest, Answer,
           StreamChunk, EndStream, AnswerShutdown, InitiateShutdown, AnswerBroken, Leave
  <2> QED
    BY <2>1, ClientCostIs
<1>4. ShutdownCost' <= ShutdownCost
  BY DEF ShutdownCost, DaemonStep, DaemonExits, CheckSecret, SendVersion, ReceiveRequest,
         Answer, StreamChunk, EndStream, AnswerShutdown, InitiateShutdown, AnswerBroken,
         Leave
<1>5. HandlingCost \in Nat /\ FrameCost \in Nat
  BY CostTypes
<1>6. CASE SendVersion \/ Answer \/ StreamChunk \/ EndStream \/ AnswerShutdown \/ AnswerBroken
  <2>1. PICK kind \in Kinds : /\ SendMessage("daemon", kind)
                              /\ UNCHANGED <<wire, incoming, open, taken>>
    BY <1>6 DEF SendVersion, Answer, StreamChunk, EndStream, AnswerShutdown, AnswerBroken,
                Kinds, Answers
  <2>2. /\ UnitCost("daemon")' <= UnitCost("daemon") + FrameCost
        /\ UnitCost("daemon")' \in Nat /\ UnitCost("client")' = UnitCost("client")
    BY <2>1, SendCosts, EndNames
  <2>3. PendingCost' = PendingCost
    <3>1. sent'["client"] = sent["client"]
      BY <2>1, SendPending, EndNames
    <3> QED
      BY <2>1, <3>1, PendingCosts
  <2>4. DaemonCost' <= DaemonCost - FrameCost - 1 /\ DaemonCost' \in Nat
    BY <1>6, DaemonCosts
  <2> QED
    BY <1>1, <1>2, <1>3, <1>4, <1>5, <2>2, <2>3, <2>4
<1>7. CASE CheckSecret \/ ReceiveRequest
  <2>1. TakeMessage("daemon") /\ UNCHANGED <<unsent, wire, open, sent>>
    BY <1>7 DEF CheckSecret, ReceiveRequest
  <2>2. /\ UnitCost("daemon")' = UnitCost("daemon") - 1
        /\ UnitCost("client")' = UnitCost("client")
    BY <2>1, TakeCosts, EndNames
  <2>3. PendingCost' = PendingCost - HandlingCost
    BY <2>1, PendingCosts
  <2>4. \/ DaemonCost' <= DaemonCost /\ DaemonCost' \in Nat
        \/ DaemonCost' = HandlingCost /\ DaemonCost = 1
    BY <1>7, DaemonCosts
  <2> QED
    BY <1>1, <1>2, <1>3, <1>4, <1>5, <2>2, <2>3, <2>4
<1>8. CASE InitiateShutdown
  <2>1. UNCHANGED streams
    BY <1>8 DEF InitiateShutdown
  <2>2. /\ UnitCost("daemon")' = UnitCost("daemon")
        /\ UnitCost("client")' = UnitCost("client") /\ PendingCost' = PendingCost
    BY <2>1, PendingCosts DEF streams, UnitCost, HeaderCost, OpenCost
  <2>3. DaemonCost' = DaemonCost - 1
    BY <1>8, DaemonCosts
  <2> QED
    BY <1>1, <1>2, <1>3, <1>4, <2>2, <2>3
<1>9. CASE Leave \/ DaemonExits
  <2>1. Close("daemon") /\ open["daemon"] /\ UNCHANGED <<sent, taken>>
    BY <1>9 DEF Leave, DaemonExits, Close
  <2>2. /\ UnitCost("daemon")' < UnitCost("daemon") /\ UnitCost("daemon")' \in Nat
        /\ UnitCost("client")' = UnitCost("client")
    BY <2>1, CloseCosts, EndNames
  <2>3. PendingCost' = PendingCost
    BY <2>1, PendingCosts
  <2>4. DaemonCost' <= DaemonCost /\ DaemonCost' \in Nat
    BY <1>9, DaemonCosts
  <2> QED
    BY <1>1, <1>2, <1>3, <1>4, <2>2, <2>3, <2>4
<1> QED
  BY <1>6, <1>7, <1>8, <1>9 DEF DaemonStep

LEMMA EveryStepCounts ==
    ASSUME SecrecyInv, FramesInv, WordsInv, Next
    PROVE  StepsLeft' < StepsLeft
<1>1. CASE ClientStep \/ ClientKilled
  BY <1>1, ClientGoesOn
<1>2. CASE DaemonStep \/ DaemonExits
  BY <1>2, DaemonGoesOn
<1>3. CASE ShutdownElsewhere \/ \E e \in Ends : Transport(e)
  <2>1. /\ UnitCost("client") \in Nat /\ UnitCost("daemon") \in Nat
        /\ ClientCost \in Nat /\ DaemonCost \in Nat
        /\ PendingCost \in Nat /\ ShutdownCost \in 0..1
    BY CostParts
  <2>2. /\ StepsLeft = UnitCost("client") + UnitCost("daemon")
                       + ClientCost + DaemonCost + PendingCost + ShutdownCost
        /\ StepsLeft' = UnitCost("client")' + UnitCost("daemon")'
                        + ClientCost' + DaemonCost' + PendingCost'
                            + ShutdownCost'
    BY DEF StepsLeft
  <2>3. UNCHANGED <<client, daemon, sent, taken>>
    BY <1>3 DEF ShutdownElsewhere, streams, Transport, Write, ReadHeader, ReadChunk
  <2>4. /\ ClientCost' = ClientCost /\ DaemonCost' = DaemonCost
        /\ PendingCost' = PendingCost
    BY <2>3, ClientCostIs, DaemonCosts, PendingCosts
  <2>5. CASE ShutdownElsewhere
    <3>1. ShutdownCost = 1 /\ ShutdownCost' = 0
      BY <2>5 DEF ShutdownElsewhere, ShutdownCost
    <3>2. /\ UnitCost("client")' = UnitCost("client")
          /\ UnitCost("daemon")' = UnitCost("daemon")
      BY <2>5 DEF ShutdownElsewhere, streams, UnitCost, HeaderCost, OpenCost
    <3> QED
      BY <2>1, <2>2, <2>4, <3>1, <3>2
  <2>6. CASE \E e \in Ends : Transport(e)
    <3>1. /\ UnitCost("client")' \in Nat /\ UnitCost("daemon")' \in Nat
          /\ UnitCost("client")' + UnitCost("daemon")' < UnitCost("client") + UnitCost("daemon")
      BY <2>6, TransportCosts
    <3>2. ShutdownCost' = ShutdownCost
      BY <2>6 DEF Transport, Write, ReadHeader, ReadChunk, ShutdownCost
    <3> QED
      BY <2>1, <2>2, <2>4, <3>1, <3>2
  <2> QED
    BY <1>3, <2>5, <2>6
<1> QED
  BY <1>1, <1>2, <1>3 DEF Next

LEMMA StepsLeftType ==
    ASSUME SecrecyInv, FramesInv, WordsInv
    PROVE  StepsLeft \in Nat
BY CostParts DEF StepsLeft

\* A connection takes no more steps than its first state allows, whatever the sizes, the
\* requests and the portions of the stream: every message that is sent is paid for by the
\* request or the connection it belongs to, and every step of the transport brings some
\* unit nearer to its reader.  With NobodyWaitsForever this is the part of ConnectionsEnd
\* that does not depend on fairness.
THEOREM StepsRunOut == Spec => /\ []BoundIsNatural
                               /\ EveryStepIsPaid
<1>1. Init /\ [][Next]_vars => [](SecrecyInv /\ FramesInv /\ WordsInv)
  BY SecrecyInit, SecrecyNext, FramesInit, FramesNext, TurnInit, WordsNext, PTL
<1>2. SecrecyInv /\ FramesInv /\ WordsInv => BoundIsNatural
  BY StepsLeftType DEF BoundIsNatural
<1>3. SecrecyInv /\ FramesInv /\ WordsInv /\ [Next]_vars => [StepsLeft' < StepsLeft]_vars
  BY EveryStepCounts
<1> QED
  BY <1>1, <1>2, <1>3, PTL DEF Spec, EveryStepIsPaid
=============================================================================
