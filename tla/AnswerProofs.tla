---------------------------- MODULE AnswerProofs ----------------------------
(***************************************************************************)
(* Who is answered what: the safety invariants of Service, for every set   *)
(* of clients, every capacity of the queues, and any number of keys and    *)
(* deaths.                                                                 *)
(***************************************************************************)
EXTENDS ServiceProofs

-----------------------------------------------------------------------------
(* The invariant *)

\* The engine has not heard of the client and never will, or not yet.
Quiet(c) ==
  \/ pc[c] = "off"
  \/ pc[c] = "sending" /\ (c \in Controls \/ c_msg[c] = "CLIENT_INIT")
  \/ exit_value[c] = "failure"

QuietUnheard(c) ==
  Quiet(c) => client_mq_server # c /\ answers[c] = <<>> /\ ~InQueue(c)

NoneLeft(c) ==
  c \in exists /\ pc[c] = "gone" =>
    exit_value[c] # "success" /\ (exit_value[c] = "failure" => answers[c] = <<>>)

ControlRequests == {"CLIENT_REQ_HISTORY", "CLIENT_REQ_LOG", "CLIENT_REQ_REPORT"}

\* What a control has been sent, received or not
Sent(c) == heard[c] \o answers[c]

\* At most one request of a control is in the queue, the one it has sent.
OneRequest(c) ==
  \A m, n \in 1..Len(requests) :
    requests[m].client_id = c /\ requests[n].client_id = c =>
      m = n /\ requests[m].mtype = c_msg[c]

AsksOnce(c) ==
  /\ pc[c] # "off" /\ exit_value[c] # "failure" => c_msg[c] \in ControlRequests
  /\ Quiet(c) \/ InQueue(c) =>
       client_mq_server # c /\ answers[c] = <<>> /\ heard[c] = <<>>
  /\ OneRequest(c)

Confirmed(c, s) == Len(s) \in {1, 2} /\ s[1] = ReplyTo(c_msg[c])
Completed(c, s) == Confirmed(c, s) /\ Len(s) = 2 /\ s[2].mtype = "SERVER_ACTION_SUCCESS"

InOrder(c) ==
  Sent(c) = <<>> \/ (Confirmed(c, Sent(c)) /\ Len(Sent(c)) = 1) \/ Completed(c, Sent(c))

\* What the engine has still to send, while its answers go to the control
Addressed(c) ==
  client_mq_server = c =>
    /\ phase = "reply" => Sent(c) = <<>> /\ s_msg = ReplyTo(c_msg[c])
    /\ phase # "reply" /\ c \in exists /\ (owed \/ phase = "notify") => Len(Sent(c)) = 1

Ended(c) ==
  pc[c] = "leaving" \/ exit_value[c] = "success" => Completed(c, heard[c])

ControlOK(c) == AsksOnce(c) /\ InOrder(c) /\ Addressed(c) /\ Ended(c)

\* A completion is sent when the debt has been settled.
Notices ==
  phase = "notify" => ~owed /\ s_msg.mtype = "SERVER_ACTION_SUCCESS"

IInv ==
  /\ TypeOK /\ AddressKnown /\ Notices
  /\ \A c \in Clients : QuietUnheard(c) /\ NoneLeft(c)
  /\ \A c \in Controls : ControlOK(c)

-----------------------------------------------------------------------------
(* Sequences as queues *)

LEMMA ConcatAppend ==
  \A T : \A h, a \in Seq(T), r \in T :
    h \o Append(a, r) = Append(h \o a, r) /\ h \o a \in Seq(T)
<1> SUFFICES ASSUME NEW T, NEW h \in Seq(T), NEW a \in Seq(T), NEW r \in T
             PROVE  h \o Append(a, r) = Append(h \o a, r) /\ h \o a \in Seq(T)
  OBVIOUS
<1> QED OBVIOUS

LEMMA AppendCells ==
  ASSUME NEW T, NEW s \in Seq(T), NEW e \in T
  PROVE  /\ Append(s, e)[Len(s) + 1] = e
         /\ \A n \in 1..Len(s) : Append(s, e)[n] = s[n]
OBVIOUS

LEMMA ConcatCells ==
  \A T : \A h, t \in Seq(T) :
    /\ Len(h) \in Nat /\ Len(h) <= Len(h \o t) /\ Len(h \o t) = Len(h) + Len(t)
    /\ \A n \in 1..Len(h) : (h \o t)[n] = h[n]
<1> SUFFICES ASSUME NEW T, NEW h \in Seq(T), NEW t \in Seq(T)
             PROVE  /\ Len(h) \in Nat /\ Len(h) <= Len(h \o t)
                    /\ Len(h \o t) = Len(h) + Len(t)
                    /\ \A n \in 1..Len(h) : (h \o t)[n] = h[n]
  OBVIOUS
<1> QED OBVIOUS

LEMMA SecondOf ==
  \A T : \A s \in Seq(T), e \in T :
    Len(s) = 1 => Len(Append(s, e)) = 2 /\ Append(s, e)[1] = s[1] /\ Append(s, e)[2] = e
<1> SUFFICES ASSUME NEW T, NEW s \in Seq(T), NEW e \in T
             PROVE  Len(s) = 1 =>
                      Len(Append(s, e)) = 2 /\ Append(s, e)[1] = s[1] /\ Append(s, e)[2] = e
  OBVIOUS
<1>1. Len(Append(s, e)) = Len(s) + 1
  BY AppendType
<1>2. Append(s, e)[Len(s) + 1] = e /\ \A n \in 1..Len(s) : Append(s, e)[n] = s[n]
  BY AppendCells
<1>3. Len(s) = 1 => Len(s) + 1 = 2 /\ 1 \in 1..Len(s)
  OBVIOUS
<1> QED BY <1>1, <1>2, <1>3, Zenon

LEMMA ConcatShift ==
  ASSUME NEW T, NEW h \in Seq(T), NEW a \in Seq(T), a # <<>>
  PROVE  Append(h, Head(a)) \o Tail(a) = h \o a
<1> DEFINE l == Append(h, Head(a)) \o Tail(a)
           r == h \o a
<1>1. l \in Seq(T) /\ r \in Seq(T) /\ Len(l) = Len(r)
  BY TailType
<1>2. \A n \in 1..Len(l) : l[n] = r[n]
  BY TailType
<1> QED BY <1>1, <1>2

LEMMA TailIndex ==
  ASSUME NEW T, NEW s \in Seq(T), s # <<>>
  PROVE  /\ 1 \in 1..Len(s) /\ Head(s) = s[1]
         /\ \A n \in 1..Len(Tail(s)) : n + 1 \in 1..Len(s) /\ Tail(s)[n] = s[n + 1]
OBVIOUS

LEMMA AppendIndex ==
  ASSUME NEW T, NEW s \in Seq(T), NEW e \in T
  PROVE  \A n \in 1..Len(Append(s, e)) :
           \/ n \in 1..Len(s) /\ Append(s, e)[n] = s[n]
           \/ n = Len(s) + 1 /\ Append(s, e)[n] = e
OBVIOUS

LEMMA EmptyConcat ==
  ASSUME NEW T, NEW h \in Seq(T), NEW a \in Seq(T)
  PROVE  /\ h = <<>> => h \o a = a
         /\ a = <<>> => h \o a = h
         /\ h \o a = <<>> => h = <<>> /\ a = <<>>
OBVIOUS

-----------------------------------------------------------------------------
(* Steps of the engine *)

\* What clients own stays; so does what they have sent and been answered, but
\* for what the lemmas below say.
ClientsKept == UNCHANGED <<pc, c_msg, exit_value, heard, exists>>

LEMMA SentType ==
  ASSUME QueuesTypeOK, ClientsTypeOK, NEW c \in Controls
  PROVE  /\ heard[c] \in Seq(ServerRsp) /\ answers[c] \in Seq(ServerRsp)
         /\ Sent(c) \in Seq(ServerRsp) /\ Len(Sent(c)) \in Nat
BY DEF QueuesTypeOK, ClientsTypeOK, Sent, Clients

\* What a control is confirmed does not depend on the state of the engine.
LEMMA ReplyFixed ==
  ASSUME NEW c, c_msg[c] \in ControlRequests
  PROVE  /\ ReplyTo(c_msg[c]).mtype = "SERVER_REQUEST_SUCCESS"
         /\ c_msg'[c] = c_msg[c] => ReplyTo(c_msg[c])' = ReplyTo(c_msg[c])
BY DEF ReplyTo, ControlRequests, RequestSuccess, ActionSuccess

LEMMA NotQuiet ==
  ASSUME ClientsTypeOK, NEW c \in Controls, ControlOK(c), ~Quiet(c)
  PROVE  c_msg[c] \in ControlRequests
BY DEF ControlOK, AsksOnce, Quiet

\* The client is as it was, and has been sent what it had been.
LEMMA SameSent ==
  ASSUME QueuesTypeOK, ClientsTypeOK, NEW c \in Controls, ControlOK(c),
         UNCHANGED <<c_msg[c], pc[c], exit_value[c], heard[c], answers[c]>>
  PROVE  InOrder(c)' /\ Ended(c)' /\ Sent(c)' = Sent(c)
<1>1. Sent(c)' = Sent(c)
  BY DEF Sent
<1>2. CASE Quiet(c)
  <2>1. heard[c] = <<>> /\ answers[c] = <<>>
    BY <1>2 DEF ControlOK, AsksOnce
  <2>2. Sent(c) = <<>>
    BY <2>1, SentType, EmptyConcat DEF Sent
  <2>3. pc[c] # "leaving" /\ exit_value[c] # "success"
    BY <1>2 DEF Quiet, ClientsTypeOK, Clients
  <2> QED BY <1>1, <2>2, <2>3 DEF InOrder, Ended
<1>3. CASE ~Quiet(c)
  <2>1. c_msg'[c] = c_msg[c] /\ ReplyTo(c_msg[c])' = ReplyTo(c_msg[c])
    BY <1>3, NotQuiet, ReplyFixed
  <2>2. InOrder(c)'
    BY <1>1, <2>1 DEF ControlOK, InOrder, Confirmed, Completed
  <2>3. Ended(c)'
    BY <2>1 DEF ControlOK, Ended, Confirmed, Completed
  <2> QED BY <1>1, <2>2, <2>3
<1> QED BY <1>2, <1>3

\* The requests that stay in the queue are those that were there.
LEMMA FewerRequests ==
  ASSUME QueuesTypeOK, requests' \in {requests, <<>>} \/ msg_rcv_from_client,
         UNCHANGED c_msg, NEW c \in Clients
  PROVE  /\ InQueue(c)' => InQueue(c)
         /\ OneRequest(c) => OneRequest(c)'
<1>1. CASE requests' = requests
  BY <1>1 DEF InQueue, OneRequest
<1>2. CASE requests' = <<>>
  BY <1>2, EmptyType DEF InQueue, OneRequest
<1>3. CASE msg_rcv_from_client
  <2>1. /\ requests \in Seq(ClientReq) /\ requests # <<>>
        /\ requests' = Tail(requests)
    BY <1>3 DEF QueuesTypeOK, msg_rcv_from_client
  <2>2. \A n \in 1..Len(requests') :
          n + 1 \in 1..Len(requests) /\ requests'[n] = requests[n + 1]
    BY <2>1, TailIndex
  <2>3. InQueue(c)' => InQueue(c)
    BY <2>2 DEF InQueue
  <2>4. ASSUME OneRequest(c),
               NEW m \in 1..Len(requests'), NEW n \in 1..Len(requests'),
               requests'[m].client_id = c, requests'[n].client_id = c
        PROVE  m = n /\ requests'[m].mtype = c_msg'[c]
    <3>1. m + 1 = n + 1 /\ requests[m + 1].mtype = c_msg[c]
      BY <2>2, <2>4 DEF OneRequest
    <3> QED BY <2>2, <3>1
  <2> QED BY <2>3, <2>4 DEF OneRequest
<1> QED BY <1>1, <1>2, <1>3

\* No answer is added, no message taken.
LEMMA RestStep ==
  ASSUME IInv, NEW c \in Clients, ClientsKept, UNCHANGED answers,
         requests' \in {requests, <<>>}, client_mq_server' \in {client_mq_server, NoClient},
         phase' # "reply",
         owed' \/ phase' = "notify" => (owed \/ phase = "notify") /\ phase # "reply"
  PROVE  /\ QuietUnheard(c)' /\ NoneLeft(c)'
         /\ c \in Controls => ControlOK(c)'
<1>1. c # NoClient
  BY QueuesAssumption
<1>2. InQueue(c)' => InQueue(c)
  BY FewerRequests DEF IInv, TypeOK, ClientsKept
<1>3. QuietUnheard(c)' /\ NoneLeft(c)'
  BY <1>1, <1>2 DEF IInv, QuietUnheard, NoneLeft, Quiet, ClientsKept
<1>4. ASSUME c \in Controls
      PROVE  ControlOK(c)'
  <2>1. ControlOK(c)
    BY <1>4 DEF IInv
  <2>2. AsksOnce(c)'
    <3>1. OneRequest(c)'
      BY <2>1, FewerRequests DEF IInv, TypeOK, ClientsKept, ControlOK, AsksOnce
    <3>2. Quiet(c)' = Quiet(c)
      BY DEF Quiet, ClientsKept
    <3> QED BY <1>1, <1>2, <2>1, <3>1, <3>2 DEF ControlOK, AsksOnce, ClientsKept
  <2>3. InOrder(c)' /\ Ended(c)' /\ Sent(c)' = Sent(c)
    BY <1>4, <2>1, SameSent DEF IInv, TypeOK, ClientsKept
  <2>4. Addressed(c)'
    BY <1>1, <2>1, <2>3 DEF ControlOK, Addressed, ClientsKept
  <2> QED BY <2>2, <2>3, <2>4 DEF ControlOK
<1> QED BY <1>3, <1>4

LEMMA TakeRequestOK ==
  ASSUME IInv, TakeRequest, ClientsKept, NEW c \in Clients
  PROVE  /\ QuietUnheard(c)' /\ NoneLeft(c)'
         /\ c \in Controls => ControlOK(c)'
<1> DEFINE d == Head(requests).client_id
<1>1. /\ requests \in Seq(ClientReq) /\ requests # <<>> /\ requests' = Tail(requests)
      /\ client_mq_server' = d /\ UNCHANGED answers
      /\ msg_rcv_from_client
      /\ phase' = "reply" /\ s_msg' = ReplyTo(Head(requests).mtype)
  BY DEF IInv, TypeOK, QueuesTypeOK, TakeRequest, msg_rcv_from_client
<1>2. /\ 1 \in 1..Len(requests) /\ d = requests[1].client_id
      /\ Head(requests) = requests[1]
      /\ \A n \in 1..Len(requests') :
           n + 1 \in 1..Len(requests) /\ requests'[n] = requests[n + 1]
  BY <1>1, TailIndex
<1>3. d = c => InQueue(c)
  BY <1>2 DEF InQueue
<1>4. InQueue(c)' => InQueue(c)
  BY <1>1, FewerRequests DEF IInv, TypeOK, ClientsKept
<1>5. Quiet(c)' = Quiet(c)
  BY DEF Quiet, ClientsKept
<1>6. QuietUnheard(c)' /\ NoneLeft(c)'
  BY <1>1, <1>3, <1>4, <1>5 DEF IInv, QuietUnheard, NoneLeft, ClientsKept
<1>7. ASSUME c \in Controls
      PROVE  ControlOK(c)'
  <2>1. ControlOK(c)
    BY <1>7 DEF IInv
  <2>2. InOrder(c)' /\ Ended(c)' /\ Sent(c)' = Sent(c)
    BY <1>1, <1>7, <2>1, SameSent DEF IInv, TypeOK, ClientsKept
  <2>3. OneRequest(c)'
    BY <1>1, <2>1, FewerRequests DEF IInv, TypeOK, ClientsKept, ControlOK, AsksOnce
  <2>4. InQueue(c)' => d # c
    <3>1. SUFFICES ASSUME NEW n \in 1..Len(requests'), requests'[n].client_id = c, d = c
                   PROVE  FALSE
      BY DEF InQueue
    <3>2. n + 1 = 1
      BY <1>2, <2>1, <3>1 DEF ControlOK, AsksOnce, OneRequest
    <3> QED BY <3>2
  <2>5. Quiet(c) => d # c
    BY <1>3 DEF IInv, QuietUnheard
  <2>6. AsksOnce(c)'
    BY <1>1, <1>4, <1>5, <2>1, <2>3, <2>4, <2>5 DEF ControlOK, AsksOnce, ClientsKept
  <2>7. Addressed(c)'
    <3>1. SUFFICES ASSUME d = c
                   PROVE  Sent(c) = <<>> /\ s_msg' = ReplyTo(c_msg[c])'
      BY <1>1, <2>2 DEF Addressed
    <3>2. answers[c] = <<>> /\ heard[c] = <<>> /\ ~Quiet(c)
      BY <1>3, <2>1, <2>5, <3>1 DEF ControlOK, AsksOnce
    <3>3. Sent(c) = <<>>
      BY <1>7, <3>2, SentType, EmptyConcat DEF Sent, IInv, TypeOK
    <3>4. Head(requests).mtype = c_msg[c]
      BY <1>2, <2>1, <3>1 DEF ControlOK, AsksOnce, OneRequest
    <3>5. ReplyTo(c_msg[c])' = ReplyTo(c_msg[c])
      BY <1>7, <2>1, <3>2, NotQuiet, ReplyFixed DEF IInv, TypeOK, ClientsKept
    <3> QED BY <1>1, <3>3, <3>4, <3>5
  <2> QED BY <2>2, <2>6, <2>7 DEF ControlOK
<1> QED BY <1>6, <1>7

\* An answer that finds no queue is dropped, and one to somebody else does not
\* matter.
LEMMA SendPastOK ==
  ASSUME IInv, SendAnswer, ClientsKept, NEW c \in Clients,
         client_mq_server # c \/ c \notin exists
  PROVE  /\ QuietUnheard(c)' /\ NoneLeft(c)'
         /\ c \in Controls => ControlOK(c)'
<1>1. /\ answers'[c] = answers[c] /\ UNCHANGED <<requests, client_mq_server>>
      /\ phase' # "reply"
  BY DEF IInv, TypeOK, QueuesTypeOK, SendAnswer, msg_send_to_client
<1>2. InQueue(c)' = InQueue(c) /\ Quiet(c)' = Quiet(c)
  BY <1>1 DEF InQueue, Quiet, ClientsKept
<1>3. QuietUnheard(c)' /\ NoneLeft(c)'
  BY <1>1, <1>2 DEF IInv, QuietUnheard, NoneLeft, ClientsKept
<1>4. ASSUME c \in Controls
      PROVE  ControlOK(c)'
  <2>1. ControlOK(c)
    BY <1>4 DEF IInv
  <2>2. InOrder(c)' /\ Ended(c)' /\ Sent(c)' = Sent(c)
    BY <1>1, <1>4, <2>1, SameSent DEF IInv, TypeOK, ClientsKept
  <2>3. AsksOnce(c)'
    BY <1>1, <1>2, <2>1 DEF ControlOK, AsksOnce, ClientsKept, OneRequest
  <2>4. Addressed(c)'
    BY <1>1 DEF Addressed, ClientsKept
  <2> QED BY <2>2, <2>3, <2>4 DEF ControlOK
<1> QED BY <1>3, <1>4

LEMMA SendOK ==
  ASSUME IInv, SendAnswer, ClientsKept, NEW c \in Clients,
         client_mq_server = c, c \in exists
  PROVE  /\ QuietUnheard(c)' /\ NoneLeft(c)'
         /\ c \in Controls => ControlOK(c)'
<1>1. /\ answers'[c] = Append(answers[c], s_msg) /\ UNCHANGED <<requests, client_mq_server, owed>>
      /\ s_msg \in ServerRsp
      /\ \/ phase = "reply" /\ phase' = "read"
         \/ phase = "notify" /\ phase' = "parsed"
  BY DEF IInv, TypeOK, QueuesTypeOK, ServerTypeOK, SendAnswer, msg_send_to_client
<1>2. InQueue(c)' = InQueue(c) /\ Quiet(c)' = Quiet(c)
  BY <1>1 DEF InQueue, Quiet, ClientsKept
<1>3. ~Quiet(c)
  BY DEF IInv, QuietUnheard
<1>4. QuietUnheard(c)' /\ NoneLeft(c)'
  BY <1>1, <1>2, <1>3 DEF IInv, QuietUnheard, NoneLeft, ClientsKept, Quiet
<1>5. ASSUME c \in Controls
      PROVE  ControlOK(c)'
  <2>1. ControlOK(c)
    BY <1>5 DEF IInv
  <2>2. c_msg[c] \in ControlRequests /\ ReplyTo(c_msg[c])' = ReplyTo(c_msg[c])
    BY <1>3, <1>5, <2>1, NotQuiet, ReplyFixed DEF IInv, TypeOK, ClientsKept
  <2>3. Sent(c)' = Append(Sent(c), s_msg) /\ Sent(c) \in Seq(ServerRsp)
    <3>1. heard[c] \in Seq(ServerRsp) /\ answers[c] \in Seq(ServerRsp)
      BY <1>5, SentType DEF IInv, TypeOK
    <3>2. s_msg \in ServerRsp
      BY <1>1
    <3>3. /\ heard[c] \o Append(answers[c], s_msg) = Append(heard[c] \o answers[c], s_msg)
          /\ heard[c] \o answers[c] \in Seq(ServerRsp)
      BY <3>1, <3>2, ConcatAppend, Zenon
    <3> QED BY <1>1, <3>3 DEF Sent, ClientsKept
  <2>4. AsksOnce(c)'
    <3>1. ~InQueue(c)
      BY <2>1 DEF ControlOK, AsksOnce
    <3> QED BY <1>1, <1>2, <1>3, <2>1, <3>1 DEF ControlOK, AsksOnce, ClientsKept, OneRequest
  <2>5. Ended(c)'
    BY <2>1, <2>2 DEF ControlOK, Ended, Completed, Confirmed, ClientsKept
  <2>6. CASE phase = "reply"
    <3>1. Sent(c) = <<>> /\ s_msg = ReplyTo(c_msg[c]) /\ phase' = "read"
      BY <1>1, <2>1, <2>6 DEF ControlOK, Addressed
    <3>2. Len(Sent(c)') = 1 /\ Sent(c)'[1] = ReplyTo(c_msg[c])
      BY <1>1, <2>3, <3>1
    <3>3. InOrder(c)' /\ Addressed(c)'
      BY <2>2, <3>1, <3>2 DEF InOrder, Confirmed, Addressed, ClientsKept
    <3> QED BY <2>4, <2>5, <3>3 DEF ControlOK
  <2>7. CASE phase = "notify"
    <3>1. Len(Sent(c)) = 1 /\ ~owed /\ s_msg.mtype = "SERVER_ACTION_SUCCESS"
          /\ phase' = "parsed"
      BY <1>1, <2>1, <2>7 DEF ControlOK, Addressed, IInv, Notices
    <3>2. Sent(c)[1] = ReplyTo(c_msg[c])
      BY <2>1, <3>1 DEF ControlOK, InOrder, Confirmed, Completed
    <3>3. /\ Len(Sent(c)') = 2 /\ Sent(c)'[1] = ReplyTo(c_msg[c])
          /\ Sent(c)'[2] = s_msg
      <4>0. Sent(c) \in Seq(ServerRsp) /\ s_msg \in ServerRsp /\ Len(Sent(c)) = 1
        BY <1>1, <2>3, <3>1
      <4>1. \A s \in Seq(ServerRsp), e \in ServerRsp :
              Len(s) = 1 => Len(Append(s, e)) = 2 /\ Append(s, e)[1] = s[1] /\ Append(s, e)[2] = e
        BY SecondOf, Zenon
      <4>2. /\ Len(Append(Sent(c), s_msg)) = 2
            /\ Append(Sent(c), s_msg)[1] = Sent(c)[1]
            /\ Append(Sent(c), s_msg)[2] = s_msg
        BY <4>0, <4>1, Zenon
      <4> QED BY <2>3, <3>2, <4>2
    <3>4. InOrder(c)' /\ Addressed(c)'
      BY <1>1, <2>2, <3>1, <3>3 DEF InOrder, Confirmed, Completed, Addressed, ClientsKept
    <3> QED BY <2>4, <2>5, <3>4 DEF ControlOK
  <2> QED BY <1>1, <2>6, <2>7
<1> QED BY <1>4, <1>5

\* What the parser tells settles the debt, and it makes none.
LEMMA ParseSettles ==
  ASSUME BeginDump \/ EndDump \/ SwitchLog \/ PassBytes
  PROVE  /\ owed' => owed
         /\ notice' # "" => owed /\ ~owed'
<1>1. ASSUME NEW rsp, S!Tell(rsp)
      PROVE  (owed' => owed) /\ (notice' # "" => owed /\ ~owed')
  BY <1>1 DEF S!Tell
<1>2. CASE BeginDump
  <2>1. owed' = owed /\ notice' = ""
    BY <1>2 DEF BeginDump, S!Begin
  <2> QED BY <2>1, Zenon
<1>3. CASE EndDump
  BY <1>1, <1>3 DEF EndDump, S!Finish
<1>4. CASE SwitchLog
  <2>1. CASE S!StartLog
    BY <1>1, <2>1 DEF S!StartLog
  <2>2. CASE S!StopLog
    BY <1>1, <2>2 DEF S!StopLog
  <2> QED BY <1>4, <2>1, <2>2 DEF SwitchLog
<1>5. CASE PassBytes
  BY <1>5, Zenon DEF PassBytes, S!Pass
<1> QED BY <1>2, <1>3, <1>4, <1>5

LEMMA EngineOK ==
  ASSUME IInv, EngineStep \/ Die, UNCHANGED clientVars
  PROVE  /\ AddressKnown' /\ Notices'
         /\ \A c \in Clients : QuietUnheard(c)' /\ NoneLeft(c)'
         /\ \A c \in Controls : ControlOK(c)'
<1> USE DEF clientVars, ClientsKept
<1>0. Controls \subseteq Clients /\ NoClient \notin Clients
  BY QueuesAssumption DEF Clients
<1>1. CASE TakeRequest
  <2>1. UNCHANGED exists
    BY <1>1 DEF TakeRequest, msg_rcv_from_client
  <2>2. Head(requests).client_id \in Clients
    BY <1>1, ReceiveType DEF IInv, TypeOK, TakeRequest, ClientReq
  <2>3. AddressKnown' /\ Notices'
    BY <1>0, <1>1, <2>2 DEF TakeRequest, msg_rcv_from_client, AddressKnown, Notices
  <2> QED BY <1>0, <1>1, <2>1, <2>3, TakeRequestOK
<1>2. CASE SendAnswer
  <2>1. UNCHANGED exists
    BY <1>2 DEF SendAnswer, msg_send_to_client
  <2>2. AddressKnown' /\ Notices'
    BY <1>2 DEF IInv, SendAnswer, msg_send_to_client, AddressKnown, Sending, Notices
  <2> QED BY <1>0, <1>2, <2>1, <2>2, SendPastOK, SendOK
<1>3. ASSUME UNCHANGED <<exists, answers>>, requests' \in {requests, <<>>},
             \/ UNCHANGED client_mq_server
             \/ client_mq_server' = NoClient /\ ~owed' /\ phase' # "notify",
             phase' # "reply",
             owed' \/ phase' = "notify" => (owed \/ phase = "notify") /\ phase # "reply",
             phase' = "notify" => ~owed' /\ s_msg'.mtype = "SERVER_ACTION_SUCCESS"
      PROVE  /\ AddressKnown' /\ Notices'
             /\ \A c \in Clients : QuietUnheard(c)' /\ NoneLeft(c)'
             /\ \A c \in Controls : ControlOK(c)'
  <2>1. AddressKnown' /\ Notices'
    BY <1>3 DEF IInv, AddressKnown, Sending, Notices
  <2> QED BY <1>0, <1>3, <2>1, RestStep
<1>4. CASE NoRequest
  BY <1>3, <1>4 DEF NoRequest, AtHead, queueVars, sessionVars
<1>5. CASE BeginDump \/ EndDump \/ SwitchLog \/ PassBytes
  <2>1. Parses /\ (owed' => owed) /\ (notice' # "" => owed /\ ~owed')
    BY <1>5, ParseSettles DEF BeginDump, EndDump, SwitchLog, PassBytes
  <2>2. UNCHANGED queueVars /\ phase # "reply" /\ phase' \in {"parsed", "notify"}
    BY <2>1 DEF Parses
  <2>3. phase' = "notify" => ~owed' /\ owed /\ s_msg'.mtype = "SERVER_ACTION_SUCCESS"
    <3>1. phase' = "notify" => notice' # "" /\ s_msg' = ActionSuccess(notice')
      BY <2>1 DEF Parses
    <3>2. s_msg' = ActionSuccess(notice') => s_msg'.mtype = "SERVER_ACTION_SUCCESS"
      BY DEF ActionSuccess
    <3> QED BY <2>1, <3>1, <3>2, Zenon
  <2> QED BY <1>3, <2>1, <2>2, <2>3 DEF queueVars
<1>6. CASE Exit \/ Die
  BY <1>3, <1>6 DEF Exit, Die, ProcessGone, S!Forget, msg_remove_server_mq
<1>7. CASE Restart
  BY <1>3, <1>7 DEF Restart, msg_create_server_mq, sessionVars
<1> QED BY <1>1, <1>2, <1>4, <1>5, <1>6, <1>7 DEF EngineStep

-----------------------------------------------------------------------------
(* Steps of the clients *)

\* A request that is put into the queue
LEMMA MoreRequests ==
  ASSUME QueuesTypeOK, NEW m \in ClientReq, requests' = Append(requests, m),
         NEW c \in Clients
  PROVE  /\ InQueue(c)' => InQueue(c) \/ m.client_id = c
         /\ /\ OneRequest(c)
            /\ c_msg'[c] = c_msg[c]
            /\ m.client_id = c => ~InQueue(c) /\ m.mtype = c_msg[c]
            => OneRequest(c)'
<1>1. \A n \in 1..Len(requests') :
        \/ n \in 1..Len(requests) /\ requests'[n] = requests[n]
        \/ n = Len(requests) + 1 /\ requests'[n] = m
  BY AppendIndex DEF QueuesTypeOK
<1>2. InQueue(c)' => InQueue(c) \/ m.client_id = c
  BY <1>1 DEF InQueue
<1>3. ASSUME OneRequest(c),
             c_msg'[c] = c_msg[c],
             m.client_id = c => ~InQueue(c) /\ m.mtype = c_msg[c],
             NEW k \in 1..Len(requests'), NEW n \in 1..Len(requests'),
             requests'[k].client_id = c, requests'[n].client_id = c
      PROVE  k = n /\ requests'[k].mtype = c_msg'[c]
  <2>1. CASE m.client_id = c
    <3>1. k = Len(requests) + 1 /\ n = Len(requests) + 1
      BY <1>1, <1>3, <2>1 DEF InQueue
    <3> QED BY <1>1, <1>3, <2>1, <3>1
  <2>2. CASE m.client_id # c
    BY <1>1, <1>3, <2>2 DEF OneRequest
  <2> QED BY <2>1, <2>2
<1> QED BY <1>2, <1>3 DEF OneRequest

LEMMA SameOrder ==
  ASSUME NEW c, InOrder(c), Sent(c)' = Sent(c), c_msg'[c] = c_msg[c],
         Sent(c) = <<>> \/ c_msg[c] \in ControlRequests
  PROVE  InOrder(c)'
<1>1. CASE Sent(c) = <<>>
  BY <1>1 DEF InOrder
<1>2. CASE c_msg[c] \in ControlRequests
  <2>1. ReplyTo(c_msg[c])' = ReplyTo(c_msg[c])
    BY <1>2, ReplyFixed
  <2> QED BY <2>1 DEF InOrder, Confirmed, Completed
<1> QED BY <1>1, <1>2

LEMMA QuietSent ==
  ASSUME QueuesTypeOK, ClientsTypeOK, NEW c \in Controls, AsksOnce(c),
         Quiet(c) \/ InQueue(c)
  PROVE  /\ Sent(c) = <<>> /\ heard[c] = <<>> /\ answers[c] = <<>>
         /\ client_mq_server # c
<1>1. heard[c] = <<>> /\ answers[c] = <<>> /\ client_mq_server # c
  BY DEF AsksOnce
<1> QED BY <1>1, SentType, EmptyConcat DEF Sent

\* A client that is not the one that moves
LEMMA OtherOK ==
  ASSUME IInv, NEW c \in Clients, UNCHANGED serverVars,
         UNCHANGED <<client_mq_server, pc[c], c_msg[c], exit_value[c], answers[c]>>,
         c \in Controls => heard'[c] = heard[c],
         c \in exists' <=> c \in exists,
         \/ UNCHANGED requests
         \/ \E m \in ClientReq : m.client_id # c /\ requests' = Append(requests, m)
  PROVE  /\ QuietUnheard(c)' /\ NoneLeft(c)'
         /\ c \in Controls => ControlOK(c)'
<1>1. InQueue(c)' => InQueue(c)
  <2>1. CASE UNCHANGED requests
    BY <2>1 DEF InQueue
  <2>2. ASSUME NEW m \in ClientReq, m.client_id # c, requests' = Append(requests, m)
        PROVE  InQueue(c)' => InQueue(c)
    BY <2>2, MoreRequests DEF IInv, TypeOK
  <2> QED BY <2>1, <2>2
<1>2. Quiet(c)' = Quiet(c)
  BY DEF Quiet
<1>3. QuietUnheard(c)' /\ NoneLeft(c)'
  BY <1>1, <1>2 DEF IInv, QuietUnheard, NoneLeft
<1>4. ASSUME c \in Controls
      PROVE  ControlOK(c)'
  <2>1. ControlOK(c)
    BY <1>4 DEF IInv
  <2>2. InOrder(c)' /\ Ended(c)' /\ Sent(c)' = Sent(c)
    BY <1>4, <2>1, SameSent DEF IInv, TypeOK
  <2>3. OneRequest(c)'
    <3>1. CASE UNCHANGED requests
      BY <2>1, <3>1 DEF ControlOK, AsksOnce, OneRequest
    <3>2. ASSUME NEW m \in ClientReq, m.client_id # c, requests' = Append(requests, m)
          PROVE  OneRequest(c)'
      BY <2>1, <3>2, MoreRequests DEF IInv, TypeOK, ControlOK, AsksOnce
    <3> QED BY <3>1, <3>2
  <2>4. AsksOnce(c)'
    BY <1>1, <1>2, <1>4, <2>1, <2>3 DEF ControlOK, AsksOnce
  <2>5. Addressed(c)'
    <3>1. CASE Quiet(c)
      BY <1>4, <2>1, <3>1, QuietSent DEF ControlOK, IInv, TypeOK, Addressed
    <3>2. CASE ~Quiet(c)
      <4>1. ReplyTo(c_msg[c])' = ReplyTo(c_msg[c])
        BY <1>4, <2>1, <3>2, NotQuiet, ReplyFixed DEF IInv, TypeOK
      <4> QED BY <2>1, <2>2, <4>1 DEF ControlOK, Addressed, serverVars, sessionVars
    <3> QED BY <3>1, <3>2
  <2> QED BY <2>2, <2>4, <2>5 DEF ControlOK
<1> QED BY <1>3, <1>4

\* What holds of a client's own step whatever it is
LEMMA OwnStep ==
  ASSUME IInv, NEW c \in Clients, UNCHANGED client_mq_server,
         Quiet(c)' => Quiet(c) /\ UNCHANGED <<requests, answers>>,
         exit_value'[c] = "success" => c \notin exists'
  PROVE  QuietUnheard(c)' /\ NoneLeft(c)'
<1>1. QuietUnheard(c)'
  BY DEF IInv, QuietUnheard, InQueue
<1>2. exit_value'[c] = "failure" => Quiet(c)'
  BY DEF Quiet
<1> QED BY <1>1, <1>2 DEF NoneLeft, QuietUnheard

\* What a process does first: it opens its queues, or it fails.
LEMMA StartOK ==
  ASSUME IInv, NEW c \in Clients, pc[c] = "off", UNCHANGED serverVars,
         UNCHANGED <<requests, answers, client_mq_server, heard>>,
         \/ pc'[c] = "sending" /\ exit_value'[c] = exit_value[c]
            /\ IF c \in Controls THEN c_msg'[c] \in ControlRequests
                                 ELSE c_msg'[c] = "CLIENT_INIT"
         \/ pc'[c] = "gone" /\ exit_value'[c] = "failure"
  PROVE  /\ QuietUnheard(c)' /\ NoneLeft(c)'
         /\ c \in Controls => ControlOK(c)'
<1>1. Quiet(c) /\ exit_value[c] = "none"
  BY DEF Quiet, IInv, TypeOK, ClientsTypeOK
<1>2. Quiet(c)' /\ exit_value'[c] # "success" /\ pc'[c] # "leaving"
  BY <1>1 DEF Quiet
<1>3. QuietUnheard(c)' /\ NoneLeft(c)'
  BY <1>1, <1>2, OwnStep
<1>4. ASSUME c \in Controls
      PROVE  ControlOK(c)'
  <2>1. AsksOnce(c) /\ ~InQueue(c)
    BY <1>1, <1>4 DEF IInv, ControlOK, QuietUnheard
  <2>2. /\ Sent(c) = <<>> /\ heard[c] = <<>> /\ answers[c] = <<>>
        /\ client_mq_server # c
    BY <1>1, <1>4, <2>1, QuietSent DEF IInv, TypeOK
  <2>3. AsksOnce(c)'
    BY <1>4, <2>1, <2>2 DEF AsksOnce, InQueue, OneRequest
  <2>4. InOrder(c)' /\ Addressed(c)' /\ Ended(c)'
    BY <1>2, <2>2 DEF Sent, InOrder, Addressed, Ended
  <2> QED BY <2>3, <2>4 DEF ControlOK
<1> QED BY <1>3, <1>4

\* The end of main removes the queue.
LEMMA RemoveOK ==
  ASSUME IInv, NEW c \in Clients, Remove(c), UNCHANGED serverVars
  PROVE  /\ QuietUnheard(c)' /\ NoneLeft(c)'
         /\ c \in Controls => ControlOK(c)'
<1>1. /\ pc[c] = "leaving" /\ pc'[c] = "gone" /\ exit_value'[c] = "success"
      /\ c \notin exists' /\ answers'[c] = <<>>
      /\ UNCHANGED <<requests, client_mq_server, c_msg, heard>>
  BY DEF Remove, msg_remove_client_mq, End, Go, IInv, TypeOK, ClientsTypeOK, QueuesTypeOK
<1>2. QuietUnheard(c)' /\ NoneLeft(c)'
  BY <1>1, OwnStep DEF Quiet
<1>3. ASSUME c \in Controls
      PROVE  ControlOK(c)'
  <2>1. ControlOK(c) /\ Completed(c, heard[c])
    BY <1>1, <1>3 DEF IInv, ControlOK, Ended
  <2>2. heard[c] # <<>> /\ Sent(c)' = heard[c] /\ Sent(c) # <<>>
    <3>1. heard[c] \in Seq(ServerRsp) /\ answers[c] \in Seq(ServerRsp) /\ heard[c] # <<>>
      BY <1>3, <2>1, SentType, EmptyType DEF IInv, TypeOK, Completed, Confirmed
    <3>2. Sent(c)' = heard[c] \o <<>> /\ <<>> \in Seq(ServerRsp)
      BY <1>1, EmptyType DEF Sent
    <3> QED BY <3>1, <3>2, EmptyConcat DEF Sent
  <2>3. ~Quiet(c) /\ ~InQueue(c)
    BY <2>1, <2>2 DEF ControlOK, AsksOnce
  <2>4. AsksOnce(c)'
    BY <1>1, <2>1, <2>3 DEF ControlOK, AsksOnce, Quiet, InQueue, OneRequest
  <2>5. Completed(c, heard[c])'
    <3>1. ReplyTo(c_msg[c])' = ReplyTo(c_msg[c])
      BY <1>1, <1>3, <2>1, <2>3, NotQuiet, ReplyFixed DEF IInv, TypeOK
    <3> QED BY <1>1, <2>1, <3>1 DEF Completed, Confirmed
  <2>6. InOrder(c)' /\ Ended(c)'
    BY <1>1, <2>2, <2>5 DEF InOrder, Ended
  <2>7. Addressed(c)'
    BY <1>1, <2>1, <2>2 DEF ControlOK, Addressed, serverVars
  <2> QED BY <2>4, <2>6, <2>7 DEF ControlOK
<1> QED BY <1>2, <1>3

LEMMA KillOK ==
  ASSUME IInv, NEW c \in Clients, Kill(c), UNCHANGED serverVars
  PROVE  /\ QuietUnheard(c)' /\ NoneLeft(c)'
         /\ c \in Controls => ControlOK(c)'
<1>1. /\ pc[c] \in {"sending", "waiting", "leaving"} /\ exit_value[c] = "none"
      /\ pc'[c] = "gone" /\ exit_value'[c] = "killed"
      /\ UNCHANGED <<requests, answers, exists, client_mq_server, c_msg, heard>>
  BY DEF Kill, End, Go, queueVars, IInv, TypeOK, ClientsTypeOK
<1>2. ~Quiet(c)'
  BY <1>1 DEF Quiet
<1>3. QuietUnheard(c)' /\ NoneLeft(c)'
  BY <1>1, <1>2, OwnStep
<1>4. ASSUME c \in Controls
      PROVE  ControlOK(c)'
  <2>1. ControlOK(c) /\ c_msg[c] \in ControlRequests
    BY <1>1, <1>4 DEF IInv, ControlOK, AsksOnce
  <2>2. AsksOnce(c)'
    BY <1>1, <1>2, <2>1 DEF ControlOK, AsksOnce, InQueue, OneRequest
  <2>3. Sent(c)' = Sent(c) /\ ReplyTo(c_msg[c])' = ReplyTo(c_msg[c])
    BY <1>1, <2>1, ReplyFixed DEF Sent
  <2>4. InOrder(c)'
    BY <1>1, <2>1, <2>3, SameOrder DEF ControlOK
  <2>5. Addressed(c)' /\ Ended(c)'
    BY <1>1, <2>1, <2>3 DEF ControlOK, Addressed, Ended, serverVars, sessionVars
  <2> QED BY <2>2, <2>4, <2>5 DEF ControlOK
<1> QED BY <1>3, <1>4

LEMMA ConsoleOwnOK ==
  ASSUME IInv, NEW c \in Consoles, UNCHANGED serverVars,
         \/ ConsoleStart(c) \/ ConsoleSend(c) \/ ConsolePoll(c) \/ ConsoleSigint(c)
         \/ \E k \in Keys : ConsoleKey(c, k)
  PROVE  QuietUnheard(c)' /\ NoneLeft(c)'
<1>0. c \in Clients /\ c \notin Controls
  BY QueuesAssumption DEF Clients
<1>1. ASSUME pc[c] \in {"sending", "waiting"}, UNCHANGED <<client_mq_server, c_msg>>,
             \/ pc'[c] \in {"sending", "waiting", "leaving"} /\ exit_value'[c] = exit_value[c]
             \/ pc'[c] = "gone" /\ exit_value'[c] = "failure"
                /\ pc[c] = "sending" /\ c_msg[c] = "CLIENT_INIT",
             pc'[c] = "sending" => pc[c] = "sending",
             pc'[c] \notin {"sending", "gone"} \/ UNCHANGED <<requests, answers>>
      PROVE  QuietUnheard(c)' /\ NoneLeft(c)'
  <2>1. exit_value[c] = "none"
    BY <1>0, <1>1 DEF IInv, TypeOK, ClientsTypeOK
  <2>2. Quiet(c)' => Quiet(c) /\ UNCHANGED <<requests, answers>>
    BY <1>0, <1>1, <2>1 DEF Quiet
  <2> QED BY <1>0, <1>1, <2>1, <2>2, OwnStep
<1>2. CASE ConsoleStart(c)
  <2>1. /\ pc[c] = "off"
        /\ UNCHANGED <<requests, answers, client_mq_server, heard>>
        /\ \/ pc'[c] = "sending" /\ exit_value'[c] = exit_value[c] /\ c_msg'[c] = "CLIENT_INIT"
           \/ pc'[c] = "gone" /\ exit_value'[c] = "failure"
    BY <1>0, <1>2 DEF ConsoleStart, OpenQueues, Sends, End, Go, queueVars, IInv, TypeOK,
       ClientsTypeOK
  <2> QED BY <1>0, <2>1, StartOK
<1>3. CASE ConsoleSend(c)
  <2>1. /\ pc[c] = "sending" /\ UNCHANGED <<client_mq_server, c_msg, answers>>
        /\ \/ UNCHANGED requests /\ SendFails(c)
           \/ NextKey(c)
    BY <1>3 DEF ConsoleSend, msg_send_to_server, queueVars
  <2>2. NextKey(c) => pc'[c] \in {"waiting", "leaving"} /\ exit_value'[c] = exit_value[c]
    BY <1>0 DEF NextKey, Leave, Go, IInv, TypeOK, ClientsTypeOK
  <2>3. SendFails(c) => \/ NextKey(c)
                        \/ /\ pc'[c] = "gone" /\ exit_value'[c] = "failure"
                           /\ c_msg[c] = "CLIENT_INIT"
    BY <1>0 DEF SendFails, End, Go, IInv, TypeOK, ClientsTypeOK
  <2> QED BY <1>1, <2>1, <2>2, <2>3
<1>4. CASE ConsolePoll(c)
  <2>1. /\ pc[c] = "waiting" /\ UNCHANGED <<client_mq_server, c_msg>>
        /\ Leave(c) \/ UNCHANGED <<pc, exit_value>>
    BY <1>4 DEF ConsolePoll, msg_rcv_from_server
  <2>2. pc'[c] \in {"waiting", "leaving"} /\ exit_value'[c] = exit_value[c]
    BY <1>0, <2>1 DEF Leave, Go, IInv, TypeOK, ClientsTypeOK
  <2> QED BY <1>1, <2>1, <2>2
<1>5. CASE ConsoleSigint(c)
  <2>1. /\ pc[c] \in {"sending", "waiting"} /\ UNCHANGED <<queueVars, c_msg>>
        /\ \/ pc[c] = "sending" /\ c_msg[c] = "CLIENT_INIT" /\ End(c, "failure")
           \/ Leave(c)
           \/ UNCHANGED <<pc, exit_value>>
    BY <1>5 DEF ConsoleSigint, InMsgsnd
  <2>2. \/ pc'[c] = "gone" /\ exit_value'[c] = "failure"
           /\ pc[c] = "sending" /\ c_msg[c] = "CLIENT_INIT"
        \/ pc'[c] \in {pc[c], "leaving"} /\ exit_value'[c] = exit_value[c]
    BY <1>0, <2>1 DEF Leave, End, Go, IInv, TypeOK, ClientsTypeOK
  <2> QED BY <1>1, <2>1, <2>2 DEF queueVars
<1>6. ASSUME NEW k \in Keys, ConsoleKey(c, k)
      PROVE  QuietUnheard(c)' /\ NoneLeft(c)'
  <2>1. /\ pc[c] = "waiting" /\ UNCHANGED queueVars
        /\ \/ k \in {"h", "l", "r", "x"} /\ Sends(c, RequestOf(k)) /\ UNCHANGED exit_value
           \/ (Leave(c) \/ NextKey(c)) /\ UNCHANGED c_msg
    BY <1>6 DEF ConsoleKey
  <2>2. exit_value[c] = "none"
    BY <1>0, <2>1 DEF IInv, TypeOK, ClientsTypeOK
  <2>3. ~Quiet(c)' /\ exit_value'[c] = "none"
    <3>1. CASE k \in {"h", "l", "r", "x"} /\ Sends(c, RequestOf(k)) /\ UNCHANGED exit_value
      <4>1. RequestOf(k) # "CLIENT_INIT"
        BY <3>1 DEF RequestOf
      <4>2. pc'[c] = "sending" /\ c_msg'[c] = RequestOf(k) /\ exit_value'[c] = "none"
        BY <1>0, <2>2, <3>1 DEF Sends, Go, IInv, TypeOK, ClientsTypeOK
      <4> QED BY <1>0, <4>1, <4>2 DEF Quiet
    <3>2. CASE Leave(c) \/ NextKey(c)
      BY <1>0, <2>2, <3>2 DEF Leave, NextKey, Go, Quiet, IInv, TypeOK, ClientsTypeOK
    <3> QED BY <2>1, <3>1, <3>2
  <2> QED BY <1>0, <2>1, <2>3, OwnStep DEF queueVars
<1> QED BY <1>2, <1>3, <1>4, <1>5, <1>6

LEMMA ControlSendOK ==
  ASSUME IInv, NEW c \in Controls, UNCHANGED serverVars, ControlSend(c)
  PROVE  QuietUnheard(c)' /\ NoneLeft(c)' /\ ControlOK(c)'
<1>0. c \in Clients
  BY DEF Clients
<1>1. /\ pc[c] = "sending" /\ exit_value[c] = "none"
      /\ UNCHANGED <<answers, client_mq_server, c_msg, heard>>
      /\ \/ pc'[c] = "gone" /\ exit_value'[c] = "failure" /\ UNCHANGED requests
         \/ pc'[c] = "waiting" /\ exit_value'[c] = "none"
            /\ requests' = Append(requests, Message(c))
  BY <1>0 DEF ControlSend, msg_send_to_server, End, Go, queueVars, IInv, TypeOK, ClientsTypeOK
<1>2. Quiet(c) /\ (Quiet(c)' => UNCHANGED requests)
  BY <1>1 DEF Quiet
<1>3. QuietUnheard(c)' /\ NoneLeft(c)'
  BY <1>0, <1>1, <1>2, OwnStep
<1>4. AsksOnce(c) /\ ~InQueue(c) /\ c_msg[c] \in ControlRequests
  BY <1>0, <1>1, <1>2 DEF IInv, ControlOK, AsksOnce, QuietUnheard
<1>5. /\ Sent(c) = <<>> /\ heard[c] = <<>> /\ answers[c] = <<>>
      /\ client_mq_server # c
  BY <1>2, <1>4, QuietSent DEF IInv, TypeOK
<1>6. AsksOnce(c)'
  <2>1. CASE UNCHANGED requests
    BY <1>1, <1>4, <1>5, <2>1 DEF AsksOnce, OneRequest
  <2>2. CASE requests' = Append(requests, Message(c))
    <3>1. Message(c) \in ClientReq /\ Message(c).mtype = c_msg[c]
      BY <1>0, <1>1, MessageType DEF Message, IInv, TypeOK
    <3>2. OneRequest(c)'
      BY <1>0, <1>1, <1>4, <2>2, <3>1, MoreRequests DEF IInv, TypeOK, AsksOnce
    <3> QED BY <1>1, <1>4, <1>5, <3>2 DEF AsksOnce
  <2> QED BY <1>1, <2>1, <2>2
<1>7. InOrder(c)' /\ Addressed(c)' /\ Ended(c)'
  BY <1>1, <1>5 DEF Sent, InOrder, Addressed, Ended
<1> QED BY <1>3, <1>6, <1>7 DEF ControlOK

\* The completion is the second answer.
LEMMA ControlReceiveOK ==
  ASSUME IInv, NEW c \in Controls, UNCHANGED serverVars, ControlReceive(c)
  PROVE  QuietUnheard(c)' /\ NoneLeft(c)' /\ ControlOK(c)'
<1>0. c \in Clients
  BY DEF Clients
<1> DEFINE h == Append(heard[c], Head(answers[c]))
<1>1. /\ pc[c] = "waiting" /\ exit_value[c] = "none" /\ answers[c] # <<>>
      /\ answers'[c] = Tail(answers[c]) /\ heard'[c] = h
      /\ UNCHANGED <<requests, client_mq_server, c_msg, exists>>
      /\ exit_value'[c] = "none"
      /\ \/ pc'[c] = "leaving" /\ Head(answers[c]).mtype = "SERVER_ACTION_SUCCESS"
         \/ pc'[c] = "waiting"
  BY <1>0 DEF ControlReceive, msg_rcv_from_server, Leave, Go, IInv, TypeOK, ClientsTypeOK,
     QueuesTypeOK
<1>2. ~Quiet(c) /\ ~Quiet(c)'
  BY <1>1 DEF Quiet
<1>3. QuietUnheard(c)' /\ NoneLeft(c)'
  BY <1>0, <1>1, <1>2, OwnStep
<1>4. ControlOK(c) /\ c_msg[c] \in ControlRequests
  BY <1>1 DEF IInv, ControlOK, AsksOnce
<1>5. ~InQueue(c)
  BY <1>1, <1>4 DEF ControlOK, AsksOnce
<1>6. AsksOnce(c)'
  BY <1>1, <1>2, <1>4, <1>5 DEF ControlOK, AsksOnce, InQueue, OneRequest
<1>7. heard[c] \in Seq(ServerRsp) /\ answers[c] \in Seq(ServerRsp) /\ Sent(c) \in Seq(ServerRsp)
  BY SentType DEF IInv, TypeOK
<1>8. Sent(c) = h \o Tail(answers[c])
  BY <1>1, <1>7, ConcatShift DEF Sent
<1>9. Sent(c)' = Sent(c) /\ ReplyTo(c_msg[c])' = ReplyTo(c_msg[c])
  BY <1>1, <1>4, <1>8, ReplyFixed DEF Sent
<1>10. InOrder(c)'
  BY <1>1, <1>4, <1>9, SameOrder DEF ControlOK
<1>11. Addressed(c)'
  BY <1>1, <1>4, <1>9 DEF ControlOK, Addressed, serverVars, sessionVars
<1>12. Ended(c)'
  <2>1. SUFFICES ASSUME Head(answers[c]).mtype = "SERVER_ACTION_SUCCESS"
                 PROVE  Completed(c, h)
    BY <1>1, <1>9 DEF Ended, Completed, Confirmed
  <2>2. /\ h \in Seq(ServerRsp) /\ Len(h) = Len(heard[c]) + 1
        /\ h[Len(h)] = Head(answers[c])
    <3>1. Head(answers[c]) \in ServerRsp
      BY <1>1, <1>7, TailType
    <3> QED BY <1>7, <3>1, AppendType, AppendCells
  <2>3. /\ Len(h) \in Nat /\ Len(h) >= 1 /\ Len(h) <= Len(Sent(c))
        /\ \A n \in 1..Len(h) : h[n] = Sent(c)[n]
    <3>1. Tail(answers[c]) \in Seq(ServerRsp)
      BY <1>1, <1>7, TailType
    <3>2. /\ Len(h) \in Nat /\ Len(h) <= Len(h \o Tail(answers[c]))
          /\ \A n \in 1..Len(h) : (h \o Tail(answers[c]))[n] = h[n]
      BY <2>2, <3>1, ConcatCells, Zenon
    <3>3. Len(h) >= 1
      BY <1>7, <2>2
    <3> QED BY <1>8, <3>2, <3>3
  <2> HIDE DEF h
  <2>4. Sent(c) # <<>> /\ Confirmed(c, Sent(c))
    BY <1>4, <1>7, <2>3, EmptyType DEF ControlOK, InOrder, Completed
  <2>5. Len(h) # 1
    BY <1>4, <2>1, <2>2, <2>3, <2>4, ReplyFixed DEF Confirmed
  <2>6. Len(Sent(c)) \in {1, 2}
    BY <2>4 DEF Confirmed
  <2>7. \A m, n \in Nat : m >= 1 /\ m # 1 /\ m <= n /\ n \in {1, 2} => m = 2
    OBVIOUS
  <2>8. Len(h) = 2
    BY <1>7, <2>3, <2>5, <2>6, <2>7, SentType, Zenon DEF IInv, TypeOK
  <2>9. h[2] = Head(answers[c])
    BY <2>2, <2>8
  <2>10. h[1] = ReplyTo(c_msg[c])
    <3>1. 1 \in 1..Len(h)
      BY <2>8
    <3> QED BY <2>3, <2>4, <3>1 DEF Confirmed
  <2> QED BY <2>1, <2>8, <2>9, <2>10 DEF Completed, Confirmed
<1> QED BY <1>3, <1>6, <1>10, <1>11, <1>12 DEF ControlOK

LEMMA ControlOwnOK ==
  ASSUME IInv, NEW c \in Controls, UNCHANGED serverVars,
         ControlSend(c) \/ ControlReceive(c) \/ \E a \in Arguments : ControlStart(c, a)
  PROVE  QuietUnheard(c)' /\ NoneLeft(c)' /\ ControlOK(c)'
<1>1. ASSUME NEW a \in Arguments, ControlStart(c, a)
      PROVE  QuietUnheard(c)' /\ NoneLeft(c)' /\ ControlOK(c)'
  <2>0. c \in Clients
    BY DEF Clients
  <2>1. a \in {"h", "l", "r"} => RequestOf(a) \in ControlRequests
    BY DEF RequestOf, ControlRequests
  <2>2. /\ pc[c] = "off"
        /\ UNCHANGED <<requests, answers, client_mq_server, heard>>
        /\ \/ pc'[c] = "sending" /\ exit_value'[c] = exit_value[c] /\ c_msg'[c] \in ControlRequests
           \/ pc'[c] = "gone" /\ exit_value'[c] = "failure"
    BY <1>1, <2>0, <2>1 DEF ControlStart, OpenQueues, Sends, End, Go, queueVars, IInv, TypeOK,
       ClientsTypeOK
  <2> QED BY <2>0, <2>2, StartOK
<1> QED BY <1>1, ControlSendOK, ControlReceiveOK

-----------------------------------------------------------------------------
(* The composition *)

\* A step of the client d touches nothing of the other clients, and puts no
\* more than a request of its own into the engine's queue.
Alone(d) ==
  /\ UNCHANGED client_mq_server
  /\ \A c \in Clients \ {d} :
       /\ UNCHANGED <<pc[c], c_msg[c], exit_value[c], answers[c]>>
       /\ c \in Controls => heard'[c] = heard[c]
       /\ c \in exists' <=> c \in exists
  /\ \/ UNCHANGED requests
     \/ \E m \in ClientReq : m.client_id = d /\ requests' = Append(requests, m)

LEMMA ConsoleAlone ==
  ASSUME IInv, NEW d \in Consoles, ConsoleStep(d) \/ \E k \in Keys : ConsoleKey(d, k)
  PROVE  Alone(d)
<1> USE DEF IInv, TypeOK, QueuesTypeOK, ClientsTypeOK
<1>0. d \in Clients
  BY DEF Clients
<1>1. CASE ConsoleStart(d)
  BY <1>0, <1>1 DEF ConsoleStart, OpenQueues, Sends, End, Go, queueVars, Alone
<1>2. CASE ConsoleSend(d)
  <2>1. Message(d) \in ClientReq /\ Message(d).client_id = d
    BY <1>0, <1>2, MessageType DEF ConsoleSend, Message
  <2>2. UNCHANGED <<client_mq_server, c_msg, heard, exists, answers>>
        /\ (UNCHANGED requests \/ requests' = Append(requests, Message(d)))
    BY <1>2 DEF ConsoleSend, msg_send_to_server, queueVars
  <2>3. \A c \in Clients \ {d} : UNCHANGED <<pc[c], exit_value[c]>>
    BY <1>0, <1>2 DEF ConsoleSend, SendFails, NextKey, Leave, End, Go
  <2> QED BY <2>1, <2>2, <2>3 DEF Alone
<1>3. CASE ConsolePoll(d)
  BY <1>0, <1>3 DEF ConsolePoll, msg_rcv_from_server, Leave, Go, Alone
<1>4. CASE ConsoleSigint(d)
  BY <1>0, <1>4 DEF ConsoleSigint, InMsgsnd, Leave, End, Go, queueVars, Alone
<1>5. CASE Remove(d)
  BY <1>0, <1>5 DEF Remove, msg_remove_client_mq, End, Go, Alone
<1>6. ASSUME NEW k \in Keys, ConsoleKey(d, k)
      PROVE  Alone(d)
  BY <1>0, <1>6 DEF ConsoleKey, Sends, NextKey, Leave, Go, queueVars, Alone
<1> QED BY <1>1, <1>2, <1>3, <1>4, <1>5, <1>6 DEF ConsoleStep

LEMMA ControlAlone ==
  ASSUME IInv, NEW d \in Controls, ControlStep(d)
  PROVE  Alone(d)
<1> USE DEF IInv, TypeOK, QueuesTypeOK, ClientsTypeOK
<1>0. d \in Clients
  BY DEF Clients
<1>1. ASSUME NEW a \in Arguments, ControlStart(d, a)
      PROVE  Alone(d)
  BY <1>0, <1>1 DEF ControlStart, OpenQueues, Sends, End, Go, queueVars, Alone
<1>2. CASE ControlSend(d)
  <2>1. Message(d) \in ClientReq /\ Message(d).client_id = d
    BY <1>0, <1>2, MessageType DEF ControlSend, Message
  <2>2. UNCHANGED <<client_mq_server, c_msg, heard, exists, answers>>
        /\ (UNCHANGED requests \/ requests' = Append(requests, Message(d)))
    BY <1>2 DEF ControlSend, msg_send_to_server, queueVars
  <2>3. \A c \in Clients \ {d} : UNCHANGED <<pc[c], exit_value[c]>>
    BY <1>0, <1>2 DEF ControlSend, End, Go
  <2> QED BY <2>1, <2>2, <2>3 DEF Alone
<1>3. CASE ControlReceive(d)
  BY <1>0, <1>3 DEF ControlReceive, msg_rcv_from_server, Leave, Go, Alone
<1>4. CASE Remove(d)
  BY <1>0, <1>4 DEF Remove, msg_remove_client_mq, End, Go, Alone
<1> QED BY <1>1, <1>2, <1>3, <1>4 DEF ControlStep

LEMMA KillAlone ==
  ASSUME IInv, NEW d \in Clients, Kill(d)
  PROVE  Alone(d)
BY DEF IInv, TypeOK, QueuesTypeOK, ClientsTypeOK, Kill, End, Go, queueVars, Alone

\* What is invariant for the client that moves is invariant for all.
LEMMA AloneOK ==
  ASSUME IInv, NEW d \in Clients, Alone(d), UNCHANGED serverVars,
         QuietUnheard(d)' /\ NoneLeft(d)', d \in Controls => ControlOK(d)'
  PROVE  /\ \A c \in Clients : QuietUnheard(c)' /\ NoneLeft(c)'
         /\ \A c \in Controls : ControlOK(c)'
<1>1. ASSUME NEW c \in Clients, c # d
      PROVE  /\ QuietUnheard(c)' /\ NoneLeft(c)'
             /\ c \in Controls => ControlOK(c)'
  BY <1>1, OtherOK DEF Alone
<1> QED BY <1>1 DEF Clients

LEMMA ClientOK ==
  ASSUME IInv, ClientStep, UNCHANGED serverVars
  PROVE  /\ \A c \in Clients : QuietUnheard(c)' /\ NoneLeft(c)'
         /\ \A c \in Controls : ControlOK(c)'
<1>0. /\ Consoles \subseteq Clients /\ Controls \subseteq Clients
      /\ Killable \subseteq Clients /\ Consoles \cap Controls = {}
  BY QueuesAssumption, ServiceAssumption DEF Clients
<1>1. ASSUME NEW d \in Consoles, ConsoleStep(d) \/ \E k \in Keys : ConsoleKey(d, k)
      PROVE  /\ \A c \in Clients : QuietUnheard(c)' /\ NoneLeft(c)'
             /\ \A c \in Controls : ControlOK(c)'
  <2>1. QuietUnheard(d)' /\ NoneLeft(d)'
    BY <1>0, <1>1, ConsoleOwnOK, RemoveOK DEF ConsoleStep
  <2>2. Alone(d)
    BY <1>1, ConsoleAlone
  <2> QED BY <1>0, <2>1, <2>2, AloneOK
<1>2. ASSUME NEW d \in Controls, ControlStep(d)
      PROVE  /\ \A c \in Clients : QuietUnheard(c)' /\ NoneLeft(c)'
             /\ \A c \in Controls : ControlOK(c)'
  <2>1. QuietUnheard(d)' /\ NoneLeft(d)' /\ ControlOK(d)'
    BY <1>0, <1>2, ControlOwnOK, RemoveOK DEF ControlStep
  <2>2. Alone(d)
    BY <1>2, ControlAlone
  <2> QED BY <1>0, <2>1, <2>2, AloneOK
<1>3. ASSUME NEW d \in Killable, Kill(d)
      PROVE  /\ \A c \in Clients : QuietUnheard(c)' /\ NoneLeft(c)'
             /\ \A c \in Controls : ControlOK(c)'
  BY <1>0, <1>3, KillOK, KillAlone, AloneOK
<1> QED BY <1>1, <1>2, <1>3 DEF ClientStep

LEMMA IInvInit == Init => IInv
<1> SUFFICES ASSUME Init PROVE IInv
  OBVIOUS
<1> USE DEF Init, QueuesInit, ServerInit, ClientsInit
<1>1. TypeOK
  BY InitType
<1>2. AddressKnown /\ Notices
  BY DEF AddressKnown, Sending, Notices, S!Fresh
<1>3. Controls \subseteq Clients /\ NoClient \notin Clients
  BY QueuesAssumption DEF Clients
<1>4. ASSUME NEW c \in Clients
      PROVE  QuietUnheard(c) /\ NoneLeft(c)
  <2>1. 1..Len(requests) = {}
    BY EmptyType
  <2> QED BY <1>3, <2>1 DEF QuietUnheard, InQueue, NoneLeft
<1>5. ASSUME NEW c \in Controls
      PROVE  ControlOK(c)
  <2>1. 1..Len(requests) = {}
    BY EmptyType
  <2>2. pc[c] = "off" /\ heard[c] = <<>> /\ answers[c] = <<>> /\ client_mq_server # c
        /\ exit_value[c] = "none"
    BY <1>3
  <2>3. AsksOnce(c)
    BY <2>1, <2>2 DEF AsksOnce, OneRequest
  <2>4. Sent(c) = <<>>
    BY <1>1, <2>2, SentType, EmptyConcat DEF Sent, TypeOK
  <2> QED BY <2>2, <2>3, <2>4 DEF ControlOK, InOrder, Addressed, Ended
<1> QED BY <1>1, <1>2, <1>4, <1>5 DEF IInv

LEMMA IInvNext == IInv /\ [Next]_vars => IInv'
<1> SUFFICES ASSUME IInv, [Next]_vars
             PROVE  IInv'
  OBVIOUS
<1>0. TypeOK'
  BY NextType DEF IInv
<1>1. CASE (EngineStep \/ Die) /\ UNCHANGED clientVars
  BY <1>0, <1>1, EngineOK DEF IInv
<1>2. CASE ClientStep /\ UNCHANGED serverVars
  <2>1. AddressKnown' /\ Notices'
    BY <1>2, ClientStepLeaves DEF serverVars, sessionVars, IInv, AddressKnown, Sending, Notices
  <2> QED BY <1>0, <1>2, <2>1, ClientOK DEF IInv
<1>3. CASE UNCHANGED vars
  <2>1. UNCHANGED serverVars /\ UNCHANGED queueVars /\ UNCHANGED clientVars
    BY <1>3 DEF vars
  <2>2. AddressKnown' /\ Notices'
    BY <2>1 DEF queueVars, serverVars, sessionVars, IInv, AddressKnown, Sending, Notices
  <2>3. ASSUME NEW c \in Clients
        PROVE  /\ QuietUnheard(c)' /\ NoneLeft(c)'
               /\ c \in Controls => ControlOK(c)'
    BY <2>1, OtherOK DEF queueVars, clientVars
  <2> QED BY <1>0, <2>2, <2>3 DEF IInv, Clients
<1> QED BY <1>1, <1>2, <1>3, Steps DEF ClientsRest

LEMMA IInvHolds == Spec => []IInv
BY IInvInit, IInvNext, PTL DEF Spec

-----------------------------------------------------------------------------
(* Theorems *)

\* The engine sends only to a client it has heard of since it was started:
\* client_mq_server is never used as the 0 it starts with.
THEOREM AddressIsKnown == Spec => []AddressKnown
<1>1. IInv => AddressKnown
  BY DEF IInv
<1> QED BY <1>1, IInvHolds, PTL

\* A control that ends with success has heard its own confirmation and one
\* completion behind it, with any number of clients and deaths in between.
THEOREM ConfirmationFirst == Spec => []ConfirmedFirst
<1>1. IInv => ConfirmedFirst
  BY DEF IInv, ConfirmedFirst, ControlOK, Ended, Completed, Confirmed
<1> QED BY <1>1, IInvHolds, PTL

\* Queues that nobody removes belong to clients that were killed or failed, and
\* those of the latter stay empty.
THEOREM OnlyFailuresLeft == Spec => []LeftBehind
<1>1. IInv => LeftBehind
  BY DEF IInv, LeftBehind, NoneLeft, TypeOK, QueuesTypeOK
<1> QED BY <1>1, IInvHolds, PTL

\* With room for two messages no control makes msg_send_to_client wait.
THEOREM ControlsHoldNothing == Spec => [](Cap >= 2 => ControlNeverHolds)
<1>1. IInv => (Cap >= 2 => ControlNeverHolds)
  <2> SUFFICES ASSUME IInv, Cap >= 2, Sending, client_mq_server \in exists,
                      Len(answers[client_mq_server]) = Cap, client_mq_server \notin Consoles
               PROVE  FALSE
    BY DEF ControlNeverHolds
  <2> DEFINE c == client_mq_server
  <2>1. c \in Controls
    BY DEF IInv, TypeOK, QueuesTypeOK, Clients
  <2>2. /\ heard[c] \in Seq(ServerRsp) /\ answers[c] \in Seq(ServerRsp)
        /\ Addressed(c)
    BY <2>1, SentType DEF IInv, TypeOK, ControlOK
  <2>3. Sent(c) = <<>> \/ Len(Sent(c)) = 1
    BY <2>2 DEF Addressed, Sending
  <2>4. Len(Sent(c)) = Len(heard[c]) + Len(answers[c])
    BY <2>2, ConcatCells, Zenon DEF Sent
  <2>5. Len(answers[c]) <= 1
    BY <2>2, <2>3, <2>4, EmptyType
  <2> QED BY <2>5, CapType
<1> QED BY <1>1, IInvHolds, PTL
=============================================================================
