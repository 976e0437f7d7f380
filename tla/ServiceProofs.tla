---------------------------- MODULE ServiceProofs ---------------------------
(***************************************************************************)
(* The engine, its clients and the queues between them, for every set of   *)
(* clients, every capacity of the queues, and any number of keys and       *)
(* deaths.                                                                 *)
(***************************************************************************)
EXTENDS Service, TLAPS

-----------------------------------------------------------------------------
(* Sequences as queues *)

LEMMA AppendType ==
  ASSUME NEW T, NEW s \in Seq(T), NEW e \in T
  PROVE  Append(s, e) \in Seq(T) /\ Len(Append(s, e)) = Len(s) + 1
OBVIOUS

LEMMA TailType ==
  ASSUME NEW T, NEW s \in Seq(T), s # <<>>
  PROVE  /\ Head(s) \in T
         /\ Tail(s) \in Seq(T) /\ Len(Tail(s)) = Len(s) - 1
OBVIOUS

LEMMA EmptyType ==
  ASSUME NEW T
  PROVE  <<>> \in Seq(T) /\ Len(<<>>) = 0
OBVIOUS

-----------------------------------------------------------------------------
(* Types *)

LEMMA CapType == Cap \in Nat /\ Cap >= 1
BY QueuesAssumption

LEMMA QueuesInitType == QueuesInit => QueuesTypeOK
<1> SUFFICES ASSUME QueuesInit PROVE QueuesTypeOK
  OBVIOUS
<1>1. made \in Nat /\ key \in {0, made} /\ exists \subseteq Clients
  BY DEF QueuesInit
<1>2. requests \in Seq(ClientReq) /\ Len(requests) <= Cap
  BY EmptyType, CapType DEF QueuesInit
<1>3. answers \in [Clients -> Seq(ServerRsp)] /\ \A c \in Clients : Len(answers[c]) <= Cap
  BY EmptyType, CapType DEF QueuesInit
<1>4. server_mq_client \in [Clients -> 0..made]
  BY DEF QueuesInit
<1>5. client_mq_server \in Clients \cup {NoClient}
  BY DEF QueuesInit
<1> QED BY <1>1, <1>2, <1>3, <1>4, <1>5 DEF QueuesTypeOK

\* What changes answers alone
LEMMA AnswersType ==
  ASSUME QueuesTypeOK, NEW c \in Clients, NEW s \in Seq(ServerRsp), Len(s) <= Cap,
         answers' = [answers EXCEPT ![c] = s],
         UNCHANGED <<key, made, requests, exists, client_mq_server, server_mq_client>>
  PROVE  QueuesTypeOK'
<1>1. answers' \in [Clients -> Seq(ServerRsp)] /\ \A d \in Clients : Len(answers'[d]) <= Cap
  BY DEF QueuesTypeOK
<1> QED BY <1>1 DEF QueuesTypeOK

LEMMA CreateType ==
  ASSUME QueuesTypeOK, msg_create_server_mq
  PROVE  QueuesTypeOK' /\ key' # 0
<1>1. CASE key # 0 /\ UNCHANGED <<key, made, requests>>
  BY <1>1 DEF QueuesTypeOK, msg_create_server_mq
<1>2. CASE key = 0 /\ made' = made + 1 /\ key' = made + 1 /\ requests' = <<>>
  <2>1. made \in Nat /\ made' \in Nat /\ key' = made' /\ key' # 0
    BY <1>2 DEF QueuesTypeOK
  <2>2. requests' \in Seq(ClientReq) /\ Len(requests') <= Cap
    BY <1>2, EmptyType, CapType
  <2>3. server_mq_client' \in [Clients -> 0..made']
    <3>1. \A n \in 0..made : n \in 0..made'
      BY <1>2, <2>1
    <3> QED BY <3>1 DEF QueuesTypeOK, msg_create_server_mq
  <2> QED BY <2>1, <2>2, <2>3 DEF QueuesTypeOK, msg_create_server_mq
<1> QED BY <1>1, <1>2 DEF msg_create_server_mq

LEMMA ReceiveType ==
  ASSUME QueuesTypeOK, msg_rcv_from_client
  PROVE  QueuesTypeOK' /\ Head(requests) \in ClientReq
<1>1. /\ Head(requests) \in ClientReq
      /\ requests' \in Seq(ClientReq) /\ Len(requests') = Len(requests) - 1
  BY TailType DEF QueuesTypeOK, msg_rcv_from_client
<1>2. Len(requests') <= Cap
  BY <1>1, CapType DEF QueuesTypeOK
<1>3. client_mq_server' \in Clients
  BY <1>1 DEF msg_rcv_from_client, ClientReq
<1> QED BY <1>1, <1>2, <1>3 DEF QueuesTypeOK, msg_rcv_from_client

LEMMA SendToClientType ==
  ASSUME QueuesTypeOK, NEW rsp \in ServerRsp, msg_send_to_client(rsp)
  PROVE  QueuesTypeOK'
<1>1. CASE UNCHANGED answers
  BY <1>1 DEF QueuesTypeOK, msg_send_to_client
<1>2. CASE ~UNCHANGED answers
  <2>1. client_mq_server \in Clients
    BY <1>2 DEF QueuesTypeOK, msg_send_to_client
  <2> DEFINE s == Append(answers[client_mq_server], rsp)
  <2>2. s \in Seq(ServerRsp) /\ Len(s) = Len(answers[client_mq_server]) + 1
    BY <2>1, AppendType DEF QueuesTypeOK
  <2>3. Len(answers[client_mq_server]) \in Nat /\ Len(answers[client_mq_server]) < Cap
    BY <1>2, <2>1 DEF QueuesTypeOK, msg_send_to_client
  <2>4. Len(s) <= Cap
    BY <2>2, <2>3, CapType
  <2>5. answers' = [answers EXCEPT ![client_mq_server] = s]
    BY <1>2 DEF msg_send_to_client
  <2> HIDE DEF s
  <2> QED BY <2>1, <2>2, <2>4, <2>5, AnswersType DEF msg_send_to_client
<1> QED BY <1>1, <1>2

LEMMA OpenType ==
  ASSUME QueuesTypeOK, NEW c \in Clients, OpenQueues(c)
  PROVE  QueuesTypeOK'
<1>1. key \in 0..made
  BY DEF QueuesTypeOK
<1> QED BY <1>1 DEF QueuesTypeOK, OpenQueues

LEMMA SendToServerType ==
  ASSUME QueuesTypeOK, NEW m \in ClientReq, msg_send_to_server(m)
  PROVE  QueuesTypeOK'
<1>1. requests' \in Seq(ClientReq) /\ Len(requests') = Len(requests) + 1
  BY AppendType DEF QueuesTypeOK, msg_send_to_server
<1>2. Len(requests) \in Nat /\ Len(requests) < Cap
  BY CapType DEF QueuesTypeOK, msg_send_to_server, QueueFull
<1>3. Len(requests') <= Cap
  BY <1>1, <1>2, CapType
<1> QED BY <1>1, <1>3 DEF QueuesTypeOK, msg_send_to_server

LEMMA ReceiveAnswerType ==
  ASSUME QueuesTypeOK, NEW c \in Clients, msg_rcv_from_server(c)
  PROVE  QueuesTypeOK' /\ Head(answers[c]) \in ServerRsp
<1>1. answers[c] \in Seq(ServerRsp) /\ answers[c] # <<>> /\ Len(answers[c]) <= Cap
  BY DEF QueuesTypeOK, msg_rcv_from_server
<1>2. /\ Head(answers[c]) \in ServerRsp
      /\ Tail(answers[c]) \in Seq(ServerRsp)
      /\ Len(Tail(answers[c])) = Len(answers[c]) - 1
  BY <1>1, TailType
<1>3. Len(Tail(answers[c])) <= Cap
  BY <1>1, <1>2, CapType
<1> QED BY <1>2, <1>3, AnswersType DEF msg_rcv_from_server

LEMMA RemoveType ==
  ASSUME QueuesTypeOK, NEW c \in Clients, msg_remove_client_mq(c)
  PROVE  QueuesTypeOK'
<1>1. answers' \in [Clients -> Seq(ServerRsp)]
  BY EmptyType DEF QueuesTypeOK, msg_remove_client_mq
<1>2. \A d \in Clients : Len(answers'[d]) <= Cap
  BY EmptyType, CapType DEF QueuesTypeOK, msg_remove_client_mq
<1> QED BY <1>1, <1>2 DEF QueuesTypeOK, msg_remove_client_mq

-----------------------------------------------------------------------------
(* The steps of the engine are those of Session *)

LEMMA NothingNew == ServerTypeOK /\ phase # "notify" => notice = ""
BY DEF ServerTypeOK

\* A message that is taken is a request of Session, or none at all.
LEMMA TakeRequestStep ==
  ASSUME ServerTypeOK, TakeRequest, Head(requests) \in ClientReq
  PROVE  S!Ask
<1> DEFINE m == Head(requests).mtype
           R == RequestBits(m)
           client == RequestOwes(m)
<1>1. m \in RequestTypes
  BY DEF ClientReq
<1>2. R \subseteq S!Requests
  BY DEF RequestBits, S!Requests
<1>3. client \in BOOLEAN
  BY DEF RequestOwes
<1>4. client => R # {}
  BY <1>1 DEF RequestOwes, RequestBits, RequestTypes
<1>5. asked' = asked \cup R /\ owed' = (owed \/ client)
  BY DEF TakeRequest
<1>6. notice' = "" /\ UNCHANGED <<mode, logging>>
  BY NothingNew DEF TakeRequest, AtHead
<1> HIDE DEF R, client, m
<1> QED BY <1>2, <1>3, <1>4, <1>5, <1>6 DEF S!Ask

LEMMA EngineStepServes ==
  ASSUME QueuesTypeOK, ServerTypeOK, EngineStep \/ Die
  PROVE  S!Live \/ S!Forget \/ UNCHANGED sessionVars
<1>1. CASE TakeRequest
  <2>1. Head(requests) \in ClientReq
    BY <1>1, ReceiveType DEF TakeRequest
  <2> QED BY <1>1, <2>1, TakeRequestStep DEF S!Live
<1>2. CASE NoRequest \/ Restart
  BY <1>2 DEF NoRequest, Restart, sessionVars
<1>3. CASE SendAnswer
  BY <1>3 DEF SendAnswer, S!Live, S!Pass
<1>4. CASE BeginDump \/ EndDump \/ SwitchLog \/ PassBytes
  BY <1>4 DEF BeginDump, EndDump, SwitchLog, PassBytes, S!Live
<1>5. CASE Exit \/ Die
  BY <1>5 DEF Exit, Die, ProcessGone
<1> QED BY <1>1, <1>2, <1>3, <1>4, <1>5 DEF EngineStep

-----------------------------------------------------------------------------
(* Types of the engine *)

LEMMA SessionType ==
  ASSUME S!TypeOK, S!Live \/ S!Forget \/ UNCHANGED sessionVars
  PROVE  S!TypeOK'
<1> USE DEF S!TypeOK
<1>1. CASE UNCHANGED sessionVars
  BY <1>1 DEF sessionVars
<1>2. ASSUME NEW rsp \in {"report", "history", "logmode 1", "logmode 0"}, S!Tell(rsp)
      PROVE  /\ owed' \in BOOLEAN
             /\ notice' \in {"", "report", "history", "logmode 1", "logmode 0"}
  BY <1>2 DEF S!Tell
<1>3. ASSUME NEW r, S!Serve(r)
      PROVE  asked' \subseteq S!Requests
  BY <1>3 DEF S!Serve
<1>4. CASE S!Ask
  BY <1>4 DEF S!Ask
<1>5. CASE S!Begin("report") \/ S!Begin("history")
  <2>1. asked' \subseteq S!Requests
    BY <1>3, <1>5 DEF S!Begin, S!Overhear
  <2> QED BY <1>5, <2>1 DEF S!Begin
<1>6. CASE S!Finish
  BY <1>2, <1>6 DEF S!Finish
<1>7. CASE S!StartLog
  BY <1>2, <1>3, <1>7 DEF S!StartLog
<1>8. CASE S!StopLog
  BY <1>2, <1>3, <1>8 DEF S!StopLog
<1>9. CASE S!OverhearLog \/ S!FirstRecord \/ S!Pass \/ S!Forget
  BY <1>9 DEF S!OverhearLog, S!FirstRecord, S!Pass, S!Forget
<1> QED BY <1>1, <1>4, <1>5, <1>6, <1>7, <1>8, <1>9 DEF S!Live

LEMMA RepliesType ==
  /\ NoMsg \notin ServerRsp
  /\ \A m \in RequestTypes : ReplyTo(m) \in ServerRsp
  /\ \A rsp \in Responses : ActionSuccess(rsp) \in ServerRsp
<1>1. NoMsg \notin ServerRsp
  BY DEF NoMsg, ServerRsp, AnswerTypes
<1>2. \A m \in RequestTypes : ReplyTo(m) \in ServerRsp
  BY DEF ReplyTo, RequestTypes, RequestSuccess, ActionSuccess, ServerRsp, AnswerTypes, Responses
<1>3. \A rsp \in Responses : ActionSuccess(rsp) \in ServerRsp
  BY DEF ActionSuccess, ServerRsp, AnswerTypes
<1> QED BY <1>1, <1>2, <1>3

LEMMA ParsesType ==
  ASSUME ServerTypeOK, S!TypeOK', QueuesTypeOK, Parses
  PROVE  ServerTypeOK'
<1>1. s_msg = NoMsg
  BY DEF ServerTypeOK, Parses
<1>2. CASE notice' = ""
  <2>1. phase' = "parsed" /\ s_msg' = NoMsg
    BY <1>1, <1>2 DEF Parses
  <2> QED BY <1>2, <2>1 DEF ServerTypeOK, Parses, queueVars
<1>3. CASE notice' # ""
  <2>1. phase' = "notify" /\ s_msg' = ActionSuccess(notice')
    BY <1>3 DEF Parses
  <2>2. notice' \in Responses
    BY <1>3 DEF S!TypeOK, Responses
  <2>3. s_msg' \in ServerRsp /\ s_msg' # NoMsg
    BY <2>1, <2>2, RepliesType
  <2> QED BY <2>1, <2>3 DEF ServerTypeOK, Parses, queueVars
<1> QED BY <1>2, <1>3

LEMMA EngineStepType ==
  ASSUME QueuesTypeOK, ServerTypeOK, EngineStep \/ Die
  PROVE  QueuesTypeOK' /\ ServerTypeOK'
<1>0. S!TypeOK'
  BY SessionType, EngineStepServes DEF ServerTypeOK
<1>1. CASE TakeRequest
  <2>1. QueuesTypeOK' /\ Head(requests).mtype \in RequestTypes
    BY <1>1, ReceiveType DEF TakeRequest, ClientReq
  <2>2. s_msg' \in ServerRsp /\ s_msg' # NoMsg
    BY <1>1, <2>1, RepliesType DEF TakeRequest
  <2>3. key' # 0 /\ notice' = "" /\ phase' = "reply" /\ isRunning' \in BOOLEAN
    BY <1>1, NothingNew DEF TakeRequest, AtHead, msg_rcv_from_client, ServerTypeOK
  <2> QED BY <1>0, <2>1, <2>2, <2>3 DEF ServerTypeOK
<1>2. CASE NoRequest
  <2>1. QueuesTypeOK'
    BY <1>2 DEF NoRequest, queueVars, QueuesTypeOK
  <2> QED BY <1>0, <1>2, <2>1, NothingNew
          DEF NoRequest, AtHead, queueVars, sessionVars, ServerTypeOK
<1>3. CASE SendAnswer
  <2>1. s_msg \in ServerRsp
    BY <1>3 DEF SendAnswer, ServerTypeOK
  <2>2. QueuesTypeOK'
    BY <1>3, <2>1, SendToClientType DEF SendAnswer
  <2> QED BY <1>0, <1>3, <2>2 DEF SendAnswer, msg_send_to_client, ServerTypeOK
<1>4. CASE BeginDump \/ EndDump \/ SwitchLog \/ PassBytes
  <2>1. Parses
    BY <1>4 DEF BeginDump, EndDump, SwitchLog, PassBytes
  <2>2. QueuesTypeOK'
    BY <2>1 DEF Parses, queueVars, QueuesTypeOK
  <2> QED BY <1>0, <2>1, <2>2, ParsesType
<1>5. CASE Exit \/ Die
  <2>1. key' \in {0, key} /\ requests' \in {requests, <<>>}
        /\ client_mq_server' = NoClient
        /\ UNCHANGED <<made, exists, answers, server_mq_client>>
    BY <1>5 DEF Exit, Die, ProcessGone, msg_remove_server_mq
  <2>2. requests' \in Seq(ClientReq) /\ Len(requests') <= Cap
    <3>1. CASE requests' = requests
      BY <3>1 DEF QueuesTypeOK
    <3>2. CASE requests' = <<>>
      BY <3>2, EmptyType, CapType
    <3> QED BY <2>1, <3>1, <3>2
  <2>3. QueuesTypeOK'
    BY <2>1, <2>2 DEF QueuesTypeOK
  <2>4. ServerTypeOK'
    BY <1>0, <1>5 DEF Exit, Die, ProcessGone, S!Forget, ServerTypeOK
  <2> QED BY <2>3, <2>4
<1>6. CASE Restart
  <2>1. QueuesTypeOK' /\ key' # 0
    BY <1>6, CreateType DEF Restart
  <2> QED BY <1>0, <1>6, <2>1 DEF Restart, sessionVars, ServerTypeOK
<1> QED BY <1>1, <1>2, <1>3, <1>4, <1>5, <1>6 DEF EngineStep

-----------------------------------------------------------------------------
(* Types of the clients *)

\* What a step does to pc and exit_value, for the client c it is a step of
LEMMA ProcessType ==
  ASSUME ClientsTypeOK, NEW c \in Clients,
         \/ \E where \in {"sending", "waiting", "leaving"} :
              /\ Go(c, where) /\ UNCHANGED exit_value
              /\ pc[c] # "gone"
              /\ c_msg'[c] \in RequestTypes /\ c \in exists'
         \/ \E value \in {"success", "failure", "killed"} : End(c, value),
         UNCHANGED c_msg \/ \E r \in RequestTypes : c_msg' = [c_msg EXCEPT ![c] = r],
         UNCHANGED isBreak \/ isBreak' \in [Consoles -> BOOLEAN],
         UNCHANGED heard \/ heard' \in [Controls -> Seq(ServerRsp)],
         \A d \in Clients : d # c /\ d \in exists => d \in exists'
  PROVE  ClientsTypeOK'
<1> USE DEF ClientsTypeOK
<1>1. /\ c_msg' \in [Clients -> RequestTypes \cup {NoRequestYet}]
      /\ \A d \in Clients : d # c => c_msg'[d] = c_msg[d]
  OBVIOUS
<1>2. /\ pc' \in [Clients -> {"off", "sending", "waiting", "leaving", "gone"}]
      /\ exit_value' \in [Clients -> {"none", "success", "failure", "killed"}]
      /\ \A d \in Clients : d # c => pc'[d] = pc[d] /\ exit_value'[d] = exit_value[d]
  BY DEF Go, End
<1>3. /\ pc'[c] = "gone" <=> exit_value'[c] # "none"
      /\ pc'[c] \in {"sending", "waiting", "leaving"} =>
           c_msg'[c] \in RequestTypes /\ c \in exists'
  BY DEF Go, End
<1> QED BY <1>1, <1>2, <1>3

LEMMA MessageType ==
  ASSUME ClientsTypeOK, NEW c \in Clients, pc[c] = "sending"
  PROVE  Message(c) \in ClientReq
BY DEF ClientsTypeOK, Message, ClientReq

LEMMA RequestOfType ==
  ASSUME NEW k \in {"h", "l", "r", "x"}
  PROVE  RequestOf(k) \in RequestTypes
BY DEF RequestOf, RequestTypes

\* The queues and the engine are left alone.
LEMMA QueuesRest ==
  ASSUME QueuesTypeOK, UNCHANGED queueVars
  PROVE  QueuesTypeOK' /\ exists' = exists
BY DEF QueuesTypeOK, queueVars

LEMMA ConsoleType ==
  ASSUME QueuesTypeOK, ClientsTypeOK, NEW c \in Consoles,
         \/ ConsoleStart(c) \/ ConsoleSend(c) \/ ConsolePoll(c) \/ ConsoleSigint(c)
         \/ \E k \in Keys : ConsoleKey(c, k)
  PROVE  QueuesTypeOK' /\ ClientsTypeOK'
<1>0. c \in Clients
  BY DEF Clients
<1>1. CASE ConsoleStart(c)
  <2>1. CASE key # 0 /\ OpenQueues(c) /\ Sends(c, "CLIENT_INIT") /\ UNCHANGED exit_value
    <3>1. QueuesTypeOK'
      BY <1>0, <2>1, OpenType
    <3>2. /\ Go(c, "sending") /\ c_msg' = [c_msg EXCEPT ![c] = "CLIENT_INIT"]
          /\ "CLIENT_INIT" \in RequestTypes /\ c_msg'[c] \in RequestTypes
          /\ c \in exists' /\ exists \subseteq exists' /\ pc[c] # "gone"
      BY <1>0, <1>1, <2>1 DEF Sends, OpenQueues, RequestTypes, ConsoleStart, ClientsTypeOK
    <3> QED BY <1>0, <1>1, <2>1, <3>1, <3>2, ProcessType DEF ConsoleStart
  <2>2. CASE End(c, "failure") /\ UNCHANGED <<queueVars, c_msg>>
    BY <1>0, <1>1, <2>2, QueuesRest, ProcessType DEF ConsoleStart
  <2> QED BY <1>1, <2>1, <2>2 DEF ConsoleStart
<1>2. CASE ConsoleSend(c)
  <2>1. QueuesTypeOK' /\ exists' = exists
    <3>1. CASE UNCHANGED queueVars
      BY <3>1, QueuesRest
    <3>2. CASE msg_send_to_server(Message(c))
      BY <1>0, <1>2, <3>2, MessageType, SendToServerType DEF ConsoleSend, msg_send_to_server
    <3> QED BY <1>2, <3>1, <3>2 DEF ConsoleSend
  <2>2. c_msg[c] \in RequestTypes /\ c \in exists /\ pc[c] # "gone"
    BY <1>0, <1>2 DEF ConsoleSend, ClientsTypeOK
  <2>3. \/ \E where \in {"waiting", "leaving"} : Go(c, where) /\ UNCHANGED exit_value
        \/ End(c, "failure")
    BY <1>2 DEF ConsoleSend, SendFails, NextKey, Leave
  <2> QED BY <1>0, <1>2, <2>1, <2>2, <2>3, ProcessType DEF ConsoleSend
<1>3. CASE ConsolePoll(c)
  <2>1. QueuesTypeOK' /\ exists' = exists
    BY <1>0, <1>3, ReceiveAnswerType DEF ConsolePoll, msg_rcv_from_server
  <2>2. c_msg[c] \in RequestTypes /\ c \in exists /\ pc[c] # "gone"
    BY <1>0, <1>3 DEF ConsolePoll, ClientsTypeOK
  <2>3. CASE Leave(c)
    BY <1>0, <1>3, <2>1, <2>2, <2>3, ProcessType DEF ConsolePoll, Leave
  <2>4. CASE UNCHANGED <<pc, exit_value>>
    BY <1>3, <2>1, <2>4 DEF ConsolePoll, ClientsTypeOK
  <2> QED BY <1>3, <2>3, <2>4 DEF ConsolePoll
<1>4. CASE ConsoleSigint(c)
  <2>1. QueuesTypeOK' /\ exists' = exists
    BY <1>4, QueuesRest DEF ConsoleSigint
  <2>2. c_msg[c] \in RequestTypes /\ c \in exists /\ pc[c] # "gone"
    BY <1>0, <1>4 DEF ConsoleSigint, ClientsTypeOK
  <2>3. isBreak' \in [Consoles -> BOOLEAN]
    BY <1>4 DEF ConsoleSigint, ClientsTypeOK
  <2>4. CASE End(c, "failure") \/ Leave(c)
    BY <1>0, <1>4, <2>1, <2>2, <2>3, <2>4, ProcessType DEF ConsoleSigint, Leave
  <2>5. CASE UNCHANGED <<pc, exit_value>>
    BY <1>4, <2>1, <2>3, <2>5 DEF ConsoleSigint, ClientsTypeOK
  <2> QED BY <1>4, <2>4, <2>5 DEF ConsoleSigint, InMsgsnd
<1>5. ASSUME NEW k \in Keys, ConsoleKey(c, k)
      PROVE  QueuesTypeOK' /\ ClientsTypeOK'
  <2>1. QueuesTypeOK' /\ exists' = exists
    BY <1>5, QueuesRest DEF ConsoleKey
  <2>2. c_msg[c] \in RequestTypes /\ c \in exists /\ pc[c] # "gone"
    BY <1>0, <1>5 DEF ConsoleKey, ClientsTypeOK
  <2>3. CASE k \in {"h", "l", "r", "x"} /\ Sends(c, RequestOf(k)) /\ UNCHANGED exit_value
    <3>1. RequestOf(k) \in RequestTypes
      BY <2>3, RequestOfType
    <3>2. /\ Go(c, "sending") /\ c_msg' = [c_msg EXCEPT ![c] = RequestOf(k)]
          /\ c_msg'[c] \in RequestTypes
      BY <1>0, <2>3, <3>1 DEF Sends, ClientsTypeOK
    <3> QED BY <1>0, <1>5, <2>1, <2>2, <2>3, <3>1, <3>2, ProcessType DEF ConsoleKey
  <2>4. CASE (Leave(c) \/ NextKey(c)) /\ UNCHANGED c_msg
    <3>1. \E where \in {"waiting", "leaving"} : Go(c, where) /\ UNCHANGED exit_value
      BY <2>4 DEF NextKey, Leave
    <3> QED BY <1>0, <1>5, <2>1, <2>2, <2>4, <3>1, ProcessType DEF ConsoleKey
  <2> QED BY <1>5, <2>3, <2>4 DEF ConsoleKey
<1> QED BY <1>1, <1>2, <1>3, <1>4, <1>5

LEMMA ControlType ==
  ASSUME QueuesTypeOK, ClientsTypeOK, NEW c \in Controls,
         ControlSend(c) \/ ControlReceive(c) \/ \E a \in Arguments : ControlStart(c, a)
  PROVE  QueuesTypeOK' /\ ClientsTypeOK'
<1>0. c \in Clients
  BY DEF Clients
<1>1. ASSUME NEW a \in Arguments, ControlStart(c, a)
      PROVE  QueuesTypeOK' /\ ClientsTypeOK'
  <2>1. CASE OpenQueues(c) /\ a \in {"h", "l", "r"} /\ Sends(c, RequestOf(a))
             /\ UNCHANGED exit_value
    <3>1. QueuesTypeOK'
      BY <1>0, <2>1, OpenType
    <3>2. RequestOf(a) \in RequestTypes
      BY <2>1, RequestOfType
    <3>3. /\ Go(c, "sending") /\ c_msg' = [c_msg EXCEPT ![c] = RequestOf(a)]
          /\ c_msg'[c] \in RequestTypes
          /\ c \in exists' /\ exists \subseteq exists' /\ pc[c] # "gone"
      BY <1>0, <1>1, <2>1, <3>2 DEF Sends, OpenQueues, ControlStart, ClientsTypeOK
    <3> QED BY <1>0, <1>1, <2>1, <3>1, <3>2, <3>3, ProcessType DEF ControlStart
  <2>2. CASE OpenQueues(c) /\ End(c, "failure") /\ UNCHANGED c_msg
    <3>1. QueuesTypeOK' /\ exists \subseteq exists'
      BY <1>0, <2>2, OpenType DEF OpenQueues
    <3> QED BY <1>0, <1>1, <2>2, <3>1, ProcessType DEF ControlStart
  <2>3. CASE End(c, "failure") /\ UNCHANGED <<queueVars, c_msg>>
    BY <1>0, <1>1, <2>3, QueuesRest, ProcessType DEF ControlStart
  <2> QED BY <1>1, <2>1, <2>2, <2>3 DEF ControlStart
<1>2. CASE ControlSend(c)
  <2>1. QueuesTypeOK' /\ exists' = exists
    <3>1. CASE UNCHANGED queueVars
      BY <3>1, QueuesRest
    <3>2. CASE msg_send_to_server(Message(c))
      BY <1>0, <1>2, <3>2, MessageType, SendToServerType DEF ControlSend, msg_send_to_server
    <3> QED BY <1>2, <3>1, <3>2 DEF ControlSend
  <2>2. c_msg[c] \in RequestTypes /\ c \in exists /\ pc[c] # "gone"
    BY <1>0, <1>2 DEF ControlSend, ClientsTypeOK
  <2> QED BY <1>0, <1>2, <2>1, <2>2, ProcessType DEF ControlSend
<1>3. CASE ControlReceive(c)
  <2>1. QueuesTypeOK' /\ exists' = exists /\ Head(answers[c]) \in ServerRsp
    BY <1>0, <1>3, ReceiveAnswerType DEF ControlReceive, msg_rcv_from_server
  <2>2. c_msg[c] \in RequestTypes /\ c \in exists /\ pc[c] # "gone"
    BY <1>0, <1>3 DEF ControlReceive, ClientsTypeOK
  <2>3. heard' \in [Controls -> Seq(ServerRsp)]
    <3>1. Append(heard[c], Head(answers[c])) \in Seq(ServerRsp)
      BY <2>1, AppendType DEF ClientsTypeOK
    <3> QED BY <1>3, <3>1 DEF ControlReceive, ClientsTypeOK
  <2>4. CASE Leave(c)
    BY <1>0, <1>3, <2>1, <2>2, <2>3, <2>4, ProcessType DEF ControlReceive, Leave
  <2>5. CASE UNCHANGED <<pc, exit_value>>
    BY <1>3, <2>1, <2>3, <2>5 DEF ControlReceive, ClientsTypeOK
  <2> QED BY <1>3, <2>4, <2>5 DEF ControlReceive
<1> QED BY <1>1, <1>2, <1>3

LEMMA EndingType ==
  ASSUME QueuesTypeOK, ClientsTypeOK, NEW c \in Clients, Remove(c) \/ Kill(c)
  PROVE  QueuesTypeOK' /\ ClientsTypeOK'
<1>1. CASE Remove(c)
  <2>1. QueuesTypeOK' /\ exists' = exists \ {c}
    BY <1>1, RemoveType DEF Remove, msg_remove_client_mq
  <2> QED BY <1>1, <2>1, ProcessType DEF Remove
<1>2. CASE Kill(c)
  BY <1>2, QueuesRest, ProcessType DEF Kill
<1> QED BY <1>1, <1>2

-----------------------------------------------------------------------------
(* The composition *)

\* The steps of the clients, however they are brought about
ClientStep ==
  \/ \E c \in Consoles : ConsoleStep(c)
  \/ \E c \in Consoles, k \in Keys : ConsoleKey(c, k)
  \/ \E c \in Controls : ControlStep(c)
  \/ \E c \in Killable : Kill(c)

LEMMA Steps ==
  ASSUME Next
  PROVE  \/ EngineStep /\ ClientsRest
         \/ Die /\ Spend("deaths") /\ UNCHANGED clientVars
         \/ ClientStep /\ UNCHANGED serverVars /\ (UNCHANGED left \/ Spend("keys"))
BY DEF Next, ClientStep, EngineRests

\* Clients neither make nor remove the engine's queue, nor set its address.
LEMMA ClientStepLeaves ==
  ASSUME ClientStep
  PROVE  UNCHANGED <<key, made, client_mq_server>>
<1>1. ASSUME NEW c \in Consoles, ConsoleStep(c)
      PROVE  UNCHANGED <<key, made, client_mq_server>>
  BY <1>1 DEF ConsoleStep, ConsoleStart, ConsoleSend, ConsolePoll, ConsoleSigint, Remove,
     OpenQueues, msg_send_to_server, msg_rcv_from_server, msg_remove_client_mq, queueVars
<1>2. ASSUME NEW c \in Consoles, NEW k \in Keys, ConsoleKey(c, k)
      PROVE  UNCHANGED <<key, made, client_mq_server>>
  BY <1>2 DEF ConsoleKey, queueVars
<1>3. ASSUME NEW c \in Controls, ControlStep(c)
      PROVE  UNCHANGED <<key, made, client_mq_server>>
  BY <1>3 DEF ControlStep, ControlStart, ControlSend, ControlReceive, Remove,
     OpenQueues, msg_send_to_server, msg_rcv_from_server, msg_remove_client_mq, queueVars
<1>4. ASSUME NEW c \in Killable, Kill(c)
      PROVE  UNCHANGED <<key, made, client_mq_server>>
  BY <1>4 DEF Kill, queueVars
<1> QED BY <1>1, <1>2, <1>3, <1>4 DEF ClientStep

LEMMA ClientStepType ==
  ASSUME QueuesTypeOK, ClientsTypeOK, ClientStep
  PROVE  QueuesTypeOK' /\ ClientsTypeOK'
<1>0. Consoles \subseteq Clients /\ Controls \subseteq Clients /\ Killable \subseteq Clients
  BY ServiceAssumption DEF Clients
<1>1. ASSUME NEW c \in Consoles, ConsoleStep(c)
      PROVE  QueuesTypeOK' /\ ClientsTypeOK'
  BY <1>0, <1>1, ConsoleType, EndingType DEF ConsoleStep
<1>2. ASSUME NEW c \in Consoles, NEW k \in Keys, ConsoleKey(c, k)
      PROVE  QueuesTypeOK' /\ ClientsTypeOK'
  BY <1>2, ConsoleType
<1>3. ASSUME NEW c \in Controls, ControlStep(c)
      PROVE  QueuesTypeOK' /\ ClientsTypeOK'
  BY <1>0, <1>3, ControlType, EndingType DEF ControlStep
<1>4. ASSUME NEW c \in Killable, Kill(c)
      PROVE  QueuesTypeOK' /\ ClientsTypeOK'
  BY <1>0, <1>4, EndingType
<1> QED BY <1>1, <1>2, <1>3, <1>4 DEF ClientStep

LEMMA InitType == Init => TypeOK
<1> SUFFICES ASSUME Init PROVE TypeOK
  OBVIOUS
<1>1. QueuesTypeOK
  BY QueuesInitType DEF Init
<1>2. ServerTypeOK
  BY DEF Init, ServerInit, ServerTypeOK, S!Fresh, S!TypeOK
<1>3. ClientsTypeOK
  BY EmptyType DEF Init, ClientsInit, ClientsTypeOK, NoRequestYet
<1>4. left \in [{"keys", "deaths"} -> Nat]
  BY ServiceAssumption DEF Init
<1> QED BY <1>1, <1>2, <1>3, <1>4 DEF TypeOK

LEMMA NextType == TypeOK /\ [Next]_vars => TypeOK'
<1> SUFFICES ASSUME TypeOK, [Next]_vars
             PROVE  TypeOK'
  OBVIOUS
<1>0. ASSUME NEW what \in {"keys", "deaths"}, Spend(what)
      PROVE  left' \in [{"keys", "deaths"} -> Nat]
  BY <1>0 DEF Spend, TypeOK
<1>1. CASE EngineStep /\ ClientsRest
  <2>1. QueuesTypeOK' /\ ServerTypeOK'
    BY <1>1, EngineStepType DEF TypeOK
  <2>2. exists' = exists
    BY <1>1 DEF EngineStep, TakeRequest, NoRequest, SendAnswer, BeginDump, EndDump, SwitchLog,
       PassBytes, Parses, Exit, Restart, ProcessGone, msg_rcv_from_client, msg_send_to_client,
       msg_create_server_mq, queueVars
  <2>3. ClientsTypeOK'
    BY <1>1, <2>2 DEF ClientsRest, clientVars, TypeOK, ClientsTypeOK
  <2> QED BY <1>1, <2>1, <2>3 DEF TypeOK, ClientsRest
<1>2. CASE Die /\ Spend("deaths") /\ UNCHANGED clientVars
  <2>1. QueuesTypeOK' /\ ServerTypeOK'
    BY <1>2, EngineStepType DEF TypeOK
  <2>2. ClientsTypeOK'
    BY <1>2 DEF Die, ProcessGone, clientVars, TypeOK, ClientsTypeOK
  <2> QED BY <1>0, <1>2, <2>1, <2>2 DEF TypeOK
<1>3. CASE ClientStep /\ UNCHANGED serverVars /\ (UNCHANGED left \/ Spend("keys"))
  <2>1. QueuesTypeOK' /\ ClientsTypeOK'
    BY <1>3, ClientStepType DEF TypeOK
  <2>2. ServerTypeOK'
    BY <1>3, ClientStepLeaves DEF serverVars, sessionVars, TypeOK, ServerTypeOK, S!TypeOK
  <2> QED BY <1>0, <1>3, <2>1, <2>2 DEF TypeOK
<1>4. CASE UNCHANGED vars
  <2>0. UNCHANGED queueVars /\ UNCHANGED serverVars /\ UNCHANGED clientVars /\ UNCHANGED left
    BY <1>4 DEF vars
  <2>1. QueuesTypeOK'
    BY <2>0 DEF queueVars, TypeOK, QueuesTypeOK
  <2>2. ServerTypeOK'
    BY <2>0 DEF serverVars, sessionVars, queueVars, TypeOK, ServerTypeOK, S!TypeOK
  <2>3. ClientsTypeOK'
    BY <2>0 DEF clientVars, queueVars, TypeOK, ClientsTypeOK
  <2> QED BY <1>0, <1>4, <2>1, <2>2, <2>3 DEF TypeOK, vars
<1> QED BY <1>1, <1>2, <1>3, <1>4, Steps

\* Every queue stays within its capacity, every request in it comes from a
\* client that the engine can answer, and a client that runs has its queue.
THEOREM ServiceTypes == Spec => []TypeOK
BY InitType, NextType, PTL DEF Spec
=============================================================================
