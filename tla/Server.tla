------------------------------- MODULE Server -------------------------------
(***************************************************************************)
(* The engine at its message queue.  What the protocol does are the steps  *)
(* of Session, which Engine is shown to implement; this module adds where  *)
(* requests come from and where the answers go: the round of main's loop,  *)
(* msg_send_to_client as a step that may have to wait, the queue behind an *)
(* exit, a death and a restart.                                            *)
(*                                                                         *)
(* All requests come from clients here: nobody hits the 1022's panel or    *)
(* answers for the printer module on the line.                             *)
(***************************************************************************)
EXTENDS Queues

VARIABLES
  mode, logging, asked, owed, notice,  \* Session's
  phase,      \* "top" of a fresh loop, "reply" sending what control_receive_msg
              \* answers, "read" in read(), "parsed" with bytes parsed, "notify"
              \* sending a completion, "down" with no process
  s_msg,      \* the answer being sent
  isRunning

S == INSTANCE Session WITH Active <- TRUE, alive <- phase # "down"

sessionVars == <<mode, logging, asked, owed, notice>>
serverVars == <<sessionVars, phase, s_msg, isRunning>>

NoMsg == [mtype |-> "none", rsp |-> ""]
RequestSuccess(rsp) == [mtype |-> "SERVER_REQUEST_SUCCESS", rsp |-> rsp]
ActionSuccess(rsp) == [mtype |-> "SERVER_ACTION_SUCCESS", rsp |-> rsp]

ServerInit ==
  /\ S!Fresh
  /\ phase = "down" /\ s_msg = NoMsg /\ isRunning = TRUE

-----------------------------------------------------------------------------
(* control_receive_msg *)

RequestBits(m) ==
  CASE m = "CLIENT_REQ_HISTORY" -> {"HISTORY_REQ"}
    [] m = "CLIENT_REQ_REPORT"  -> {"REPORT_REQ"}
    [] m = "CLIENT_REQ_LOG" ->
         {IF logging THEN "LOGMODE_OFF_REQ" ELSE "LOGMODE_ON_REQ"}
    [] OTHER -> {}



\* Mutant: MESSAGE_SRC is forgotten but for the log request
RequestOwes_LogOnly(m) == m = "CLIENT_REQ_LOG"

\* MESSAGE_SRC goes with the bits
RequestOwes(m) == m \in {"CLIENT_REQ_HISTORY", "CLIENT_REQ_REPORT", "CLIENT_REQ_LOG"}

ReplyTo(m) ==
  CASE m = "CLIENT_INIT" -> ActionSuccess(IF logging THEN "logmode 16" ELSE "logmode 0")
    [] m = "CLIENT_REQ_HISTORY" -> RequestSuccess("history")
    [] m = "CLIENT_REQ_REPORT"  -> RequestSuccess("report")
    [] m = "CLIENT_REQ_LOG"     -> RequestSuccess("")
    [] m = "CLIENT_REQ_EXIT"    -> RequestSuccess("exit")

AtHead == phase \in {"top", "parsed"} /\ isRunning

\* One message is taken, its bits are raised, the answer is ready to be sent
TakeRequest ==
  /\ AtHead
  /\ msg_rcv_from_client
  /\ LET m == Head(requests).mtype IN
       /\ asked' = asked \cup RequestBits(m)
       /\ owed' = (owed \/ RequestOwes(m))
       /\ s_msg' = ReplyTo(m)
       /\ isRunning' = (m # "CLIENT_REQ_EXIT")
  /\ phase' = "reply"
  /\ UNCHANGED <<mode, logging, notice>>

\* Mutant: the round may pass over a message that waits
NoRequest_Skips ==
  /\ AtHead
  /\ phase' = "read"
  /\ UNCHANGED <<queueVars, sessionVars, s_msg, isRunning>>

NoRequest ==
  /\ AtHead /\ requests = <<>>
  /\ phase' = "read"
  /\ UNCHANGED <<queueVars, sessionVars, s_msg, isRunning>>

\* Mutant: a failed msgsnd is tried again
SendAnswer_Retries ==
  /\ phase \in {"reply", "notify"}
  /\ msg_send_to_client(s_msg)
  /\ IF client_mq_server \in exists
     THEN /\ phase' = IF phase = "reply" THEN "read" ELSE "parsed"
          /\ s_msg' = NoMsg /\ notice' = ""
     ELSE UNCHANGED <<phase, s_msg, notice>>
  /\ UNCHANGED <<mode, logging, asked, owed, isRunning>>

\* msgsnd to the client returns: to the loop, or to the handler that called it
SendAnswer ==
  /\ phase \in {"reply", "notify"}
  /\ msg_send_to_client(s_msg)
  /\ phase' = IF phase = "reply" THEN "read" ELSE "parsed"
  /\ s_msg' = NoMsg /\ notice' = ""
  /\ UNCHANGED <<mode, logging, asked, owed, isRunning>>

-----------------------------------------------------------------------------
(* What the bytes that read() returned lead to *)

Parses ==
  /\ phase \in {"read", "parsed"}
  /\ UNCHANGED <<queueVars, isRunning>>
  /\ IF notice' = "" THEN phase' = "parsed" /\ UNCHANGED s_msg
     ELSE phase' = "notify" /\ s_msg' = ActionSuccess(notice')

BeginDump == (\E m \in {"report", "history"} : S!Begin(m) /\ asked' # asked) /\ Parses
EndDump   == S!Finish /\ Parses
SwitchLog == (S!StartLog \/ S!StopLog) /\ Parses

\* Polls and display records with nothing to do
PassBytes == phase = "read" /\ S!Pass /\ Parses

-----------------------------------------------------------------------------
(* Life of the process *)

ProcessGone ==
  /\ S!Forget
  /\ phase' = "down" /\ s_msg' = NoMsg /\ isRunning' = TRUE
  /\ client_mq_server' = NoClient
  /\ UNCHANGED <<made, exists, answers, server_mq_client>>

\* The loop has seen isRunning fall, one read() behind the exit request.
Exit ==
  /\ phase = "parsed" /\ ~isRunning
  /\ msg_remove_server_mq
  /\ ProcessGone

\* SIGINT (_exit), SIGKILL or a fault: the queue stays
Die ==
  /\ phase # "down"
  /\ UNCHANGED <<key, requests>>
  /\ ProcessGone

\* printem.service, Restart=always
Restart ==
  /\ phase = "down"
  /\ msg_create_server_mq
  /\ phase' = "top"
  /\ UNCHANGED <<sessionVars, s_msg, isRunning>>

-----------------------------------------------------------------------------
ServerTypeOK ==
  /\ S!TypeOK
  /\ phase \in {"top", "reply", "read", "parsed", "notify", "down"}
  /\ s_msg \in ServerRsp \cup {NoMsg}
  /\ s_msg # NoMsg <=> phase \in {"reply", "notify"}
  /\ notice # "" => phase = "notify"
  /\ isRunning \in BOOLEAN
  /\ phase # "down" => key # 0
=============================================================================
