--------------------------- MODULE ClientPrograms ---------------------------
(***************************************************************************)
(* PE-Console and PE-Control as processes at their queues.  Each process   *)
(* runs once.  A console takes keys and polls for answers in between; a    *)
(* control sends the request of its argument and waits for the completion. *)
(* A msgsnd to the engine is a step of its own, as it may have to wait.    *)
(***************************************************************************)
EXTENDS Queues

CONSTANTS
  Keys,      \* what may be typed at a console
  Arguments  \* what a control may be called with

VARIABLES
  pc,         \* "off", "sending" in msgsnd, "waiting" for answers,
              \* "leaving" with the queue to be removed, "gone"
  c_msg,      \* the request being sent, then the last one sent
  isBreak,    \* a console is to leave its loop
  exit_value, \* how the process ended
  heard       \* what a control has been answered so far

clientVars == <<pc, c_msg, isBreak, exit_value, heard>>

\* "?" is any other character
Letters == {"h", "l", "r", "x", "q", "?"}

ASSUME ClientsAssumption == Keys \subseteq Letters /\ Arguments \subseteq Letters

RequestOf(k) ==
  CASE k = "h" -> "CLIENT_REQ_HISTORY" [] k = "l" -> "CLIENT_REQ_LOG"
    [] k = "r" -> "CLIENT_REQ_REPORT"  [] k = "x" -> "CLIENT_REQ_EXIT"

NoRequestYet == "none"

ClientsInit ==
  /\ pc = [c \in Clients |-> "off"]
  /\ c_msg = [c \in Clients |-> NoRequestYet]
  /\ isBreak = [c \in Consoles |-> FALSE]
  /\ exit_value = [c \in Clients |-> "none"]
  /\ heard = [c \in Controls |-> <<>>]

Message(c) == [mtype |-> c_msg[c], client_id |-> c]

Go(c, where) == pc' = [pc EXCEPT ![c] = where]

\* return or exit(), the private queue left as it is
End(c, value) ==
  /\ Go(c, "gone")
  /\ exit_value' = [exit_value EXCEPT ![c] = value]

Sends(c, request) ==
  /\ Go(c, "sending")
  /\ c_msg' = [c_msg EXCEPT ![c] = request]

-----------------------------------------------------------------------------
(* PE-Console *)

\* Without the engine's queue, or without one of its own, it gives up; else
\* CLIENT_INIT is sent.
ConsoleStart(c) ==
  /\ pc[c] = "off"
  /\ \/ key # 0 /\ OpenQueues(c) /\ Sends(c, "CLIENT_INIT") /\ UNCHANGED exit_value
     \/ End(c, "failure") /\ UNCHANGED <<queueVars, c_msg>>
  /\ UNCHANGED <<isBreak, heard>>

\* The loop is over; the queue is removed next.
Leave(c) == Go(c, "leaving") /\ UNCHANGED exit_value

\* main's loop tests isBreak when a key has been acted on
NextKey(c) == IF isBreak[c] THEN Leave(c) ELSE Go(c, "waiting") /\ UNCHANGED exit_value

\* A request that could not be sent is a line on the screen, CLIENT_INIT the
\* end of the console, which leaves its queue behind.
SendFails(c) == IF c_msg[c] = "CLIENT_INIT" THEN End(c, "failure") ELSE NextKey(c)

ConsoleSend(c) ==
  /\ pc[c] = "sending"
  /\ \/ QueueGone(c) /\ SendFails(c) /\ UNCHANGED queueVars
     \/ msg_send_to_server(Message(c)) /\ NextKey(c)
  /\ UNCHANGED <<c_msg, isBreak, heard>>

\* kbhit, getch, action.  At the end of its input getch returns a character
\* that was never read: it may be any key.
ConsoleKey(c, k) ==
  /\ pc[c] = "waiting"
  /\ \/ /\ k \in {"h", "l", "r", "x"}
        /\ Sends(c, RequestOf(k)) /\ UNCHANGED <<queueVars, exit_value>>
     \/ k = "q" /\ Leave(c) /\ UNCHANGED <<queueVars, c_msg>>
     \/ k = "?" /\ NextKey(c) /\ UNCHANGED <<queueVars, c_msg>>
  /\ UNCHANGED <<isBreak, heard>>

\* response, with no key hit.  isLogMode stays 0: no answer is "logmode" and
\* nothing behind it.
ConsolePoll(c) ==
  /\ pc[c] = "waiting" /\ answers[c] # <<>>
  /\ msg_rcv_from_server(c)
  /\ IF Head(answers[c]) = [mtype |-> "SERVER_REQUEST_SUCCESS", rsp |-> "exit"]
     THEN Leave(c) ELSE UNCHANGED <<pc, exit_value>>
  /\ UNCHANGED <<c_msg, isBreak, heard>>

\* The handler only raises isBreak: the loop that waits for a key does not see
\* it.  A msgsnd that waits returns EINTR, at a second SIGINT too.
InMsgsnd(c) == pc[c] = "sending" /\ QueueFull(c)

ConsoleSigint(c) ==
  /\ pc[c] \in {"sending", "waiting"}
  /\ ~isBreak[c] \/ InMsgsnd(c)
  /\ isBreak' = [isBreak EXCEPT ![c] = TRUE]
  /\ IF InMsgsnd(c)
     THEN IF c_msg[c] = "CLIENT_INIT" THEN End(c, "failure") ELSE Leave(c)
     ELSE UNCHANGED <<pc, exit_value>>
  /\ UNCHANGED <<queueVars, c_msg, heard>>

-----------------------------------------------------------------------------
(* PE-Control *)

\* A letter it does not know is noticed behind the making of its queue, which
\* is left behind.
ControlStart(c, a) ==
  /\ pc[c] = "off"
  /\ \/ /\ key # 0 /\ OpenQueues(c)
        /\ IF a \in {"h", "l", "r"}
           THEN Sends(c, RequestOf(a)) /\ UNCHANGED exit_value
           ELSE End(c, "failure") /\ UNCHANGED c_msg
     \/ End(c, "failure") /\ UNCHANGED <<queueVars, c_msg>>
  /\ UNCHANGED <<isBreak, heard>>

\* A failure ends it, and its queue is left behind.
ControlSend(c) ==
  /\ pc[c] = "sending"
  /\ \/ QueueGone(c) /\ UNCHANGED queueVars /\ End(c, "failure")
     \/ msg_send_to_server(Message(c)) /\ Go(c, "waiting") /\ UNCHANGED exit_value
  /\ UNCHANGED <<c_msg, isBreak, heard>>

\* Mutant: the confirmation of the request counts as its completion
ControlReceive_First(c) ==
  /\ pc[c] = "waiting" /\ answers[c] # <<>>
  /\ msg_rcv_from_server(c)
  /\ heard' = [heard EXCEPT ![c] = Append(@, Head(answers[c]))]
  /\ Leave(c)
  /\ UNCHANGED <<c_msg, isBreak>>

\* The confirmation is passed over; any completion counts as that of its own.
ControlReceive(c) ==
  /\ pc[c] = "waiting" /\ answers[c] # <<>>
  /\ msg_rcv_from_server(c)
  /\ heard' = [heard EXCEPT ![c] = Append(@, Head(answers[c]))]
  /\ IF Head(answers[c]).mtype = "SERVER_ACTION_SUCCESS"
     THEN Leave(c) ELSE UNCHANGED <<pc, exit_value>>
  /\ UNCHANGED <<c_msg, isBreak>>

\* The end of main, of either program
Remove(c) ==
  /\ pc[c] = "leaving"
  /\ msg_remove_client_mq(c) /\ End(c, "success")
  /\ UNCHANGED <<c_msg, isBreak, heard>>

\* Killed by a signal it does not handle: the queue stays.
Kill(c) ==
  /\ pc[c] \in {"sending", "waiting", "leaving"}
  /\ End(c, "killed")
  /\ UNCHANGED <<queueVars, c_msg, isBreak, heard>>

-----------------------------------------------------------------------------
ClientsTypeOK ==
  /\ pc \in [Clients -> {"off", "sending", "waiting", "leaving", "gone"}]
  /\ c_msg \in [Clients -> RequestTypes \cup {NoRequestYet}]
  /\ isBreak \in [Consoles -> BOOLEAN]
  /\ exit_value \in [Clients -> {"none", "success", "failure", "killed"}]
  /\ heard \in [Controls -> Seq(ServerRsp)]
  /\ \A c \in Clients :
       /\ pc[c] = "gone" <=> exit_value[c] # "none"
       /\ pc[c] \in {"sending", "waiting", "leaving"} => c_msg[c] \in RequestTypes /\ c \in exists
=============================================================================
