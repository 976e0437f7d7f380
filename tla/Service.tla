------------------------------- MODULE Service -------------------------------
(***************************************************************************)
(* The engine, its clients and the queues between them: consoles and       *)
(* controls come and go at any time, the engine exits, dies and is         *)
(* restarted.  Each step is one of the engine or of one client.            *)
(***************************************************************************)
EXTENDS Server, ClientPrograms

CONSTANTS
  Keys_Max,    \* keys hit in a behaviour
  Deaths_Max,  \* deaths of the engine in a behaviour
  Killable     \* the clients that may be killed

ASSUME ServiceAssumption ==
  /\ {Keys_Max, Deaths_Max} \subseteq Nat
  /\ Killable \subseteq Clients

VARIABLE left   \* what is left of these bounds

vars == <<queueVars, serverVars, clientVars, left>>

Init ==
  /\ QueuesInit /\ ServerInit /\ ClientsInit
  /\ left = [keys |-> Keys_Max, deaths |-> Deaths_Max]

Spend(what) == left[what] > 0 /\ left' = [left EXCEPT ![what] = @ - 1]

EngineStep ==
  \/ TakeRequest \/ NoRequest \/ SendAnswer
  \/ BeginDump \/ EndDump \/ SwitchLog \/ PassBytes
  \/ Exit \/ Restart

ConsoleStep(c) ==
  ConsoleStart(c) \/ ConsoleSend(c) \/ ConsolePoll(c) \/ ConsoleSigint(c) \/ Remove(c)

ControlStep(c) ==
  \/ \E a \in Arguments : ControlStart(c, a)
  \/ ControlSend(c) \/ ControlReceive(c) \/ Remove(c)

ClientsRest == UNCHANGED <<clientVars, left>>
EngineRests == UNCHANGED <<serverVars, left>>

Next ==
  \/ EngineStep /\ ClientsRest
  \/ Die /\ Spend("deaths") /\ UNCHANGED clientVars
  \/ \E c \in Consoles : ConsoleStep(c) /\ EngineRests
  \/ \E c \in Consoles, k \in Keys :
       ConsoleKey(c, k) /\ Spend("keys") /\ UNCHANGED serverVars
  \/ \E c \in Controls : ControlStep(c) /\ EngineRests
  \/ \E c \in Killable : Kill(c) /\ EngineRests

Spec == Init /\ [][Next]_vars

\* The engine is scheduled, the 1022 never goes quiet and systemd restarts the
\* engine; a client that runs is scheduled.  A pending request is spent at the
\* next 0x90 that is taken for a poll.  That the 1022 has heard it, so that the
\* dump comes to its end, is not assumed: nothing is asked of EndDump.  Nobody
\* has to start a client, hit a key or kill anything.
Round == TakeRequest \/ NoRequest \/ SendAnswer \/ PassBytes \/ Exit \/ Restart

FairSpec ==
  /\ Spec
  /\ WF_vars(Round /\ ClientsRest)
  /\ WF_vars(BeginDump /\ ClientsRest)
  /\ WF_vars(SwitchLog /\ ClientsRest)
  /\ \A c \in Consoles :
       WF_vars((ConsoleSend(c) \/ ConsolePoll(c) \/ Remove(c)) /\ EngineRests)
  /\ \A c \in Controls :
       WF_vars((ControlSend(c) \/ ControlReceive(c) \/ Remove(c)) /\ EngineRests)

-----------------------------------------------------------------------------
(* Properties *)

TypeOK ==
  /\ QueuesTypeOK /\ ServerTypeOK /\ ClientsTypeOK
  /\ left \in [{"keys", "deaths"} -> Nat]

Sending == phase \in {"reply", "notify"}

\* The engine never sends to the id 0 its client_mq_server starts with, which
\* the kernel may have given to somebody else's queue: whatever is owed, and
\* whatever is being sent, has been asked of this process, restarts included.
AddressKnown == Sending \/ owed => client_mq_server # NoClient

\* A control never holds the engine up, killed or not: a queue is full for it
\* only if it is a console's.  A control is answered twice at most.
ControlNeverHolds ==
  Sending /\ client_mq_server \in exists /\ Len(answers[client_mq_server]) = Cap
    => client_mq_server \in Consoles

\* A control that ends with success has heard two things: that its own request
\* was taken, then a completion.
ConfirmedFirst ==
  \A c \in Controls : exit_value[c] = "success" =>
    /\ Len(heard[c]) = 2
    /\ heard[c][1] = ReplyTo(c_msg[c])
    /\ heard[c][2].mtype = "SERVER_ACTION_SUCCESS"

\* The queues that are left behind in the kernel are those of clients that
\* were killed or failed, and nothing is ever put into those of the latter.
LeftBehind ==
  \A c \in exists : pc[c] = "gone" =>
    /\ exit_value[c] # "success"
    /\ exit_value[c] = "failure" => answers[c] = <<>>

\* The queue the engine answers to is full and nobody will read it: the console
\* was killed, or itself waits in msgsnd for room in the engine's queue.
Stuck(c) == Len(answers[c]) = Cap /\ (pc[c] = "gone" \/ InMsgsnd(c))
Held == client_mq_server \in Consoles \cap exists /\ Stuck(client_mq_server)

\* The engine waits for good in msg_send_to_client for two reasons only, both
\* in reach of this code: the console it answers was killed with its answers
\* unread, or console and engine wait for room in each other's queue.
EngineMovesOn == []<>~Sending \/ <>[]Held

\* But for that, no request stays in the engine's queue for good: time and
\* again all of them have been taken, by this engine or by the next one, or are
\* gone with the queue an exit removes.
RequestsTaken == []<>(requests = <<>>) \/ <>[]Held

\* A control that is taken on waits for good for one of four reasons: the
\* engine has lost its address, having heard of somebody else since, or died,
\* or removed the queue with the request; the engine is held; or it is in a
\* dump that does not end, as when the 1022 has not heard the request.
InQueue(c) == \E n \in 1..Len(requests) : requests[n].client_id = c
AddressLost(c) == ~InQueue(c) /\ client_mq_server # c
DumpEndless == mode \in {"report", "history"}
ControlReturns ==
  \/ \A c \in Controls : pc[c] = "waiting" ~> pc[c] = "gone" \/ AddressLost(c)
  \/ <>[]Held
  \/ <>[]DumpEndless

\* Not kept with two clients: "Each client request has the current client mqid
\* so the server always knows where to respond to" (PE-Control/main.c:171), and
\* the return value "indicates success or failure of the request" (main.c:5).
CompletionOf(request) ==
  CASE request = "CLIENT_REQ_HISTORY" -> {"history"}
    [] request = "CLIENT_REQ_REPORT"  -> {"report"}
    [] OTHER -> {"logmode 0", "logmode 1"}

SuccessMeansDone ==
  \A c \in Controls :
    exit_value[c] = "success" => heard[c][2].rsp \in CompletionOf(c_msg[c])
=============================================================================
