------------------------------- MODULE Queues -------------------------------
(***************************************************************************)
(* Common/message_services.c over the kernel's System V queues: the queue  *)
(* of the engine behind a well-known key, and one private queue for each   *)
(* client process.  Each operator is what one function does to the queues; *)
(* the modules of the processes say when it is called.                     *)
(*                                                                         *)
(* Queues belong to the kernel: they outlive the process that made them    *)
(* and are gone when a process removes them.  msgsnd waits while the queue *)
(* is full and fails when it is gone.  Ids are not used again, so a client *)
(* that holds the id of a removed queue can tell no more than that its     *)
(* msgsnd fails.                                                           *)
(***************************************************************************)
EXTENDS Naturals, Sequences, FiniteSets

CONSTANTS
  Consoles,  \* the PE-Console processes
  Controls,  \* the PE-Control processes
  NoClient,  \* client_mq_server before the first message
  Cap        \* messages a queue holds (msg_qbytes over the message size)

Clients == Consoles \cup Controls

ASSUME QueuesAssumption ==
  /\ Cap \in Nat \ {0}
  /\ Consoles \cap Controls = {}
  /\ NoClient \notin Clients

VARIABLES
  key,               \* id of the queue behind MSG_QUEUE_KEY, 0 if there is none
  made,              \* the ids given so far for the key
  requests,          \* what that queue holds
  exists,            \* the clients whose private queue exists
  answers,           \* what the private queues hold
  client_mq_server,  \* the engine's: the client that hears its answers
  server_mq_client   \* each client's: the id it was given for the key

queueVars == <<key, made, requests, exists, answers, client_mq_server,
               server_mq_client>>

RequestTypes == {"CLIENT_INIT", "CLIENT_REQ_HISTORY", "CLIENT_REQ_LOG",
                 "CLIENT_REQ_REPORT", "CLIENT_REQ_EXIT"}
AnswerTypes == {"SERVER_REQUEST_SUCCESS", "SERVER_ACTION_SUCCESS"}
Responses == {"", "history", "report", "exit", "logmode 0", "logmode 1", "logmode 16"}

\* cmd only repeats mtype
ClientReq == [mtype : RequestTypes, client_id : Clients]
ServerRsp == [mtype : AnswerTypes, rsp : Responses]

QueuesInit ==
  /\ key = 0 /\ made = 0 /\ requests = <<>>
  /\ exists = {} /\ answers = [c \in Clients |-> <<>>]
  /\ client_mq_server = NoClient
  /\ server_mq_client = [c \in Clients |-> 0]

-----------------------------------------------------------------------------
(* Server side *)

\* IPC_CREAT opens the queue a dead engine left, with what it holds
msg_create_server_mq ==
  /\ \/ key # 0 /\ UNCHANGED <<key, made, requests>>
     \/ key = 0 /\ made' = made + 1 /\ key' = made + 1 /\ requests' = <<>>
  /\ UNCHANGED <<exists, answers, client_mq_server, server_mq_client>>

\* Mutant: the address is taken from CLIENT_INIT only
msg_rcv_from_client_InitOnly ==
  /\ requests # <<>>
  /\ requests' = Tail(requests)
  /\ client_mq_server' = IF Head(requests).mtype = "CLIENT_INIT"
                         THEN Head(requests).client_id ELSE client_mq_server
  /\ UNCHANGED <<key, made, exists, answers, server_mq_client>>

\* Mutant: an address once known is kept
msg_rcv_from_client_FirstOnly ==
  /\ requests # <<>>
  /\ requests' = Tail(requests)
  /\ client_mq_server' = IF client_mq_server = NoClient
                         THEN Head(requests).client_id ELSE client_mq_server
  /\ UNCHANGED <<key, made, exists, answers, server_mq_client>>

\* Answers go to the sender of the latest message, whatever its type.
msg_rcv_from_client ==
  /\ requests # <<>>
  /\ requests' = Tail(requests)
  /\ client_mq_server' = Head(requests).client_id
  /\ UNCHANGED <<key, made, exists, answers, server_mq_client>>

\* Waits while the queue is full; the answer is dropped if the queue is gone.
msg_send_to_client(rsp) ==
  /\ \/ client_mq_server \notin exists /\ UNCHANGED answers
     \/ /\ client_mq_server \in exists /\ Len(answers[client_mq_server]) < Cap
        /\ answers' = [answers EXCEPT ![client_mq_server] = Append(@, rsp)]
  /\ UNCHANGED <<key, made, requests, exists, client_mq_server, server_mq_client>>

\* Requests that were not taken are gone with the queue.
msg_remove_server_mq == key' = 0 /\ requests' = <<>>

-----------------------------------------------------------------------------
(* Client side *)

\* msg_get_server_mq and msg_create_client_mq, which each client calls in a row
OpenQueues(c) ==
  /\ server_mq_client' = [server_mq_client EXCEPT ![c] = key]
  /\ exists' = exists \cup {c}
  /\ UNCHANGED <<key, made, requests, answers, client_mq_server>>

\* msgsnd finds the queue gone, before it waits or while it does
QueueGone(c) == server_mq_client[c] # key

\* Mutant: one message too many
QueueFull_Late(c) == ~QueueGone(c) /\ Len(requests) > Cap

QueueFull(c) == ~QueueGone(c) /\ Len(requests) >= Cap

\* msg_send_to_server, when it returns 0
msg_send_to_server(m) ==
  /\ ~QueueGone(m.client_id) /\ ~QueueFull(m.client_id)
  /\ requests' = Append(requests, m)
  /\ UNCHANGED <<key, made, exists, answers, client_mq_server, server_mq_client>>

msg_rcv_from_server(c) ==
  /\ answers[c] # <<>>
  /\ answers' = [answers EXCEPT ![c] = Tail(@)]
  /\ UNCHANGED <<key, made, requests, exists, client_mq_server, server_mq_client>>

\* Mutant: the queue stays
msg_remove_client_mq_Not(c) == UNCHANGED queueVars

msg_remove_client_mq(c) ==
  /\ exists' = exists \ {c}
  /\ answers' = [answers EXCEPT ![c] = <<>>]
  /\ UNCHANGED <<key, made, requests, client_mq_server, server_mq_client>>

-----------------------------------------------------------------------------
\* Every queue keeps its type and its capacity; ids are given once.
QueuesTypeOK ==
  /\ made \in Nat /\ key \in {0, made}
  /\ requests \in Seq(ClientReq) /\ Len(requests) <= Cap
  /\ exists \subseteq Clients
  /\ answers \in [Clients -> Seq(ServerRsp)]
  /\ \A c \in Clients : Len(answers[c]) <= Cap
  /\ client_mq_server \in Clients \cup {NoClient}
  /\ server_mq_client \in [Clients -> 0..made]
=============================================================================
