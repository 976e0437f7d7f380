------------------------------ MODULE Session -------------------------------
(***************************************************************************)
(* What the printer emulator promises to those who ask it for something:   *)
(* a client, the 1022's front panel, a test signal.  No bytes, records or  *)
(* files: only which session runs, what is asked for, whether the client   *)
(* is owed a completion, and when it is told.  Engine implements it.       *)
(*                                                                         *)
(* A report or history session may interrupt log mode and gives way to it  *)
(* again.  A request is forgotten only by the step that serves it.  The    *)
(* client hears of a log mode change when the change is requested of the   *)
(* 1022, of a report or history when it is complete, and only if owed.     *)
(***************************************************************************)
EXTENDS FiniteSets

CONSTANT Active   \* requests are served; FALSE: sessions are only overheard

VARIABLES
  alive,    \* there is a process; what is said below is said of it
  mode,     \* "steady", "report", "history" or "log"
  logging,  \* log mode is on, whichever session interrupts it
  asked,    \* requests not yet served
  owed,     \* a client waits for a completion
  notice    \* the completion the latest step told it, "" if none

vars == <<alive, mode, logging, asked, owed, notice>>

Requests == {"REPORT_REQ", "HISTORY_REQ", "LOGMODE_ON_REQ", "LOGMODE_OFF_REQ"}

RequestFor(m) == IF m = "report" THEN "REPORT_REQ" ELSE "HISTORY_REQ"

\* What a process starts with
Fresh ==
  /\ mode = "steady" /\ logging = FALSE
  /\ asked = {} /\ owed = FALSE /\ notice = ""

Init == Fresh /\ alive = TRUE

Tell(rsp) ==
  /\ notice' = IF owed THEN rsp ELSE ""
  /\ owed' = FALSE

\* Requests come in at any time, from a client or from elsewhere; a client
\* that becomes owed an answer asked for something.
Ask ==
  /\ \E R \in SUBSET Requests, client \in BOOLEAN :
       /\ client => R # {}
       /\ asked' = asked \cup R
       /\ owed' = (owed \/ client)
  /\ notice' = ""
  /\ UNCHANGED <<mode, logging>>

\* The order in which pending requests are served
Turn(r) ==
  CASE r = "LOGMODE_OFF_REQ" -> mode = "log"
    [] r = "REPORT_REQ" -> mode = "log" => "LOGMODE_OFF_REQ" \notin asked
    [] r = "HISTORY_REQ" ->
         /\ "REPORT_REQ" \notin asked
         /\ mode = "log" => "LOGMODE_OFF_REQ" \notin asked
    [] r = "LOGMODE_ON_REQ" ->
         mode = "steady" /\ asked \cap {"REPORT_REQ", "HISTORY_REQ"} = {}

Serve(r) == Active /\ r \in asked /\ Turn(r) /\ asked' = asked \ {r}

\* The printer module on the same line, or a record that looks like one,
\* starts a session nobody asked for here.
Overhear == (mode = "log" => ~Active) /\ UNCHANGED asked

Begin(m) ==
  /\ mode \in {"steady", "log"}
  /\ mode' = m
  /\ Serve(RequestFor(m)) \/ Overhear
  /\ notice' = ""
  /\ UNCHANGED <<logging, owed>>

Finish ==
  /\ mode \in {"report", "history"}
  /\ mode' = IF logging THEN "log" ELSE "steady"
  /\ Tell(mode)
  /\ UNCHANGED <<logging, asked>>

StartLog ==
  /\ mode = "steady" /\ Serve("LOGMODE_ON_REQ")
  /\ mode' = "log" /\ logging' = TRUE
  /\ Tell("logmode 1")

\* An overheard log mode is on from its first record.
OverhearLog ==
  /\ mode = "steady" /\ mode' = "log"
  /\ notice' = ""
  /\ UNCHANGED <<logging, asked, owed>>

FirstRecord ==
  /\ mode = "log" /\ ~logging /\ logging' = TRUE
  /\ notice' = ""
  /\ UNCHANGED <<mode, asked, owed>>

StopLog ==
  /\ mode = "log" /\ logging
  /\ mode' = "steady" /\ logging' = FALSE
  /\ \/ Serve("LOGMODE_OFF_REQ") /\ Tell("logmode 0")
     \/ ~Active /\ UNCHANGED <<asked, owed>> /\ notice' = ""

\* Bytes pass, nothing is promised or settled.
Pass == notice' = "" /\ UNCHANGED <<mode, logging, asked, owed>>

\* What a process does while it lives
Live ==
  \/ Ask \/ Begin("report") \/ Begin("history") \/ Finish
  \/ StartLog \/ OverhearLog \/ FirstRecord \/ StopLog \/ Pass

\* Everything that was asked of a process is gone with it.
Forget ==
  /\ mode' = "steady" /\ logging' = FALSE
  /\ asked' = {} /\ owed' = FALSE /\ notice' = ""

Next ==
  \/ alive /\ Live /\ alive' = TRUE
  \/ alive /\ Forget /\ alive' = FALSE
  \/ ~alive /\ alive' = TRUE /\ UNCHANGED <<mode, logging, asked, owed, notice>>

Spec == Init /\ [][Next]_vars

-----------------------------------------------------------------------------
(* Properties *)

TypeOK ==
  /\ mode \in {"steady", "report", "history", "log"}
  /\ logging \in BOOLEAN /\ owed \in BOOLEAN
  /\ asked \subseteq Requests
  /\ notice \in {"", "report", "history", "logmode 1", "logmode 0"}

\* A completion names what has just come to an end or has just been switched,
\* and leaves no debt: the client is never told twice for one request, nor
\* told of a report while a history runs.
NoticeIsTrue ==
  /\ notice # "" => ~owed
  /\ notice = "logmode 1" => logging
  /\ notice = "logmode 0" => ~logging
  /\ notice \in {"report", "history"} => mode \in {"steady", "log"}

\* Log mode survives the report or history session that interrupts it: it is
\* left for a report and entered again with the log bit up throughout, unless
\* the process dies.
LeavesDump == mode \in {"report", "history"} /\ mode' # mode
Resumes == logging' = logging /\ mode' = IF logging THEN "log" ELSE "steady"
LogModeResumes == [][LeavesDump /\ alive' => Resumes]_vars
=============================================================================
