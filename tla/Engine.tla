------------------------------- MODULE Engine -------------------------------
(***************************************************************************)
(* The live process of Printer-Emulator/main.c: the loop that takes the    *)
(* signal triggers and at most one client message, blocks in read() and    *)
(* hands the bytes it got to the parser; the end of that loop; the death   *)
(* and the restart of the process.                                         *)
(*                                                                         *)
(* read() returns one byte or more, so between two bytes the head of the   *)
(* loop may run once, or not at all, and never twice.  The bytes are any   *)
(* sequence over Bytes: what the line may carry is not assumed here.       *)
(***************************************************************************)
EXTENDS Parser

CONSTANTS
  Bytes,     \* the byte values that may arrive
  Messages,  \* the client requests that may arrive
  Signals,   \* the trigger signals that may arrive
  Mortal     \* TRUE: the process may be killed at any point

ClientMessages == {"CLIENT_INIT", "CLIENT_REQ_HISTORY", "CLIENT_REQ_LOG",
                   "CLIENT_REQ_REPORT", "CLIENT_REQ_EXIT"}

ASSUME EngineAssumption ==
  /\ Bytes \subseteq Byte
  /\ Messages \subseteq ClientMessages
  /\ Signals \subseteq {"SIGUSR1", "SIGUSR2"}
  /\ Mortal \in BOOLEAN
  \* main runs this loop in active mode only; a passive parser is fed by the
  \* unit test, which takes no requests
  /\ ~Active => Messages = {} /\ Signals = {}

VARIABLES
  trigger1, trigger2,  \* set by the signal handlers
  isRunning,
  loop  \* "top" before the head of the loop, "reading" after it, "midchunk"
        \* once a byte of the chunk is parsed, "down" with no process

engineVars == <<parserVars, trigger1, trigger2, isRunning, loop>>

-----------------------------------------------------------------------------
(* control_receive_msg *)

NoRequest == "none"      \* the queue was empty

\* Mutant: the log request switches off whatever the mode is
RequestBits_AlwaysOff(m) ==
  CASE m = "CLIENT_REQ_HISTORY" -> {"HISTORY_REQ", "MESSAGE_SRC"}
    [] m = "CLIENT_REQ_REPORT"  -> {"REPORT_REQ", "MESSAGE_SRC"}
    [] m = "CLIENT_REQ_LOG" -> {"LOGMODE_OFF_REQ", "MESSAGE_SRC"}
    [] OTHER -> {}

\* Mutant: the log request does not toggle
RequestBits_NoToggle(m) ==
  CASE m = "CLIENT_REQ_HISTORY" -> {"HISTORY_REQ", "MESSAGE_SRC"}
    [] m = "CLIENT_REQ_REPORT"  -> {"REPORT_REQ", "MESSAGE_SRC"}
    [] m = "CLIENT_REQ_LOG" -> {"LOGMODE_ON_REQ", "MESSAGE_SRC"}
    [] OTHER -> {}

RequestBits(m) ==
  CASE m = "CLIENT_REQ_HISTORY" -> {"HISTORY_REQ", "MESSAGE_SRC"}
    [] m = "CLIENT_REQ_REPORT"  -> {"REPORT_REQ", "MESSAGE_SRC"}
    [] m = "CLIENT_REQ_LOG" ->
         {IF logmode THEN "LOGMODE_OFF_REQ" ELSE "LOGMODE_ON_REQ", "MESSAGE_SRC"}
    [] OTHER -> {}

RequestSuccess(rsp) == [mtype |-> "SERVER_REQUEST_SUCCESS", rsp |-> rsp]

\* status_is_logmode() returns the bit itself, 16
ReplyTo(m) ==
  CASE m = "CLIENT_INIT" -> ActionSuccess(IF logmode THEN "logmode 16" ELSE "logmode 0")
    [] m = "CLIENT_REQ_HISTORY" -> RequestSuccess("history")
    [] m = "CLIENT_REQ_REPORT"  -> RequestSuccess("report")
    [] m = "CLIENT_REQ_LOG"     -> RequestSuccess("")
    [] m = "CLIENT_REQ_EXIT"    -> RequestSuccess("exit")
    [] OTHER -> NoMsg

TriggerBits ==
  (IF trigger1 THEN {"LOGMODE_ON_REQ"} ELSE {}) \cup
  (IF trigger2 THEN {"LOGMODE_OFF_REQ"} ELSE {})

-----------------------------------------------------------------------------
(* The loop *)

Alive == loop # "down" /\ fault = "none"

Usr1 == /\ Alive /\ "SIGUSR1" \in Signals
        /\ trigger1' = TRUE
        /\ UNCHANGED <<parserVars, trigger2, isRunning, loop>>

Usr2 == /\ Alive /\ "SIGUSR2" \in Signals
        /\ trigger2' = TRUE
        /\ UNCHANGED <<parserVars, trigger1, isRunning, loop>>

\* Triggers, then one message, then read() blocks; the first thing done with
\* the bytes it returns is the test of the five second snapshot timer.
LoopHead(m) ==
  /\ Alive /\ isRunning /\ loop \in {"top", "midchunk"}
  /\ loop' = "reading"
  /\ trigger1' = FALSE /\ trigger2' = FALSE
  /\ control' = control \cup TriggerBits \cup RequestBits(m)
  /\ told' = ReplyTo(m)
  /\ isRunning' = (m # "CLIENT_REQ_EXIT")
  /\ \E due \in BOOLEAN : is_snapshot' = (is_snapshot \/ due)
  /\ NoReply /\ NoWrite
  /\ UNCHANGED <<header_state, buffer, buffer_len, logmode, hst_is_first,
                 f_open, fault>>

Receive(b) ==
  /\ Alive /\ loop \in {"reading", "midchunk"}
  /\ ParseByte(b)
  /\ loop' = "midchunk"
  /\ UNCHANGED <<trigger1, trigger2, isRunning>>

\* The memory of the process goes with it; the kernel closes its files.
ProcessGone ==
  /\ loop' = "down"
  /\ header_state' = "SS_UNKNOWN"
  /\ buffer' = [k \in 0..BufSize-1 |-> 0] /\ buffer_len' = 0
  /\ logmode' = FALSE /\ control' = {}
  /\ hst_is_first' = FALSE /\ is_snapshot' = FALSE
  /\ f_open' = {} /\ fault' = "none"
  /\ Silent
  /\ trigger1' = FALSE /\ trigger2' = FALSE
  /\ isRunning' = TRUE

\* The loop ends behind the read() that follows the exit request; parse_close.
Exit ==
  /\ Alive /\ ~isRunning /\ loop = "midchunk"
  /\ ProcessGone

\* SIGINT (_exit), SIGKILL, a fault in a handler
Die ==
  /\ loop # "down" /\ (Mortal \/ fault # "none")
  /\ ProcessGone

\* printem.service: Restart=always; main and parse_open run from the start
Restart ==
  /\ loop = "down"
  /\ loop' = "top"
  /\ \E ok \in FopenResult : f_open' = IF ok THEN {"rdg"} ELSE {}
  /\ UNCHANGED <<header_state, buffer, buffer_len, logmode, control, hst_is_first,
                 is_snapshot, fault, tx, wrote, told, trigger1, trigger2, isRunning>>

Init ==
  /\ ParseOpen
  /\ trigger1 = FALSE /\ trigger2 = FALSE
  /\ isRunning = TRUE
  /\ loop = "top"

Next ==
  \/ Usr1 \/ Usr2
  \/ \E m \in Messages \cup {NoRequest} : LoopHead(m)
  \/ \E b \in Bytes : Receive(b)
  \/ Exit \/ Die \/ Restart

Spec == Init /\ [][Next]_engineVars

-----------------------------------------------------------------------------
(* Properties *)

\* Every variable keeps its type; the record never outgrows the buffer.
TypeOK ==
  /\ ParserTypeOK
  /\ trigger1 \in BOOLEAN /\ trigger2 \in BOOLEAN
  /\ isRunning \in BOOLEAN
  /\ loop \in {"top", "reading", "midchunk", "down"}

\* A data file is open exactly while the session it belongs to runs: a report
\* or history file from the first record on, the log file as long as the log
\* bit is up, a report or history session in between included.  A file left
\* open would be leaked by the next fopen, one closed early would lose data.
SessionHas(f, states) ==
  /\ f \in f_open => header_state \in states
  /\ FALSE \notin FopenResult /\ header_state \in states => f \in f_open

FilesFollowSessions ==
  /\ SessionHas("rpt", ReportStates \ {"RPT_START"})
  /\ SessionHas("hst", HistoryStates \ {"HST_START"})
  /\ "log" \in f_open => logmode /\ header_state # "LOG_START"
  /\ FALSE \notin FopenResult /\ logmode /\ header_state # "LOG_START"
       => "log" \in f_open

\* The log bit of the status byte, which tells the 1022 to go on logging, is
\* down in steady state and up in the record handlers of log mode.
LogBitFollowsLogMode ==
  /\ header_state \in SteadyStates => ~logmode
  /\ header_state \in LogStates \ {"LOG_START"} => logmode

\* How far in front of buffer_len a handler reads with no test of buffer_len
LooksBack ==
  CASE header_state \in {"SS_PRINTER", "RPT_DISPLAY", "HST_DISPLAY", "LOG_DISPLAY",
                         "LOG_PRINTER"} -> 1
    [] header_state = "HST_PRINTER" -> 2
    [] header_state = "HST_DATA" -> 5
    [] OTHER -> 0

\* HST_Data alone reads in front of the buffer: at the end of a record below five
\* bytes it compares up to four cells there (parser.c:1088).  Nothing comes of
\* it: whatever these cells hold, the record is not taken for the end mark.  The
\* other handlers have stored what they look back at.
LookBackIsHarmless ==
  IF header_state = "HST_DATA"
  THEN buffer_len >= 1 /\ (buffer_len < LooksBack => ~MarkAt(TRUE))
  ELSE buffer_len >= LooksBack

\* LOG_Data reads buffer[1] and buffer[2] whatever the length of the record.
\* In active mode what may be left there of an earlier record, the engine's own
\* answer, is never taken for a panel directive or for ";wait".  This supposes
\* that nobody else answers for the printer module: behind an overheard "T"
\* any bytes may be left.
LogRecordIsFresh ==
  Active /\ header_state = "LOG_DATA" =>
    /\ buffer[1] \in {AT, SEMI} => buffer_len >= 2
    /\ buffer[1] = AT /\ buffer[2] \in {RCh, HCh, LCh} => buffer_len >= 3

\* A client that waits for a completion (MESSAGE_SRC) waits for something:
\* a request still pending or a session under way.
DebtIsBacked ==
  "MESSAGE_SRC" \in control =>
     \/ control \cap Requests # {}
     \/ header_state \in ReportStates \cup HistoryStates

\* A request to switch log mode off waits only while log mode is on, whatever is
\* asked for in between by clients and by the panel: none is left over to end a
\* log session started later.  SIGUSR2 alone raises the bit without a look at
\* the mode.
OffRequestFits ==
  Active /\ "SIGUSR2" \notin Signals =>
    ("LOGMODE_OFF_REQ" \in control => logmode)

\* No handler gives a NULL stream to rewind, fwrite or fclose.
NoNullStream == fault # "null"

\* A report or history session ends only on a record that closes with ";end",
\* and that record is in the file before the client hears of it.
LeavesSession ==
  /\ loop' # "down"
  /\ \E S \in {ReportStates, HistoryStates} : header_state \in S /\ header_state' \notin S

SessionEndsOnMark ==
  [][ LeavesSession =>
      /\ buffer_len >= 5 /\ SubSeq(Contents, buffer_len - 4, buffer_len) = EndMark
      /\ FALSE \notin FopenResult =>
           /\ wrote'.data = Contents
           /\ wrote'.file = IF header_state \in ReportStates THEN "rpt" ELSE "hst"
    ]_engineVars

\* Not kept: "We've written the record now close the file" says HST_Data where
\* it calls fclose (parser.c:1094).  With a fopen that failed there is none.
HistoryCloseHasFile ==
  [][ header_state = "HST_DATA" => fault' # "null" ]_engineVars

-----------------------------------------------------------------------------
(* The abstract promise *)

ModeOf ==
  CASE header_state \in SteadyStates  -> "steady"
    [] header_state \in ReportStates  -> "report"
    [] header_state \in HistoryStates -> "history"
    [] header_state \in LogStates     -> "log"

CompletionOf ==
  CASE told = ActionSuccess("report file")    -> "report"
    [] told = ActionSuccess("history file")   -> "history"
    [] told = ActionSuccess("logmode 1")      -> "logmode 1"
    [] told = ActionSuccess("logmode 0 file") -> "logmode 0"
    [] OTHER -> ""

Promise == INSTANCE Session WITH
  alive   <- loop # "down",
  mode    <- ModeOf,
  logging <- logmode,
  asked   <- control \cap Requests,
  owed    <- "MESSAGE_SRC" \in control,
  notice  <- CompletionOf

\* Whatever bytes arrive and however the process dies, what clients see of the
\* engine is a behaviour of Session: sessions are served in its order, end
\* once, give way to log mode again, completions are told to who is owed, and
\* only the end of the process forgets a request that was not served.
KeepsPromise == Promise!Spec

\* A client is told what has just happened, once, and owed nothing behind it.
CompletionIsTrue == Promise!NoticeIsTrue

\* A report or history that interrupts log mode gives way to log mode again, the
\* log bit up all the while, unless the process dies.
LogModeResumes == Promise!LogModeResumes
=============================================================================
