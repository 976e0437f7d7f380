------------------------------- MODULE Parser -------------------------------
(***************************************************************************)
(* The byte-driven protocol state machine of Printer-Emulator/parser.c.    *)
(*                                                                         *)
(* One action per handler.  A handler is called with one received byte b   *)
(* and does in that call everything its action does: move the state        *)
(* machine, refill the record buffer, answer the 1022 (tx), write to a     *)
(* data file (wrote), notify the client (told).  tx, wrote and told hold   *)
(* what the latest step put out; a step that puts nothing out empties      *)
(* them.                                                                   *)
(*                                                                         *)
(* Names are those of the source.  Only the printf output, the DEBUG_DUMP  *)
(* option and the spelling of file names are left out.                     *)
(***************************************************************************)
EXTENDS Integers, Sequences

CONSTANTS
  Active,      \* options & ACTIVE_MODE: answers the 1022 (else it listens)
  Target,      \* options & TARGET: data files go to the RAM directory
  BufSize,     \* sizeof(buffer), 256 in the source
  FopenResult  \* what fopen may return: TRUE a stream, FALSE a NULL pointer

ASSUME ParserAssumption ==
  /\ Active \in BOOLEAN
  /\ Target \in BOOLEAN
  /\ BufSize \in Nat /\ BufSize >= 5     \* longest record a handler starts with
  /\ FopenResult \subseteq BOOLEAN /\ FopenResult # {}

VARIABLES
  header_state,  \* the handler the next byte goes to
  buffer,        \* cells keep their old contents when buffer_len is reset
  buffer_len,
  logmode,       \* the ST_LOGMODE bit of status, the only one that changes
  control,       \* the pending CONTROL_BITs
  hst_is_first,
  is_snapshot,   \* the next display record goes to readings.txt
  f_open,        \* the FILE pointers that are not NULL
  fault,         \* "none", or what ended the process inside a handler
  tx, wrote, told

parserVars == <<header_state, buffer, buffer_len, logmode, control,
                hst_is_first, is_snapshot, f_open, fault, tx, wrote, told>>

-----------------------------------------------------------------------------
(* Bytes and types *)

Byte == 0..255
DISPLAY == 145   \* 0x91, a VFD record follows
PRINTER == 144   \* 0x90, addressed to the printer module
DELIM   == 152   \* 0x98, ends a record
CR      == 13
AT      == 64    \* '@'
SEMI    == 59    \* ';'
HCh == 72
ICh == 73
LCh == 76
RCh == 82
TCh == 84
EndMark == <<SEMI, 101, 110, 100, CR>>   \* ";end" and a carriage return

StatusOf(lm) == IF lm THEN 84 ELSE 68    \* ST_PRWON | ST_READY [| ST_LOGMODE]
status_get == StatusOf(logmode)
HasLogBit(byte) == (byte \div 16) % 2 = 1

SteadyStates  == {"SS_UNKNOWN", "SS_PAUSE", "SS_DISPLAY", "SS_PRINTER"}
ReportStates  == {"RPT_START", "RPT_DATA", "RPT_DISPLAY", "RPT_PRINTER"}
HistoryStates == {"HST_START", "HST_DISPLAY", "HST_PRINTER",
                  "HST_PRINTER_ACTIVE", "HST_DATA"}
LogStates     == {"LOG_START", "LOG_DATA", "LOG_DISPLAY", "LOG_PRINTER",
                  "LOG_PRINTER_ACTIVE"}
HeaderStates  == SteadyStates \cup ReportStates \cup HistoryStates \cup LogStates

Requests    == {"REPORT_REQ", "HISTORY_REQ", "LOGMODE_ON_REQ", "LOGMODE_OFF_REQ"}
ControlBits == Requests \cup {"MESSAGE_SRC"}
Files       == {"rdg", "rpt", "hst", "log"}

MTypes == {"NONE", "SERVER_REQUEST_SUCCESS", "SERVER_ACTION_SUCCESS"}
Texts  == {"", "report", "history", "exit", "logmode 0", "logmode 16",
           "logmode 1", "logmode 0 file", "report file", "history file"}
Message == [mtype : MTypes, rsp : Texts]
Written == [file : Files \cup {"none"}, data : Seq(Byte)]
NoMsg   == [mtype |-> "NONE", rsp |-> ""]
Nothing == [file |-> "none", data |-> <<>>]
ActionSuccess(rsp) == [mtype |-> "SERVER_ACTION_SUCCESS", rsp |-> rsp]

-----------------------------------------------------------------------------
(* What the handlers share *)

Contents == [k \in 1..buffer_len |-> buffer[k - 1]]
LastByte == buffer[buffer_len - 1]

\* Mutant: buffer_len is not reset before the record is stored
Fill_NoReset(rec) ==
  /\ buffer_len' = buffer_len + Len(rec)
  /\ buffer' = [k \in 0..BufSize-1 |->
                  IF k < Len(rec) THEN rec[k + 1] ELSE buffer[k]]

\* buffer_len = 0, then one buffer[buffer_len++] = ... per byte of rec
Fill(rec) ==
  /\ buffer_len' = Len(rec)
  /\ buffer' = [k \in 0..BufSize-1 |->
                  IF k < Len(rec) THEN rec[k + 1] ELSE buffer[k]]

Goto(state, rec) == header_state' = state /\ Fill(rec)

\* The code stores without comparing buffer_len to the size of buffer.
Push(b) ==
  IF buffer_len < BufSize
  THEN /\ buffer' = [buffer EXCEPT ![buffer_len] = b]
       /\ buffer_len' = buffer_len + 1
       /\ UNCHANGED fault
  ELSE fault' = "overrun" /\ UNCHANGED <<buffer, buffer_len>>

NoReply  == tx' = <<>>
NoWrite  == wrote' = Nothing
NoNotice == told' = NoMsg
Silent   == NoReply /\ NoWrite /\ NoNotice

\* Reset the buffer to rec and hand the next byte to state; nothing else
Enter(state, rec) ==
  /\ Goto(state, rec)
  /\ Silent
  /\ UNCHANGED <<logmode, control, hst_is_first, is_snapshot, f_open, fault>>

Accumulate(b) ==
  /\ Push(b)
  /\ Silent
  /\ UNCHANGED <<header_state, logmode, control, hst_is_first, is_snapshot, f_open>>

\* Store the byte and hand the next one to another handler
PushTo(state, b) ==
  /\ Push(b)
  /\ header_state' = state
  /\ Silent
  /\ UNCHANGED <<logmode, control, hst_is_first, is_snapshot, f_open>>

\* The call ends the process: nothing behind it in the handler happens
Dies(why) ==
  /\ fault' = why
  /\ Silent
  /\ UNCHANGED <<header_state, buffer, buffer_len, logmode, control,
                 hst_is_first, is_snapshot, f_open>>

NullStream == Dies("null")     \* rewind, fwrite or fclose of a NULL pointer

\* Mutant: the answer is sent and not recorded
Answer_Unrecorded(state, prefix, lm, request) ==
  /\ tx' = <<StatusOf(lm)>> \o request
  /\ Goto(state, <<>>)

\* write() to the serial port, and record what was sent behind prefix
Answer(state, prefix, lm, request) ==
  /\ tx' = <<StatusOf(lm)>> \o request
  /\ Goto(state, prefix \o <<StatusOf(lm)>> \o request)

\* Mutant: the client is told, and MESSAGE_SRC stays up
Settle_Unpaid(bit, rsp) ==
  /\ control' = control \ {bit}
  /\ told' = IF "MESSAGE_SRC" \in control THEN ActionSuccess(rsp) ELSE NoMsg

\* The request bit is served; a client that waits for it is told
Settle(bit, rsp) ==
  /\ control' = control \ {bit, "MESSAGE_SRC"}
  /\ told' = IF "MESSAGE_SRC" \in control THEN ActionSuccess(rsp) ELSE NoMsg

\* Mutant: as above, at the end of a session
SettleSession_Unpaid(rsp) ==
  /\ UNCHANGED control
  /\ told' = IF "MESSAGE_SRC" \in control THEN ActionSuccess(rsp) ELSE NoMsg

\* The end of a session that was served when it began
SettleSession(rsp) ==
  /\ control' = control \ {"MESSAGE_SRC"}
  /\ told' = IF "MESSAGE_SRC" \in control THEN ActionSuccess(rsp) ELSE NoMsg

\* readings.txt is opened once, in parse_open, and not tested afterwards
ReadingLost == is_snapshot /\ "rdg" \notin f_open
SaveReading ==
  /\ is_snapshot' = FALSE
  /\ wrote' = IF is_snapshot THEN [file |-> "rdg", data |-> Contents] ELSE Nothing

\* Mutant: one byte too few, as when the leading 0x98 is to be left out and
\* only the length is adjusted
WriteIfOpen_Short(f, data) ==
  wrote' = IF f \in f_open /\ data # <<>>
           THEN [file |-> f, data |-> SubSeq(data, 1, Len(data) - 1)] ELSE Nothing

WriteIfOpen(f, data) ==
  wrote' = IF f \in f_open THEN [file |-> f, data |-> data] ELSE Nothing

\* Mutant: the FILE pointer stays NULL, as when unique_filename fails
OpenFile_Failed(f, ok) == UNCHANGED f_open

OpenFile(f, ok) == f_open' = IF ok THEN f_open \cup {f} ELSE f_open \ {f}

\* Mutant: the FILE pointer is not set to NULL behind fclose
CloseFile_Leaked(f) == UNCHANGED f_open

CloseFile(f) == f_open' = f_open \ {f}

\* Mutant: the cells are compared one place too far in front
MarkAt_Shifted(oob) ==
  buffer_len >= 6 /\ \A k \in 1..5 : buffer[buffer_len - 1 - k] = EndMark[6 - k]

\* The last five cells spell ";end\r".  For a record below five bytes that is
\* buffer[buffer_len - 5] and up to three more in front of the buffer, which are
\* compared first and hold anything: oob says whether they match.
MarkAt(oob) ==
  /\ \A k \in 1..5 : k <= buffer_len => buffer[buffer_len - k] = EndMark[6 - k]
  /\ buffer_len >= 5 \/ oob

\* Mutant: the engine answers on the 0x98, before it is addressed
PollSeen_Early(b) == b = DELIM /\ buffer_len > 1

\* The poll of the printer module, 0x90 behind the 0x98 that ends a record
PollSeen(b) == LastByte = DELIM /\ b = PRINTER

-----------------------------------------------------------------------------
(* Steady state *)

SS_Unknown(b) ==
  /\ header_state = "SS_UNKNOWN"
  /\ IF b = DISPLAY THEN Enter("SS_DISPLAY", <<DISPLAY>>) ELSE Accumulate(b)

\* Mutant: the request is not cleared before it is acted on
StartSession_Sticky(bit, state, prefix, request) ==
  /\ bit \in control
  /\ UNCHANGED control
  /\ Answer(state, prefix, logmode, request)
  /\ NoNotice
  /\ UNCHANGED <<logmode, hst_is_first, f_open, fault>>

\* A request bit is consumed by the reply that carries it to the 1022.
StartSession(bit, state, prefix, request) ==
  /\ bit \in control
  /\ control' = control \ {bit}
  /\ Answer(state, prefix, logmode, request)
  /\ NoNotice
  /\ UNCHANGED <<logmode, hst_is_first, f_open, fault>>

StartLog(b) ==
  /\ "LOGMODE_ON_REQ" \in control
  /\ logmode' = TRUE
  /\ Settle("LOGMODE_ON_REQ", "logmode 1")
  /\ Answer("LOG_START", <<b>>, TRUE, <<TCh, CR>>)
  /\ NoWrite
  /\ UNCHANGED <<hst_is_first, is_snapshot, f_open, fault>>

SS_Pause_Active(b) ==
  \/ StartSession("REPORT_REQ", "RPT_START", <<b>>, <<RCh, CR>>)
     /\ NoWrite /\ UNCHANGED is_snapshot
  \/ /\ "REPORT_REQ" \notin control
     /\ StartSession("HISTORY_REQ", "HST_START", <<b>>, <<ICh, CR>>)
     /\ NoWrite /\ UNCHANGED is_snapshot
  \/ /\ control \cap {"REPORT_REQ", "HISTORY_REQ"} = {}
     /\ StartLog(b)
  \/ /\ control \cap {"REPORT_REQ", "HISTORY_REQ", "LOGMODE_ON_REQ"} = {}
     /\ Answer("SS_PRINTER", <<b>>, logmode, <<>>)
     /\ NoWrite /\ NoNotice
     /\ UNCHANGED <<logmode, control, hst_is_first, is_snapshot, f_open, fault>>

\* The bit that '@' and a letter from the 1022's panel ask for
DirectiveBit(letter, onL) ==
  CASE letter = RCh -> {"REPORT_REQ"}
    [] letter = HCh -> {"HISTORY_REQ"}
    [] letter = LCh -> {onL}
    [] OTHER -> {}

IsDirective(b) == buffer_len >= 2 /\ buffer[buffer_len - 2] = AT /\ b = CR

SS_Pause_Directive ==
  /\ control' = IF Active
                THEN control \cup DirectiveBit(LastByte, "LOGMODE_ON_REQ")
                ELSE control
  /\ buffer_len' = 0
  /\ Silent
  /\ UNCHANGED <<header_state, buffer, logmode, hst_is_first, is_snapshot,
                 f_open, fault>>

SS_Pause(b) ==
  /\ header_state = "SS_PAUSE"
  /\ \/ b = PRINTER /\ Active /\ SS_Pause_Active(b)
     \/ b = PRINTER /\ ~Active /\ Enter("SS_PRINTER", <<b>>)
     \/ b # PRINTER /\ IsDirective(b) /\ SS_Pause_Directive
     \/ b # PRINTER /\ ~IsDirective(b) /\ Accumulate(b)

SS_Display(b) ==
  /\ header_state = "SS_DISPLAY"
  /\ \/ b = DELIM /\ ReadingLost /\ NullStream
     \/ /\ b = DELIM /\ ~ReadingLost
        /\ SaveReading
        /\ Goto("SS_PAUSE", <<b>>)
        /\ NoReply /\ NoNotice
        /\ UNCHANGED <<logmode, control, hst_is_first, f_open, fault>>
     \/ b # DELIM /\ Accumulate(b)

\* A session the printer module was heard to start: its letter, then CR
Overheard(letter) ==
  CASE letter = RCh -> "RPT_START"
    [] letter = ICh -> "HST_START"
    [] letter = TCh -> "LOG_START"
    [] OTHER -> "none"

SS_Printer(b) ==
  /\ header_state = "SS_PRINTER"
  /\ \/ b = DELIM /\ Enter("SS_PAUSE", <<b>>)
     \/ b = CR /\ Overheard(LastByte) # "none" /\ PushTo(Overheard(LastByte), b)
     \/ b # DELIM /\ ~(b = CR /\ Overheard(LastByte) # "none") /\ Accumulate(b)

-----------------------------------------------------------------------------
(* Report *)

RPT_Start(b) ==
  /\ header_state = "RPT_START"
  /\ \/ /\ b = DELIM
        /\ \E ok \in FopenResult :
             IF Target /\ ~ok THEN NullStream       \* rewind( f_rpt )
             ELSE /\ OpenFile("rpt", ok)
                  /\ Goto("RPT_DATA", <<b>>)
                  /\ Silent
                  /\ UNCHANGED <<logmode, control, hst_is_first, is_snapshot, fault>>
     \/ b # DELIM /\ Accumulate(b)

\* Mutant: log mode is forgotten
AfterSession_Steady == "SS_DISPLAY"

AfterSession == IF logmode THEN "LOG_DISPLAY" ELSE "SS_DISPLAY"

RPT_Data(b) ==
  /\ header_state = "RPT_DATA"
  /\ \/ /\ b = DISPLAY /\ MarkAt(FALSE)
        /\ WriteIfOpen("rpt", Contents)
        /\ CloseFile("rpt")
        /\ SettleSession("report file")
        /\ Goto(AfterSession, <<b>>)
        /\ NoReply
        /\ UNCHANGED <<logmode, hst_is_first, is_snapshot, fault>>
     \/ /\ b = DISPLAY /\ ~MarkAt(FALSE)
        /\ WriteIfOpen("rpt", Contents)
        /\ Goto("RPT_DISPLAY", <<b>>)
        /\ NoReply /\ NoNotice
        /\ UNCHANGED <<logmode, control, hst_is_first, is_snapshot, f_open, fault>>
     \/ b # DISPLAY /\ Accumulate(b)

RPT_Display(b) ==
  /\ header_state = "RPT_DISPLAY"
  /\ \/ PollSeen(b) /\ ReadingLost /\ NullStream
     \/ /\ PollSeen(b) /\ ~ReadingLost
        /\ SaveReading
        /\ IF Active THEN Answer("RPT_PRINTER", <<DELIM, b>>, logmode, <<>>)
                     ELSE Goto("RPT_PRINTER", <<DELIM, b>>) /\ NoReply
        /\ NoNotice
        /\ UNCHANGED <<logmode, control, hst_is_first, f_open, fault>>
     \/ ~PollSeen(b) /\ Accumulate(b)

RPT_Printer(b) ==
  /\ header_state = "RPT_PRINTER"
  /\ IF b = DELIM THEN Enter("RPT_DATA", <<b>>) ELSE Accumulate(b)

-----------------------------------------------------------------------------
(* History *)

HST_Start(b) ==
  /\ header_state = "HST_START"
  /\ \/ /\ b = DELIM
        /\ \E ok \in FopenResult :
             IF Target /\ ~ok THEN NullStream       \* rewind( f_hst )
             ELSE /\ OpenFile("hst", ok)
                  /\ hst_is_first' = TRUE
                  /\ Goto("HST_DISPLAY", <<b>>)
                  /\ Silent
                  /\ UNCHANGED <<logmode, control, is_snapshot, fault>>
     \/ b # DELIM /\ Accumulate(b)

HST_Display(b) ==
  /\ header_state = "HST_DISPLAY"
  /\ \/ PollSeen(b) /\ ReadingLost /\ NullStream
     \/ /\ PollSeen(b) /\ ~ReadingLost
        /\ SaveReading
        /\ IF Active
           THEN /\ hst_is_first' = FALSE
                /\ Answer("HST_PRINTER_ACTIVE", <<DELIM, b>>, logmode,
                          IF hst_is_first THEN <<TCh, CR>> ELSE <<HCh, CR>>)
           ELSE /\ Goto("HST_PRINTER", <<DELIM, b>>)
                /\ NoReply /\ UNCHANGED hst_is_first
        /\ NoNotice
        /\ UNCHANGED <<logmode, control, f_open, fault>>
     \/ ~PollSeen(b) /\ Accumulate(b)

\* Mutant: the 0x98 that ends an ordinary printer record is not stored
HST_Printer_NoStore(b) ==
  /\ header_state = "HST_PRINTER"
  /\ \/ /\ b = DELIM
        /\ IF buffer[buffer_len - 2] \in {HCh, TCh} /\ LastByte = CR
           THEN Enter("HST_DATA", <<DELIM>>)
           ELSE Enter("HST_DISPLAY", <<>>)
     \/ b # DELIM /\ Accumulate(b)

\* Passive: the printer module asked for a record ('H', or 'T' for the first)
HST_Printer(b) ==
  /\ header_state = "HST_PRINTER"
  /\ \/ /\ b = DELIM
        /\ IF buffer[buffer_len - 2] \in {HCh, TCh} /\ LastByte = CR
           THEN Enter("HST_DATA", <<DELIM>>)
           ELSE Enter("HST_DISPLAY", <<b>>)
     \/ b # DELIM /\ Accumulate(b)

\* Mutant: the history record starts without its 0x98
HST_Printer_Active_NoStore(b) ==
  /\ header_state = "HST_PRINTER_ACTIVE"
  /\ IF b = DELIM THEN Enter("HST_DATA", <<>>) ELSE Accumulate(b)

HST_Printer_Active(b) ==
  /\ header_state = "HST_PRINTER_ACTIVE"
  /\ IF b = DELIM THEN Enter("HST_DATA", <<b>>) ELSE Accumulate(b)

\* Unlike RPT_Data: no test of buffer_len before the mark is compared, and
\* none of f_hst before it is closed.
HST_Data(b) ==
  /\ header_state = "HST_DATA"
  /\ \/ /\ b = DISPLAY
        /\ \E oob \in BOOLEAN :
             \/ MarkAt(oob) /\ "hst" \notin f_open /\ NullStream
             \/ /\ MarkAt(oob) /\ "hst" \in f_open
                /\ WriteIfOpen("hst", Contents)
                /\ CloseFile("hst")
                /\ SettleSession("history file")
                /\ Goto(AfterSession, <<b>>)
                /\ NoReply
                /\ UNCHANGED <<logmode, hst_is_first, is_snapshot, fault>>
             \/ /\ ~MarkAt(oob)
                /\ WriteIfOpen("hst", Contents)
                /\ Goto("HST_DISPLAY", <<DELIM, b>>)
                /\ NoReply /\ NoNotice
                /\ UNCHANGED <<logmode, control, hst_is_first, is_snapshot,
                               f_open, fault>>
     \/ b # DISPLAY /\ Accumulate(b)

-----------------------------------------------------------------------------
(* Log mode *)

LOG_Start(b) ==
  /\ header_state = "LOG_START"
  /\ \/ /\ b = DELIM
        /\ \E ok \in FopenResult : OpenFile("log", ok)
        /\ logmode' = TRUE
        /\ Goto("LOG_DATA", <<b>>)
        /\ Silent
        /\ UNCHANGED <<control, hst_is_first, is_snapshot, fault>>
     \/ b # DELIM /\ Accumulate(b)

\* The record without its leading 0x98.  When the buffer is empty and an old
\* 0x98 is still in its first cell, the length passed to fwrite is -1.
LogRecord == IF buffer[0] = DELIM THEN Tail(Contents) ELSE Contents
LogRecordWritten == "log" \in f_open /\ buffer[1] # SEMI
LogLengthWraps == LogRecordWritten /\ buffer[0] = DELIM /\ buffer_len = 0

\* buffer[1] and buffer[2] are read whatever buffer_len is.
LOG_Data(b) ==
  /\ header_state = "LOG_DATA"
  /\ \/ b = DISPLAY /\ LogLengthWraps /\ Dies("overrun")
     \/ /\ b = DISPLAY /\ ~LogLengthWraps
        /\ control' = IF Active /\ buffer[1] = AT
                      THEN control \cup DirectiveBit(buffer[2], "LOGMODE_OFF_REQ")
                      ELSE control
        /\ IF LogRecordWritten THEN wrote' = [file |-> "log", data |-> LogRecord]
           ELSE NoWrite
        /\ Goto("LOG_DISPLAY", <<b>>)
        /\ NoReply /\ NoNotice
        /\ UNCHANGED <<logmode, hst_is_first, is_snapshot, f_open, fault>>
     \/ b # DISPLAY /\ Accumulate(b)

\* Mutant: the file is closed, the log bit of the status stays up
StopLog_BitStays(b) ==
  /\ "LOGMODE_OFF_REQ" \in control
  /\ Settle("LOGMODE_OFF_REQ", "logmode 0 file")
  /\ Answer("SS_PRINTER", <<DELIM, b>>, logmode, <<>>)
  /\ CloseFile("log")
  /\ UNCHANGED <<logmode, hst_is_first, fault>>

\* Log mode ends: the LOGMODE bit is dropped in the very reply
StopLog(b) ==
  /\ "LOGMODE_OFF_REQ" \in control
  /\ logmode' = FALSE
  /\ Settle("LOGMODE_OFF_REQ", "logmode 0 file")
  /\ Answer("SS_PRINTER", <<DELIM, b>>, FALSE, <<>>)
  /\ CloseFile("log")
  /\ UNCHANGED <<hst_is_first, fault>>

LOG_Display_Active(b) ==
  \/ StopLog(b)
  \/ /\ "LOGMODE_OFF_REQ" \notin control
     /\ StartSession("REPORT_REQ", "RPT_START", <<DELIM, b>>, <<RCh, CR>>)
  \/ /\ control \cap {"LOGMODE_OFF_REQ", "REPORT_REQ"} = {}
     /\ StartSession("HISTORY_REQ", "HST_START", <<DELIM, b>>, <<ICh, CR>>)
  \/ /\ control \cap {"LOGMODE_OFF_REQ", "REPORT_REQ", "HISTORY_REQ"} = {}
     /\ Answer("LOG_PRINTER_ACTIVE", <<DELIM, b>>, logmode, <<LCh, CR>>)
     /\ NoNotice
     /\ UNCHANGED <<logmode, control, hst_is_first, f_open, fault>>

LOG_Display(b) ==
  /\ header_state = "LOG_DISPLAY"
  /\ \/ PollSeen(b) /\ ReadingLost /\ NullStream
     \/ PollSeen(b) /\ ~ReadingLost /\ SaveReading /\ Active /\ LOG_Display_Active(b)
     \/ /\ PollSeen(b) /\ ~ReadingLost /\ SaveReading /\ ~Active
        /\ Goto("LOG_PRINTER", <<DELIM, b>>)
        /\ NoReply /\ NoNotice
        /\ UNCHANGED <<logmode, control, hst_is_first, f_open, fault>>
     \/ LastByte = DELIM /\ b = DISPLAY /\ Enter("LOG_DISPLAY", <<DELIM, b>>)
     \/ LastByte = DELIM /\ b = SEMI /\ Enter("LOG_DATA", <<DELIM, b>>)
     \/ ~(LastByte = DELIM /\ b \in {PRINTER, DISPLAY, SEMI}) /\ Accumulate(b)

\* Mutant: the overheard end of log mode leaves the log bit up
LOG_Printer_Quiet_BitStays(b) ==
  IF HasLogBit(buffer[2])
  THEN Enter("LOG_DISPLAY", <<b>>)
  ELSE /\ CloseFile("log")
       /\ Goto("SS_DISPLAY", <<b>>)
       /\ Silent
       /\ UNCHANGED <<logmode, control, hst_is_first, is_snapshot, fault>>

\* Passive: buffer[2] stands for the status byte the printer module sent
LOG_Printer_Quiet(b) ==
  IF HasLogBit(buffer[2])
  THEN Enter("LOG_DISPLAY", <<b>>)
  ELSE /\ CloseFile("log")
       /\ logmode' = FALSE
       /\ Goto("SS_DISPLAY", <<b>>)
       /\ Silent
       /\ UNCHANGED <<control, hst_is_first, is_snapshot, fault>>

\* An overheard 'L' empties the buffer after the CR is stored in it
LOG_Printer_Record(b) ==
  /\ header_state' = "LOG_DATA"
  /\ IF buffer_len < BufSize
     THEN /\ buffer' = [buffer EXCEPT ![buffer_len] = b]
          /\ buffer_len' = 0
          /\ UNCHANGED fault
     ELSE fault' = "overrun" /\ UNCHANGED <<buffer, buffer_len>>
  /\ Silent
  /\ UNCHANGED <<logmode, control, hst_is_first, is_snapshot, f_open>>

LOG_Printer(b) ==
  /\ header_state = "LOG_PRINTER"
  /\ \/ b = DELIM /\ LOG_Printer_Quiet(b)
     \/ b = CR /\ LastByte = LCh /\ LOG_Printer_Record(b)
     \/ b = CR /\ LastByte = RCh /\ PushTo("RPT_START", b)
     \/ b = CR /\ LastByte = ICh /\ PushTo("HST_START", b)
     \/ b # DELIM /\ ~(b = CR /\ LastByte \in {LCh, RCh, ICh}) /\ Accumulate(b)

LOG_Printer_Active(b) ==
  /\ header_state = "LOG_PRINTER_ACTIVE"
  /\ IF b = DELIM THEN Enter("LOG_DATA", <<b>>) ELSE Accumulate(b)

-----------------------------------------------------------------------------
(* parse_open, parse_header *)

ParseOpen ==
  /\ header_state = "SS_UNKNOWN"
  /\ buffer = [k \in 0..BufSize-1 |-> 0]
  /\ buffer_len = 0
  /\ logmode = FALSE
  /\ control = {}
  /\ hst_is_first = FALSE
  /\ is_snapshot = FALSE
  /\ f_open \in {IF ok THEN {"rdg"} ELSE {} : ok \in FopenResult}
  /\ fault = "none"
  /\ tx = <<>> /\ wrote = Nothing /\ told = NoMsg

\* The switch of parse_header: one received byte goes to one handler
ParseByte(b) ==
  /\ fault = "none"
  /\ \/ SS_Unknown(b) \/ SS_Pause(b) \/ SS_Display(b) \/ SS_Printer(b)
     \/ RPT_Start(b) \/ RPT_Data(b) \/ RPT_Display(b) \/ RPT_Printer(b)
     \/ HST_Start(b) \/ HST_Display(b) \/ HST_Printer(b)
     \/ HST_Printer_Active(b) \/ HST_Data(b)
     \/ LOG_Start(b) \/ LOG_Data(b) \/ LOG_Display(b) \/ LOG_Printer(b)
     \/ LOG_Printer_Active(b)

-----------------------------------------------------------------------------
(* The types of the parser's variables, the parser's part of TypeOK *)

ParserTypeOK ==
  /\ header_state \in HeaderStates
  /\ buffer \in [0..BufSize-1 -> Byte]
  /\ buffer_len \in 0..BufSize
  /\ logmode \in BOOLEAN
  /\ control \subseteq ControlBits
  /\ hst_is_first \in BOOLEAN
  /\ is_snapshot \in BOOLEAN
  /\ f_open \subseteq Files
  /\ fault \in {"none", "null", "overrun"}
  /\ tx \in Seq(Byte)
  /\ wrote \in Written
  /\ told \in Message
=============================================================================
