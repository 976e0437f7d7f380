-------------------------------- MODULE Link --------------------------------
(***************************************************************************)
(* The engine on the RS-485 line of a 1022 refractometer.                  *)
(*                                                                         *)
(* The 1022 is the master of the line.  It is not part of the repository:  *)
(* its side is taken from what parser.c expects and from the recordings    *)
(* under Printer-Emulator/Captures.  In each cycle it sends one frame      *)
(*                                                                         *)
(*    98 [payload] 91 display {98 91 display} 98 90                        *)
(*                                                                         *)
(* and then leaves the line to the printer module for one slot.  What the  *)
(* module answers decides the payload of the next frame.  A byte the       *)
(* module sends while the 1022 is sending is lost.                         *)
(*                                                                         *)
(* Bytes travel asynchronously: the engine reads them when it is scheduled *)
(* and a client's request may slip in between any two of them.             *)
(***************************************************************************)
EXTENDS Engine, SequencesExt

CONSTANTS
  Display,        \* one display record, from its 0x91 to its last byte
  DisplayCounts,  \* how many of them a frame without a payload may carry
  PayloadCounts,  \* ... and a frame with one
  ReportRecords,  \* payloads of a report; the last one ends with EndMark
  HistoryRecords, \* ... of a history
  LogRecords,     \* payloads the 1022 answers an 'L' with
  PanelLetters,   \* the directives pressed on the 1022's front panel
  Lag,            \* bound: bytes sent and not yet read
  Requests_Max,   \* bound: client requests in a behaviour
  Presses_Max     \* bound: panel directives in a behaviour

LineCodes == {DISPLAY, PRINTER, DELIM}
Text == Seq(Byte \ LineCodes)

EndsDump(rec) == Len(rec) >= 5 /\ SubSeq(rec, Len(rec) - 4, Len(rec)) = EndMark

\* In every recording a display record holds no 0x98 and no second 0x91, and a
\* 0x90 in one is the last byte but one; a payload holds none of the three.
ASSUME DisplayAssumption ==
  /\ Display \in Seq(Byte) /\ Display # <<>> /\ Head(Display) = DISPLAY
  /\ \A i \in 2..Len(Display) : Display[i] \notin {DISPLAY, DELIM}
  \* no CR behind a 0x90, and an answer to it comes before the frame is sent
  /\ \A i \in 1..Len(Display) : Display[i] = PRINTER =>
       /\ \A j \in i..Len(Display) : Display[j] # CR
       /\ Len(Display) - i + 2 >= Lag
  /\ DisplayCounts \subseteq Nat \ {0} /\ PayloadCounts \subseteq Nat \ {0}

ASSUME LinkAssumption ==
  /\ Active /\ Bytes = Byte
  /\ \A dump \in {ReportRecords, HistoryRecords} :
       /\ dump \in Seq(Text) /\ Len(dump) > 1
       /\ \A i \in 1..Len(dump) : EndsDump(dump[i]) <=> i = Len(dump)
  /\ LogRecords \subseteq Text /\ \A rec \in LogRecords : ~EndsDump(rec)
  /\ PanelLetters \subseteq Byte \ LineCodes
  /\ Lag \in Nat \ {0} /\ Requests_Max \in Nat /\ Presses_Max \in Nat

VARIABLES
  line,       \* bytes sent by the 1022 and not yet read by the engine
  m_out,      \* bytes of the frame the 1022 has still to send
  m_ear,      \* answers of the engine that fell into the slot
  m_mode,     \* the session the 1022 runs
  m_log,      \* it is in log mode, a report or history in between included
  m_todo,     \* records of the session it has still to send
  requested, pressed,   \* client requests and panel directives so far
  saved       \* payload written since a data file was opened

masterVars == <<line, m_out, m_ear, m_mode, m_log, m_todo, pressed, saved>>
linkVars == <<engineVars, masterVars, requested>>

-----------------------------------------------------------------------------
(* The 1022 *)

\* n display records, each with the 0x98 behind it
Burst(n) == FlattenSeq([i \in 1..n |-> Display \o <<DELIM>>])

Frame(payload, n) == <<DELIM>> \o payload \o Burst(n) \o <<PRINTER>>

Wait == <<SEMI, 119, CR>>                 \* ";wait", its letters abridged
Press(letter) == <<AT, letter, CR>>

\* ";wait" in front of the last of n + 1 display records, not of the first
LateWait(n) == <<DELIM>> \o Burst(n) \o Wait \o Burst(1) \o <<PRINTER>>
LateCounts == {count - 1 : count \in DisplayCounts \ {1}}

\* All that the 1022 sends, and the room it takes in the buffer: a whole frame
\* may join an answer that was left there.
Payloads ==
  {<<>>, Wait} \cup Range(ReportRecords) \cup Range(HistoryRecords) \cup LogRecords
    \cup UNION {{Press(letter), Press(letter) \o Wait} : letter \in PanelLetters}

CountsOf(payload) == IF payload = <<>> THEN DisplayCounts ELSE PayloadCounts

Frames ==
  {LateWait(n) : n \in LateCounts} \cup {Frame(<<>>, 1)}
    \cup UNION {{Frame(payload, n) : n \in CountsOf(payload)} : payload \in Payloads}

FramesFit == \A f \in Frames : Len(f) + 5 <= BufSize

SendFrame(payload) == \E n \in CountsOf(payload) : m_out' = Frame(payload, n)

SendByte ==
  /\ m_out # <<>> /\ Len(line) < Lag
  /\ line' = Append(line, Head(m_out))
  /\ m_out' = Tail(m_out)
  /\ UNCHANGED <<engineVars, m_ear, m_mode, m_log, m_todo, requested, pressed, saved>>

Slot == m_out = <<>>

\* A frame with nothing asked of it: now and then a key is pressed
IdleFrame ==
  \/ SendFrame(<<>>) /\ UNCHANGED pressed
  \/ /\ pressed < Presses_Max /\ pressed' = pressed + 1
     /\ \E letter \in PanelLetters : SendFrame(Press(letter))

NextRecord ==
  /\ m_todo # <<>>
  /\ SendFrame(Head(m_todo))
  /\ m_todo' = Tail(m_todo)
  /\ m_mode' = IF Tail(m_todo) # <<>> THEN m_mode
               ELSE IF m_log THEN "log" ELSE "steady"
  /\ UNCHANGED <<m_log, pressed>>

HearReport ==    \* the first record follows at once
  /\ m_mode' = "report"
  /\ SendFrame(Head(ReportRecords)) /\ m_todo' = Tail(ReportRecords)
  /\ UNCHANGED <<m_log, pressed>>

HearHistory ==   \* records are sent when they are asked for
  /\ m_mode' = "history"
  /\ SendFrame(<<>>) /\ m_todo' = HistoryRecords
  /\ UNCHANGED <<m_log, pressed>>

HearLogStart ==
  /\ m_mode' = "log" /\ m_log' = TRUE
  /\ \E rec \in LogRecords : SendFrame(rec)
  /\ UNCHANGED <<m_todo, pressed>>

HearLogRecord ==
  /\ \/ \E rec \in LogRecords : SendFrame(rec) /\ UNCHANGED pressed
     \/ SendFrame(Wait) /\ UNCHANGED pressed
     \/ \E n \in LateCounts : m_out' = LateWait(n) /\ UNCHANGED pressed
     \/ /\ pressed < Presses_Max /\ pressed' = pressed + 1
        /\ \E letter \in PanelLetters : SendFrame(Press(letter) \o Wait)
  /\ UNCHANGED <<m_mode, m_log, m_todo>>

HearNoLogBit ==
  /\ m_mode' = "steady" /\ m_log' = FALSE
  /\ SendFrame(<<>>)
  /\ UNCHANGED <<m_todo, pressed>>

Ignore == IdleFrame /\ UNCHANGED <<m_mode, m_log, m_todo>>
Silence == SendFrame(<<>>) /\ UNCHANGED <<m_mode, m_log, m_todo, pressed>>

Hear(st, request) ==
  CASE m_mode = "steady" /\ request = <<RCh, CR>> -> HearReport
    [] m_mode = "steady" /\ request = <<ICh, CR>> -> HearHistory
    [] m_mode = "steady" /\ request = <<TCh, CR>> -> HearLogStart
    [] m_mode = "steady" /\ request = <<>>        -> Ignore
    [] m_mode = "report" /\ request = <<>>        -> NextRecord
    [] m_mode = "history" /\ request \in {<<TCh, CR>>, <<HCh, CR>>} -> NextRecord
    [] m_mode = "log" /\ ~HasLogBit(st)           -> HearNoLogBit
    [] m_mode = "log" /\ HasLogBit(st) /\ request = <<RCh, CR>> -> HearReport
    [] m_mode = "log" /\ HasLogBit(st) /\ request = <<ICh, CR>> -> HearHistory
    [] m_mode = "log" /\ HasLogBit(st) /\ request = <<LCh, CR>> -> HearLogRecord
    [] OTHER -> Silence

\* The slot ends with an answer.  Should there be several, any one is taken.
TakeReply ==
  /\ Slot /\ m_ear # <<>>
  /\ \E k \in DOMAIN m_ear : Hear(Head(m_ear[k]), Tail(m_ear[k]))
  /\ m_ear' = <<>>
  /\ UNCHANGED <<engineVars, line, requested, saved>>

\* ... or without one.  The engine is fast enough to read all that was sent.
SlotOver ==
  /\ Slot /\ m_ear = <<>> /\ line = <<>>
  /\ Silence
  /\ m_ear' = <<>>
  /\ UNCHANGED <<engineVars, line, requested, saved>>

-----------------------------------------------------------------------------
(* The engine on the line *)

\* A record is written with the 0x98 in front of its payload.
Save ==
  saved' = IF {"rpt", "hst"} \cap (f_open' \ f_open) # {} THEN <<>>
           ELSE IF wrote'.file \in {"rpt", "hst"}
                THEN saved \o SubSeq(wrote'.data, 2, Len(wrote'.data))
                ELSE saved

Deliver ==
  /\ line # <<>>
  /\ Receive(Head(line))
  /\ line' = Tail(line)
  /\ m_ear' = IF tx' # <<>> /\ Slot THEN Append(m_ear, tx') ELSE m_ear
  /\ Save
  /\ UNCHANGED <<m_out, m_mode, m_log, m_todo, requested, pressed>>

\* read() returns as soon as there is something to read, so the head of the
\* loop runs between any two bytes, or before the first.
Loop(m) ==
  /\ LoopHead(m)
  /\ IF m = NoRequest THEN UNCHANGED requested
     ELSE requested < Requests_Max /\ requested' = requested + 1
  /\ UNCHANGED masterVars

LinkInit ==
  /\ Init
  /\ line = <<>> /\ m_ear = <<>>
  /\ m_mode = "steady" /\ m_log = FALSE /\ m_todo = <<>>
  /\ requested = 0 /\ pressed = 0 /\ saved = <<>>
  \* the engine comes up in the middle of a frame
  /\ \E k \in 1..Len(Frame(<<>>, 1)) : m_out = SubSeq(Frame(<<>>, 1), k, Len(Frame(<<>>, 1)))

LinkNext ==
  \/ SendByte \/ TakeReply \/ SlotOver \/ Deliver
  \/ \E m \in Messages \cup {NoRequest} : Loop(m)

LinkSpec == LinkInit /\ [][LinkNext]_linkVars

\* The 1022 keeps cycling, the scheduler runs the engine, slots come to an end.
LinkFairSpec ==
  /\ LinkSpec
  /\ WF_linkVars(SendByte) /\ WF_linkVars(TakeReply) /\ WF_linkVars(SlotOver)
  /\ WF_linkVars(Deliver) /\ WF_linkVars(Loop(NoRequest))

-----------------------------------------------------------------------------
(* Properties *)

\* The engine answers a poll in the slot behind it, when the 1022 listens, and
\* has then read all that was sent: the answer cannot meet a byte of the 1022.
\* Only in the steady state does it also answer a 0x90 that no 0x98 is in front
\* of, as in every display record (1D 90 7D): while the 1022 is sending.
BehindDelim == buffer_len > 0 /\ LastByte = DELIM
AnswersInSlot ==
  [][Len(line') < Len(line) /\ tx' # <<>> =>
       \/ Slot /\ line' = <<>>
       \/ header_state = "SS_PAUSE" /\ ~BehindDelim]_linkVars

\* The 1022 never runs a session the engine is not in: what it sends as the
\* records of a report, a history or a log is read by the handlers for them.
EngineFollowsMaster ==
  /\ m_mode = "report"  => header_state \in ReportStates
  /\ m_mode = "history" => header_state \in HistoryStates
  /\ m_mode = "log" =>
       \/ header_state \in LogStates \cup ReportStates \cup HistoryStates
       \/ \E k \in DOMAIN m_ear : ~HasLogBit(Head(m_ear[k]))

\* The frames of the protocol fit the buffer and no stream is missing.
NoFault == fault = "none"

\* A data file is closed with the whole report or history in it, every record
\* once and in order, whatever the client asked for in the meantime.
Closed(f) == f \in f_open /\ f \notin f_open' /\ loop' # "down"
DumpIsWhole ==
  [][ /\ Closed("rpt") => saved' = FlattenSeq(ReportRecords)
      /\ Closed("hst") => saved' = FlattenSeq(HistoryRecords) ]_linkVars

\* A request to switch log mode on waits only while log mode is off, and one to
\* switch it off only while it is on: none is left over to act later, on a log
\* session it was not meant for.
LogRequestsFit ==
  /\ "LOGMODE_ON_REQ" \in control => ~logmode
  /\ "LOGMODE_OFF_REQ" \in control => logmode

\* A request that was sent in answer to a 0x90 the 1022 did not mean as a poll
\* is lost: the engine is in a dump that the 1022 does not run, and has not sent
\* the end of.
OutOfStep ==
  /\ header_state \in ReportStates \cup HistoryStates
  /\ m_mode \notin {"report", "history"} /\ ~EndsDump(saved)

\* Whoever asked, every accepted request is carried out: time and again none is
\* pending, unless the engine stays out of step with the 1022 for good.
RequestServedInStep == []<>(control \cap Requests = {}) \/ <>[]OutOfStep

\* The client that waits is told in the end ...
ClientToldInTheEnd == []<>("MESSAGE_SRC" \notin control)

\* ... which holds unless the engine stays out of step for good.
ClientToldInStep == ClientToldInTheEnd \/ <>[]OutOfStep

\* A dump comes to its ;end, unless the engine stays out of step for good.
DumpsEndInStep ==
  []<>(header_state \in SteadyStates \cup LogStates) \/ <>[]OutOfStep

\* Current readings go on being captured: a snapshot that is due is taken.
SnapshotTaken == is_snapshot ~> ~is_snapshot
=============================================================================
