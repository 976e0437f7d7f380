---------------------------- MODULE EngineProofs ----------------------------
(***************************************************************************)
(* Invariants of Engine, proved for every byte sequence, every request,    *)
(* every buffer size the handlers' own records fit in, active or passive:  *)
(* the types, then the files, the log bit and the debts, then what the     *)
(* handlers read of the record, and last the records of log mode.          *)
(***************************************************************************)
EXTENDS Engine, SequenceTheorems, TLAPS

LEMMA Codes ==
  /\ {DISPLAY, PRINTER, DELIM, CR, AT, SEMI, HCh, ICh, LCh, RCh, TCh} \subseteq Byte
  /\ \A lm : StatusOf(lm) \in Byte
BY DEF Byte, DISPLAY, PRINTER, DELIM, CR, AT, SEMI, HCh, ICh, LCh, RCh, TCh, StatusOf

LEMMA Joined ==
  ASSUME NEW s \in Seq(Byte), NEW t \in Seq(Byte)
  PROVE  /\ s \o t \in Seq(Byte)
         /\ Len(s \o t) = Len(s) + Len(t)
         /\ Len(s) \in Nat /\ Len(t) \in Nat
BY ConcatProperties, LenProperties

LEMMA JoinedThree ==
  ASSUME NEW s \in Seq(Byte), NEW t \in Seq(Byte), NEW u \in Seq(Byte)
  PROVE  /\ (s \o t) \o u \in Seq(Byte)
         /\ Len((s \o t) \o u) = (Len(s) + Len(t)) + Len(u)
<1>1. s \o t \in Seq(Byte) /\ Len(s \o t) = Len(s) + Len(t)
  BY Joined, Zenon
<1>2. (s \o t) \o u \in Seq(Byte) /\ Len((s \o t) \o u) = Len(s \o t) + Len(u)
  BY <1>1, Joined, Zenon
<1> QED BY <1>1, <1>2, Zenon

LEMMA EmptyText == <<>> \in Seq(Byte) /\ Len(<<>>) = 0 /\ Len(<<>>) <= 2
OBVIOUS

-----------------------------------------------------------------------------
(* What the shared parts of the handlers keep *)

\* A record of at most five bytes may be put into the buffer of a reset.
Record(rec) == rec \in Seq(Byte) /\ Len(rec) \in 1..5

LEMMA FillType ==
  ASSUME ParserTypeOK, NEW rec, Record(rec), Fill(rec)
  PROVE  /\ buffer' \in [0..BufSize-1 -> Byte]
         /\ buffer_len' \in 0..BufSize
         /\ buffer_len' = Len(rec)
         /\ buffer'[0] = rec[1]
<1>1. BufSize \in Nat /\ BufSize >= 5
  BY ParserAssumption
<1>2. \A k \in 0..BufSize-1 : k < Len(rec) => rec[k + 1] \in Byte
  <2> SUFFICES ASSUME NEW k \in 0..BufSize-1, k < Len(rec)
               PROVE  rec[k + 1] \in Byte
    OBVIOUS
  <2>1. rec \in Seq(Byte) /\ k + 1 \in 1..Len(rec)
    BY <1>1 DEF Record
  <2> QED BY <2>1, ElementOfSeq
<1>3. \A k \in 0..BufSize-1 : buffer[k] \in Byte
  BY DEF ParserTypeOK
<1>4. buffer' = [k \in 0..BufSize-1 |->
                   IF k < Len(rec) THEN rec[k + 1] ELSE buffer[k]]
  BY DEF Fill
<1>5. \A k \in 0..BufSize-1 : (IF k < Len(rec) THEN rec[k + 1] ELSE buffer[k]) \in Byte
  BY <1>2, <1>3
<1>6. buffer' \in [0..BufSize-1 -> Byte]
  BY <1>4, <1>5
<1>7. buffer'[0] = rec[1]
  BY <1>1, <1>4 DEF Record
<1>8. buffer_len' = Len(rec) /\ Len(rec) \in 0..BufSize
  <2>1. buffer_len' = Len(rec)
    BY DEF Fill
  <2>2. Len(rec) \in 1..5
    BY DEF Record
  <2> QED BY <1>1, <2>1, <2>2
<1> QED BY <1>6, <1>7, <1>8

LEMMA PushType ==
  ASSUME ParserTypeOK, NEW b \in Byte, Push(b)
  PROVE  /\ buffer' \in [0..BufSize-1 -> Byte]
         /\ buffer_len' \in 0..BufSize
         /\ buffer_len' >= buffer_len
         /\ buffer_len >= 1 => buffer'[0] = buffer[0]
         /\ fault' \in {fault, "overrun"}
<1>1. BufSize \in Nat /\ buffer_len \in 0..BufSize
  BY ParserAssumption DEF ParserTypeOK
<1>2. CASE buffer_len < BufSize
  <2>1. /\ buffer' = [buffer EXCEPT ![buffer_len] = b]
        /\ buffer_len' = buffer_len + 1
        /\ fault' = fault
    BY <1>2 DEF Push
  <2>2. buffer' \in [0..BufSize-1 -> Byte]
    BY <2>1 DEF ParserTypeOK
  <2>3. buffer_len >= 1 => buffer'[0] = buffer[0]
    BY <1>1, <1>2, <2>1 DEF ParserTypeOK
  <2> QED BY <1>1, <1>2, <2>1, <2>2, <2>3
<1>3. CASE ~(buffer_len < BufSize)
  BY <1>1, <1>3 DEF Push, ParserTypeOK
<1> QED BY <1>2, <1>3

LEMMA ContentsType ==
  ASSUME ParserTypeOK
  PROVE  Contents \in Seq(Byte) /\ Len(Contents) = buffer_len
<1>1. \A k \in 1..buffer_len : buffer[k - 1] \in Byte
  BY ParserAssumption DEF ParserTypeOK
<1> QED BY <1>1 DEF Contents, ParserTypeOK

\* The records the handlers start with
LEMMA Records ==
  ASSUME NEW b \in Byte, NEW lm \in BOOLEAN
  PROVE  /\ StatusOf(lm) \in Byte
         /\ Record(<<b>>) /\ <<b>>[1] = b /\ Len(<<b>>) <= 2
         /\ Record(<<DELIM, b>>) /\ <<DELIM, b>>[1] = DELIM /\ Len(<<DELIM, b>>) <= 2
BY Codes DEF Record

LEMMA AnswerType ==
  ASSUME ParserTypeOK, NEW state \in HeaderStates, NEW lm \in BOOLEAN,
         NEW prefix, Record(prefix), Len(prefix) <= 2,
         NEW request \in Seq(Byte), Len(request) <= 2,
         Answer(state, prefix, lm, request)
  PROVE  /\ tx' \in Seq(Byte)
         /\ header_state' = state
         /\ buffer' \in [0..BufSize-1 -> Byte]
         /\ buffer_len' \in 0..BufSize /\ buffer_len' >= 2
<1> DEFINE st == <<StatusOf(lm)>>
           rec == (prefix \o st) \o request
<1>1. st \in Seq(Byte) /\ Len(st) = 1
  BY Codes
<1>2. tx' = st \o request /\ header_state' = state /\ Fill(rec)
  BY DEF Answer, Goto
<1> HIDE DEF st
<1>3. prefix \in Seq(Byte) /\ Len(prefix) \in 1..2
  BY DEF Record
<1>4. rec \in Seq(Byte) /\ Len(rec) = (Len(prefix) + Len(st)) + Len(request)
  BY <1>1, <1>3, JoinedThree, Zenon
<1>5. Len(request) \in 0..2
  <2>1. Len(request) \in Nat
    BY LenProperties, Zenon
  <2>2. Len(request) <= 2
    OBVIOUS
  <2> DEFINE n == Len(request)
  <2> HIDE DEF n
  <2>3. n \in Nat /\ n <= 2 => n \in 0..2
    OBVIOUS
  <2> QED BY <2>1, <2>2, <2>3 DEF n
<1> HIDE DEF rec
<1>6. Record(rec) /\ Len(rec) >= 2
  BY <1>1, <1>3, <1>4, <1>5 DEF Record
<1>7. tx' \in Seq(Byte)
  BY <1>1, <1>2, Joined, Zenon
<1> QED BY <1>2, <1>6, <1>7, FillType

\* The letters and the carriage return a session is asked for with
LEMMA RequestTexts ==
  \A letter \in Byte : <<letter, CR>> \in Seq(Byte) /\ Len(<<letter, CR>>) = 2
BY Codes

LEMMA Constants ==
  /\ Nothing \in Written
  /\ NoMsg \in Message
  /\ \A rsp \in Texts : ActionSuccess(rsp) \in Message
  /\ \A f \in Files : \A s \in Seq(Byte) : [file |-> f, data |-> s] \in Written
<1>1. Nothing \in Written
  BY EmptyText DEF Nothing, Written
<1>2. NoMsg \in Message /\ \A rsp \in Texts : ActionSuccess(rsp) \in Message
  BY DEF NoMsg, Message, ActionSuccess, MTypes, Texts
<1>3. \A f \in Files : \A s \in Seq(Byte) : [file |-> f, data |-> s] \in Written
  BY DEF Written
<1> QED BY <1>1, <1>2, <1>3

LEMMA SilentType ==
  ASSUME Silent
  PROVE  /\ tx' \in Seq(Byte)
         /\ wrote' \in Written
         /\ told' \in Message
BY EmptyText, Constants DEF Silent, NoReply, NoWrite, NoNotice

LEMMA EnterType ==
  ASSUME ParserTypeOK, NEW state \in HeaderStates, NEW rec, Record(rec),
         Enter(state, rec)
  PROVE  ParserTypeOK'
<1>1. Fill(rec) /\ header_state' = state /\ Silent
  BY DEF Enter, Goto
<1> QED BY <1>1, FillType, SilentType DEF Enter, ParserTypeOK

LEMMA AccumulateType ==
  ASSUME ParserTypeOK, NEW b \in Byte, Accumulate(b)
  PROVE  ParserTypeOK'
<1>1. Push(b) /\ Silent
  BY DEF Accumulate
<1> QED BY <1>1, PushType, SilentType DEF Accumulate, ParserTypeOK

LEMMA PushToType ==
  ASSUME ParserTypeOK, NEW b \in Byte, NEW state \in HeaderStates, PushTo(state, b)
  PROVE  ParserTypeOK'
<1>1. Push(b) /\ Silent
  BY DEF PushTo
<1> QED BY <1>1, PushType, SilentType DEF PushTo, ParserTypeOK

LEMMA DiesType ==
  ASSUME ParserTypeOK, NullStream \/ Dies("overrun")
  PROVE  ParserTypeOK'
<1>1. Silent
  BY DEF NullStream, Dies
<1> QED BY <1>1, SilentType DEF NullStream, Dies, ParserTypeOK

LEMMA OutputType ==
  ASSUME ParserTypeOK
  PROVE  /\ SaveReading => is_snapshot' \in BOOLEAN /\ wrote' \in Written
         /\ \A f \in Files : WriteIfOpen(f, Contents) =>
               wrote' \in Written
         /\ \A rsp \in Texts : SettleSession(rsp) =>
               control' \subseteq ControlBits /\ told' \in Message
         /\ \A rsp \in Texts, bit \in Requests : Settle(bit, rsp) =>
               control' \subseteq ControlBits /\ told' \in Message
<1>1. SaveReading => is_snapshot' \in BOOLEAN /\ wrote' \in Written
  BY ContentsType, Constants DEF SaveReading, Files
<1>2. \A f \in Files : WriteIfOpen(f, Contents) => wrote' \in Written
  BY ContentsType, Constants DEF WriteIfOpen
<1>3. \A rsp \in Texts : SettleSession(rsp) =>
         control' \subseteq ControlBits /\ told' \in Message
  BY Constants DEF SettleSession, ParserTypeOK
<1>4. \A rsp \in Texts, bit \in Requests : Settle(bit, rsp) =>
         control' \subseteq ControlBits /\ told' \in Message
  BY Constants DEF Settle, ParserTypeOK
<1> QED BY <1>1, <1>2, <1>3, <1>4

-----------------------------------------------------------------------------
(* Type correctness of the handlers *)

LEMMA SteadyType ==
  ASSUME ParserTypeOK, NEW b \in Byte,
         SS_Unknown(b) \/ SS_Display(b) \/ SS_Printer(b)
  PROVE  ParserTypeOK'
<1> USE Codes, Records
<1>1. CASE SS_Unknown(b)
  <2>1. Record(<<DISPLAY>>) /\ "SS_DISPLAY" \in HeaderStates
    BY DEF HeaderStates, SteadyStates
  <2> QED BY <1>1, <2>1, EnterType, AccumulateType DEF SS_Unknown
<1>2. CASE SS_Display(b)
  <2>1. CASE b = DELIM /\ ReadingLost /\ NullStream
    BY <2>1, DiesType
  <2>2. CASE b # DELIM /\ Accumulate(b)
    BY <2>2, AccumulateType
  <2>3. CASE /\ SaveReading
             /\ Goto("SS_PAUSE", <<b>>)
             /\ NoReply /\ NoNotice
             /\ UNCHANGED <<logmode, control, hst_is_first, f_open, fault>>
    <3>1. header_state' \in HeaderStates /\ Fill(<<b>>)
      BY <2>3 DEF Goto, HeaderStates, SteadyStates
    <3>2. tx' \in Seq(Byte) /\ told' \in Message
      BY <2>3, EmptyText, Constants DEF NoReply, NoNotice
    <3>3. is_snapshot' \in BOOLEAN /\ wrote' \in Written
      BY <2>3, OutputType
    <3> QED BY <2>3, <3>1, <3>2, <3>3, FillType DEF ParserTypeOK
  <2> QED BY <1>2, <2>1, <2>2, <2>3 DEF SS_Display
<1>3. CASE SS_Printer(b)
  <2>1. "SS_PAUSE" \in HeaderStates
    BY DEF HeaderStates, SteadyStates
  <2>2. Overheard(LastByte) # "none" => Overheard(LastByte) \in HeaderStates
    BY DEF Overheard, HeaderStates, ReportStates, HistoryStates, LogStates
  <2> QED BY <1>3, <2>1, <2>2, EnterType, AccumulateType, PushToType DEF SS_Printer
<1> QED BY <1>1, <1>2, <1>3

\* A reply that starts a session, whichever state it is given in
LEMMA StartSessionType ==
  ASSUME ParserTypeOK, NEW bit \in Requests, NEW state \in HeaderStates,
         NEW prefix, Record(prefix), Len(prefix) <= 2, NEW letter \in Byte,
         StartSession(bit, state, prefix, <<letter, CR>>),
         is_snapshot' \in BOOLEAN, wrote' \in Written
  PROVE  ParserTypeOK'
<1>1. Answer(state, prefix, logmode, <<letter, CR>>) /\ logmode \in BOOLEAN
  BY DEF StartSession, ParserTypeOK
<1>2. <<letter, CR>> \in Seq(Byte) /\ Len(<<letter, CR>>) <= 2
  BY RequestTexts
<1>3. /\ tx' \in Seq(Byte) /\ header_state' = state
      /\ buffer' \in [0..BufSize-1 -> Byte] /\ buffer_len' \in 0..BufSize
  BY <1>1, <1>2, AnswerType
<1>4. told' \in Message /\ control' \subseteq ControlBits
  BY Constants DEF StartSession, NoNotice, ParserTypeOK
<1> QED BY <1>3, <1>4 DEF StartSession, ParserTypeOK

\* A reply that changes nothing but the record
LEMMA PlainReplyType ==
  ASSUME ParserTypeOK, NEW state \in HeaderStates,
         NEW prefix, Record(prefix), Len(prefix) <= 2,
         NEW request \in Seq(Byte), Len(request) <= 2,
         Answer(state, prefix, logmode, request), NoNotice,
         hst_is_first' \in BOOLEAN, is_snapshot' \in BOOLEAN, wrote' \in Written,
         UNCHANGED <<logmode, control, f_open, fault>>
  PROVE  ParserTypeOK'
<1>1. /\ tx' \in Seq(Byte) /\ header_state' = state
      /\ buffer' \in [0..BufSize-1 -> Byte] /\ buffer_len' \in 0..BufSize
  <2>1. logmode \in BOOLEAN
    BY DEF ParserTypeOK
  <2> QED BY <2>1, AnswerType
<1>2. told' \in Message
  BY Constants DEF NoNotice
<1> QED BY <1>1, <1>2 DEF ParserTypeOK

\* No reply: the record is reset, readings or a data file may be written
LEMMA QuietType ==
  ASSUME ParserTypeOK, NEW state \in HeaderStates, NEW rec, Record(rec),
         Goto(state, rec), NoReply,
         logmode' \in BOOLEAN, control' \subseteq ControlBits,
         hst_is_first' \in BOOLEAN, is_snapshot' \in BOOLEAN, f_open' \subseteq Files,
         wrote' \in Written, told' \in Message, UNCHANGED fault
  PROVE  ParserTypeOK'
<1>1. header_state' = state /\ Fill(rec) /\ tx' \in Seq(Byte)
  BY EmptyText DEF Goto, NoReply
<1> QED BY <1>1, FillType DEF ParserTypeOK

LEMMA PauseType ==
  ASSUME ParserTypeOK, NEW b \in Byte, SS_Pause(b)
  PROVE  ParserTypeOK'
<1> USE Records
<1>1. CASE SS_Pause_Active(b)
  <2>0. Record(<<b>>) /\ Len(<<b>>) <= 2
    OBVIOUS
  <2>1. NoWrite => wrote' \in Written
    BY Constants DEF NoWrite
  <2>2. UNCHANGED is_snapshot => is_snapshot' \in BOOLEAN
    BY DEF ParserTypeOK
  <2>3. CASE StartSession("REPORT_REQ", "RPT_START", <<b>>, <<RCh, CR>>)
             /\ NoWrite /\ UNCHANGED is_snapshot
    <3>1. "REPORT_REQ" \in Requests /\ "RPT_START" \in HeaderStates
      BY DEF Requests, HeaderStates, ReportStates
    <3> QED BY <2>0, <2>1, <2>2, <2>3, <3>1, Codes, StartSessionType
  <2>4. CASE StartSession("HISTORY_REQ", "HST_START", <<b>>, <<ICh, CR>>)
             /\ NoWrite /\ UNCHANGED is_snapshot
    <3>1. "HISTORY_REQ" \in Requests /\ "HST_START" \in HeaderStates
      BY DEF Requests, HeaderStates, HistoryStates
    <3> QED BY <2>0, <2>1, <2>2, <2>4, <3>1, Codes, StartSessionType
  <2>5. CASE StartLog(b)
    <3>1. /\ Answer("LOG_START", <<b>>, TRUE, <<TCh, CR>>)
          /\ Settle("LOGMODE_ON_REQ", "logmode 1") /\ NoWrite
          /\ logmode' \in BOOLEAN
          /\ UNCHANGED <<hst_is_first, is_snapshot, f_open, fault>>
      BY <2>5 DEF StartLog
    <3>2. "LOG_START" \in HeaderStates /\ "LOGMODE_ON_REQ" \in Requests /\ "logmode 1" \in Texts
      BY DEF HeaderStates, LogStates, Requests, Texts
    <3>3. <<TCh, CR>> \in Seq(Byte) /\ Len(<<TCh, CR>>) <= 2
      BY Codes, RequestTexts
    <3>4. /\ tx' \in Seq(Byte) /\ header_state' \in HeaderStates
          /\ buffer' \in [0..BufSize-1 -> Byte] /\ buffer_len' \in 0..BufSize
      BY <2>0, <3>1, <3>2, <3>3, AnswerType
    <3>5. control' \subseteq ControlBits /\ told' \in Message
      BY <3>1, <3>2, OutputType
    <3> QED BY <2>1, <3>1, <3>4, <3>5 DEF ParserTypeOK
  <2>6. CASE /\ Answer("SS_PRINTER", <<b>>, logmode, <<>>)
             /\ NoWrite /\ NoNotice
             /\ UNCHANGED <<logmode, control, hst_is_first, is_snapshot, f_open, fault>>
    <3>1. "SS_PRINTER" \in HeaderStates
      BY DEF HeaderStates, SteadyStates
    <3>2. hst_is_first' \in BOOLEAN /\ is_snapshot' \in BOOLEAN
      BY <2>6 DEF ParserTypeOK
    <3> QED BY <2>0, <2>1, <2>6, <3>1, <3>2, EmptyText, PlainReplyType
  <2> QED BY <1>1, <2>3, <2>4, <2>5, <2>6 DEF SS_Pause_Active
<1>2. CASE Enter("SS_PRINTER", <<b>>)
  <2>1. "SS_PRINTER" \in HeaderStates
    BY DEF HeaderStates, SteadyStates
  <2> QED BY <1>2, <2>1, EnterType
<1>3. CASE SS_Pause_Directive
  <2>1. Silent /\ control' \subseteq ControlBits
    BY <1>3 DEF SS_Pause_Directive, DirectiveBit, ParserTypeOK, ControlBits, Requests
  <2>2. buffer_len' \in 0..BufSize
    BY <1>3, ParserAssumption DEF SS_Pause_Directive
  <2> QED BY <1>3, <2>1, <2>2, SilentType DEF SS_Pause_Directive, ParserTypeOK
<1>4. CASE Accumulate(b)
  BY <1>4, AccumulateType
<1> QED BY <1>1, <1>2, <1>3, <1>4 DEF SS_Pause

LEMMA ReportType ==
  ASSUME ParserTypeOK, NEW b \in Byte,
         RPT_Start(b) \/ RPT_Data(b) \/ RPT_Display(b) \/ RPT_Printer(b)
  PROVE  ParserTypeOK'
<1> USE Records
<1>0. /\ {"RPT_DATA", "RPT_DISPLAY", "RPT_PRINTER", "LOG_DISPLAY", "SS_DISPLAY"}
           \subseteq HeaderStates
      /\ "rpt" \in Files /\ "report file" \in Texts
  BY DEF HeaderStates, SteadyStates, ReportStates, LogStates, Files, Texts
<1>1. CASE RPT_Start(b)
  <2>1. CASE NullStream \/ Accumulate(b)
    BY <2>1, DiesType, AccumulateType
  <2>2. ASSUME NEW ok \in BOOLEAN, OpenFile("rpt", ok), Goto("RPT_DATA", <<b>>), Silent,
               UNCHANGED <<logmode, control, hst_is_first, is_snapshot, fault>>
        PROVE  ParserTypeOK'
    <3>1. f_open' \subseteq Files
      BY <1>0, <2>2 DEF OpenFile, ParserTypeOK
    <3>2. NoReply /\ wrote' \in Written /\ told' \in Message
      BY <2>2, SilentType DEF Silent
    <3> QED BY <1>0, <2>2, <3>1, <3>2, QuietType DEF ParserTypeOK
  <2> QED BY <1>1, <2>1, <2>2, ParserAssumption DEF RPT_Start
<1>2. CASE RPT_Data(b)
  <2>1. CASE Accumulate(b)
    BY <2>1, AccumulateType
  <2>2. CASE /\ WriteIfOpen("rpt", Contents)
             /\ CloseFile("rpt")
             /\ SettleSession("report file")
             /\ Goto(AfterSession, <<b>>)
             /\ NoReply
             /\ UNCHANGED <<logmode, hst_is_first, is_snapshot, fault>>
    <3>1. AfterSession \in HeaderStates
      BY <1>0 DEF AfterSession
    <3>2. wrote' \in Written /\ told' \in Message /\ control' \subseteq ControlBits
      BY <1>0, <2>2, OutputType
    <3>3. f_open' \subseteq Files
      BY <2>2 DEF CloseFile, ParserTypeOK
    <3> QED BY <2>2, <3>1, <3>2, <3>3, QuietType DEF ParserTypeOK
  <2>3. CASE /\ WriteIfOpen("rpt", Contents)
             /\ Goto("RPT_DISPLAY", <<b>>)
             /\ NoReply /\ NoNotice
             /\ UNCHANGED <<logmode, control, hst_is_first, is_snapshot, f_open, fault>>
    <3>1. wrote' \in Written /\ told' \in Message
      BY <1>0, <2>3, OutputType, Constants DEF NoNotice
    <3> QED BY <1>0, <2>3, <3>1, QuietType DEF ParserTypeOK
  <2> QED BY <1>2, <2>1, <2>2, <2>3 DEF RPT_Data
<1>3. CASE RPT_Display(b)
  <2>1. CASE NullStream \/ Accumulate(b)
    BY <2>1, DiesType, AccumulateType
  <2>2. CASE /\ SaveReading
             /\ IF Active THEN Answer("RPT_PRINTER", <<DELIM, b>>, logmode, <<>>)
                          ELSE Goto("RPT_PRINTER", <<DELIM, b>>) /\ NoReply
             /\ NoNotice
             /\ UNCHANGED <<logmode, control, hst_is_first, f_open, fault>>
    <3>1. is_snapshot' \in BOOLEAN /\ wrote' \in Written
      BY <2>2, OutputType
    <3>2. hst_is_first' \in BOOLEAN /\ told' \in Message
      BY <2>2, Constants DEF NoNotice, ParserTypeOK
    <3>3. CASE Active
      BY <1>0, <2>2, <3>1, <3>2, <3>3, EmptyText, PlainReplyType
    <3>4. CASE ~Active
      BY <1>0, <2>2, <3>1, <3>2, <3>4, QuietType DEF ParserTypeOK
    <3> QED BY <3>3, <3>4
  <2> QED BY <1>3, <2>1, <2>2 DEF RPT_Display
<1>4. CASE RPT_Printer(b)
  BY <1>0, <1>4, EnterType, AccumulateType DEF RPT_Printer
<1> QED BY <1>1, <1>2, <1>3, <1>4

LEMMA HistoryType ==
  ASSUME ParserTypeOK, NEW b \in Byte,
         HST_Start(b) \/ HST_Display(b) \/ HST_Printer(b) \/ HST_Printer_Active(b)
           \/ HST_Data(b)
  PROVE  ParserTypeOK'
<1> USE Records
<1>0. /\ {"HST_DATA", "HST_DISPLAY", "HST_PRINTER", "HST_PRINTER_ACTIVE",
           "LOG_DISPLAY", "SS_DISPLAY"} \subseteq HeaderStates
      /\ "hst" \in Files /\ "history file" \in Texts
  BY DEF HeaderStates, SteadyStates, HistoryStates, LogStates, Files, Texts
<1>1. CASE HST_Start(b)
  <2>1. CASE NullStream \/ Accumulate(b)
    BY <2>1, DiesType, AccumulateType
  <2>2. ASSUME NEW ok \in BOOLEAN, OpenFile("hst", ok), hst_is_first' = TRUE,
               Goto("HST_DISPLAY", <<b>>), Silent,
               UNCHANGED <<logmode, control, is_snapshot, fault>>
        PROVE  ParserTypeOK'
    <3>1. f_open' \subseteq Files
      BY <1>0, <2>2 DEF OpenFile, ParserTypeOK
    <3>2. NoReply /\ wrote' \in Written /\ told' \in Message
      BY <2>2, SilentType DEF Silent
    <3> QED BY <1>0, <2>2, <3>1, <3>2, QuietType DEF ParserTypeOK
  <2> QED BY <1>1, <2>1, <2>2, ParserAssumption DEF HST_Start
<1>2. CASE HST_Display(b)
  <2>1. CASE NullStream \/ Accumulate(b)
    BY <2>1, DiesType, AccumulateType
  <2>2. CASE /\ SaveReading /\ Active
             /\ hst_is_first' = FALSE
             /\ Answer("HST_PRINTER_ACTIVE", <<DELIM, b>>, logmode,
                       IF hst_is_first THEN <<TCh, CR>> ELSE <<HCh, CR>>)
             /\ NoNotice
             /\ UNCHANGED <<logmode, control, f_open, fault>>
    <3> DEFINE request == IF hst_is_first THEN <<TCh, CR>> ELSE <<HCh, CR>>
    <3>1. request \in Seq(Byte) /\ Len(request) <= 2
      BY Codes, RequestTexts
    <3>2. is_snapshot' \in BOOLEAN /\ wrote' \in Written
      BY <2>2, OutputType
    <3> HIDE DEF request
    <3> QED BY <1>0, <2>2, <3>1, <3>2, PlainReplyType DEF request
  <2>3. CASE /\ SaveReading
             /\ Goto("HST_PRINTER", <<DELIM, b>>)
             /\ NoReply /\ UNCHANGED hst_is_first
             /\ NoNotice
             /\ UNCHANGED <<logmode, control, f_open, fault>>
    <3>1. is_snapshot' \in BOOLEAN /\ wrote' \in Written
      BY <2>3, OutputType
    <3>2. told' \in Message
      BY <2>3, Constants DEF NoNotice
    <3> QED BY <1>0, <2>3, <3>1, <3>2, QuietType DEF ParserTypeOK
  <2> QED BY <1>2, <2>1, <2>2, <2>3 DEF HST_Display
<1>3. CASE HST_Printer(b) \/ HST_Printer_Active(b)
  <2>1. Record(<<DELIM>>)
    BY Codes
  <2> QED BY <1>0, <1>3, <2>1, EnterType, AccumulateType DEF HST_Printer, HST_Printer_Active
<1>4. CASE HST_Data(b)
  <2>1. CASE NullStream \/ Accumulate(b)
    BY <2>1, DiesType, AccumulateType
  <2>2. CASE /\ WriteIfOpen("hst", Contents)
             /\ CloseFile("hst")
             /\ SettleSession("history file")
             /\ Goto(AfterSession, <<b>>)
             /\ NoReply
             /\ UNCHANGED <<logmode, hst_is_first, is_snapshot, fault>>
    <3>1. AfterSession \in HeaderStates
      BY <1>0 DEF AfterSession
    <3>2. wrote' \in Written /\ told' \in Message /\ control' \subseteq ControlBits
      BY <1>0, <2>2, OutputType
    <3>3. f_open' \subseteq Files
      BY <2>2 DEF CloseFile, ParserTypeOK
    <3> QED BY <2>2, <3>1, <3>2, <3>3, QuietType DEF ParserTypeOK
  <2>3. CASE /\ WriteIfOpen("hst", Contents)
             /\ Goto("HST_DISPLAY", <<DELIM, b>>)
             /\ NoReply /\ NoNotice
             /\ UNCHANGED <<logmode, control, hst_is_first, is_snapshot, f_open, fault>>
    <3>1. wrote' \in Written /\ told' \in Message
      BY <1>0, <2>3, OutputType, Constants DEF NoNotice
    <3> QED BY <1>0, <2>3, <3>1, QuietType DEF ParserTypeOK
  <2> QED BY <1>4, <2>1, <2>2, <2>3 DEF HST_Data
<1> QED BY <1>1, <1>2, <1>3, <1>4

LEMMA LogRecordType ==
  ASSUME ParserTypeOK, ~LogLengthWraps, LogRecordWritten
  PROVE  LogRecord \in Seq(Byte)
<1>1. Contents \in Seq(Byte) /\ Len(Contents) = buffer_len /\ buffer_len \in Nat
  BY ContentsType, ParserAssumption DEF ParserTypeOK
<1>2. CASE buffer[0] = DELIM
  <2>1. buffer_len # 0
    BY <1>2 DEF LogLengthWraps
  <2>2. Contents # <<>>
    BY <1>1, <2>1, EmptyText
  <2>3. Tail(Contents) \in Seq(Byte)
    BY <1>1, <2>2, HeadTailProperties, Zenon
  <2> QED BY <1>2, <2>3 DEF LogRecord
<1>3. CASE buffer[0] # DELIM
  BY <1>1, <1>3 DEF LogRecord
<1> QED BY <1>2, <1>3

LEMMA LogType ==
  ASSUME ParserTypeOK, NEW b \in Byte,
         LOG_Start(b) \/ LOG_Data(b) \/ LOG_Display(b) \/ LOG_Printer(b)
           \/ LOG_Printer_Active(b)
  PROVE  ParserTypeOK'
<1> USE Records
<1>0. /\ LogStates \subseteq HeaderStates
      /\ {"LOG_DATA", "LOG_DISPLAY", "LOG_PRINTER", "LOG_PRINTER_ACTIVE",
          "SS_PRINTER", "SS_DISPLAY", "RPT_START", "HST_START"} \subseteq HeaderStates
      /\ "log" \in Files /\ "logmode 0 file" \in Texts
  BY DEF HeaderStates, SteadyStates, LogStates, ReportStates, HistoryStates, Files, Texts
<1>1. CASE LOG_Start(b)
  <2>1. CASE Accumulate(b)
    BY <2>1, AccumulateType
  <2>2. ASSUME NEW ok \in BOOLEAN, OpenFile("log", ok), logmode' = TRUE,
               Goto("LOG_DATA", <<b>>), Silent,
               UNCHANGED <<control, hst_is_first, is_snapshot, fault>>
        PROVE  ParserTypeOK'
    <3>1. f_open' \subseteq Files
      BY <1>0, <2>2 DEF OpenFile, ParserTypeOK
    <3>2. NoReply /\ wrote' \in Written /\ told' \in Message
      BY <2>2, SilentType DEF Silent
    <3> QED BY <1>0, <2>2, <3>1, <3>2, QuietType DEF ParserTypeOK
  <2> QED BY <1>1, <2>1, <2>2, ParserAssumption DEF LOG_Start
<1>2. CASE LOG_Data(b)
  <2>1. CASE Dies("overrun") \/ Accumulate(b)
    BY <2>1, DiesType, AccumulateType
  <2>2. CASE /\ ~LogLengthWraps
             /\ control' = IF Active /\ buffer[1] = AT
                           THEN control \cup DirectiveBit(buffer[2], "LOGMODE_OFF_REQ")
                           ELSE control
             /\ IF LogRecordWritten THEN wrote' = [file |-> "log", data |-> LogRecord]
                ELSE NoWrite
             /\ Goto("LOG_DISPLAY", <<b>>)
             /\ NoReply /\ NoNotice
             /\ UNCHANGED <<logmode, hst_is_first, is_snapshot, f_open, fault>>
    <3>1. control' \subseteq ControlBits
      BY <2>2 DEF DirectiveBit, ParserTypeOK, ControlBits, Requests
    <3>2. wrote' \in Written /\ told' \in Message
      BY <1>0, <2>2, LogRecordType, Constants DEF NoWrite, NoNotice
    <3> QED BY <1>0, <2>2, <3>1, <3>2, QuietType DEF ParserTypeOK
  <2> QED BY <1>2, <2>1, <2>2 DEF LOG_Data
<1>3. CASE LOG_Display(b)
  <2>1. CASE NullStream \/ Accumulate(b)
    BY <2>1, DiesType, AccumulateType
  <2>2. CASE SaveReading /\ LOG_Display_Active(b)
    <3>1. is_snapshot' \in BOOLEAN /\ wrote' \in Written
      BY <2>2, OutputType
    <3>2. CASE StopLog(b)
      <4>1. /\ Answer("SS_PRINTER", <<DELIM, b>>, FALSE, <<>>)
            /\ Settle("LOGMODE_OFF_REQ", "logmode 0 file")
            /\ logmode' \in BOOLEAN /\ f_open' = f_open \ {"log"}
            /\ UNCHANGED <<hst_is_first, fault>>
        BY <3>2 DEF StopLog, CloseFile
      <4>2. "LOGMODE_OFF_REQ" \in Requests
        BY DEF Requests
      <4>3. /\ tx' \in Seq(Byte) /\ header_state' \in HeaderStates
            /\ buffer' \in [0..BufSize-1 -> Byte] /\ buffer_len' \in 0..BufSize
        BY <1>0, <4>1, EmptyText, AnswerType
      <4>4. control' \subseteq ControlBits /\ told' \in Message
        BY <1>0, <4>1, <4>2, OutputType
      <4> QED BY <3>1, <4>1, <4>3, <4>4 DEF ParserTypeOK
    <3>3. CASE StartSession("REPORT_REQ", "RPT_START", <<DELIM, b>>, <<RCh, CR>>)
      <4>1. "REPORT_REQ" \in Requests
        BY DEF Requests
      <4> QED BY <1>0, <3>1, <3>3, <4>1, Codes, StartSessionType
    <3>4. CASE StartSession("HISTORY_REQ", "HST_START", <<DELIM, b>>, <<ICh, CR>>)
      <4>1. "HISTORY_REQ" \in Requests
        BY DEF Requests
      <4> QED BY <1>0, <3>1, <3>4, <4>1, Codes, StartSessionType
    <3>5. CASE /\ Answer("LOG_PRINTER_ACTIVE", <<DELIM, b>>, logmode, <<LCh, CR>>)
               /\ NoNotice
               /\ UNCHANGED <<logmode, control, hst_is_first, f_open, fault>>
      <4>1. <<LCh, CR>> \in Seq(Byte) /\ Len(<<LCh, CR>>) <= 2
        BY Codes, RequestTexts
      <4>2. hst_is_first' \in BOOLEAN
        BY <3>5 DEF ParserTypeOK
      <4> QED BY <1>0, <3>1, <3>5, <4>1, <4>2, PlainReplyType
    <3> QED BY <2>2, <3>2, <3>3, <3>4, <3>5 DEF LOG_Display_Active
  <2>3. CASE /\ SaveReading
             /\ Goto("LOG_PRINTER", <<DELIM, b>>)
             /\ NoReply /\ NoNotice
             /\ UNCHANGED <<logmode, control, hst_is_first, f_open, fault>>
    <3>1. is_snapshot' \in BOOLEAN /\ wrote' \in Written /\ told' \in Message
      BY <2>3, OutputType, Constants DEF NoNotice
    <3> QED BY <1>0, <2>3, <3>1, QuietType DEF ParserTypeOK
  <2>4. CASE Enter("LOG_DISPLAY", <<DELIM, b>>) \/ Enter("LOG_DATA", <<DELIM, b>>)
    BY <1>0, <2>4, EnterType
  <2> QED BY <1>3, <2>1, <2>2, <2>3, <2>4 DEF LOG_Display
<1>4. CASE LOG_Printer(b)
  <2>1. CASE Accumulate(b) \/ PushTo("RPT_START", b) \/ PushTo("HST_START", b)
    BY <1>0, <2>1, AccumulateType, PushToType
  <2>2. CASE LOG_Printer_Quiet(b)
    <3>1. CASE Enter("LOG_DISPLAY", <<b>>)
      BY <1>0, <3>1, EnterType
    <3>2. CASE /\ CloseFile("log")
               /\ logmode' = FALSE
               /\ Goto("SS_DISPLAY", <<b>>)
               /\ Silent
               /\ UNCHANGED <<control, hst_is_first, is_snapshot, fault>>
      <4>1. NoReply /\ wrote' \in Written /\ told' \in Message
        BY <3>2, SilentType DEF Silent
      <4>2. f_open' \subseteq Files /\ logmode' \in BOOLEAN
        BY <3>2 DEF CloseFile, ParserTypeOK
      <4> QED BY <1>0, <3>2, <4>1, <4>2, QuietType DEF ParserTypeOK
    <3> QED BY <2>2, <3>1, <3>2 DEF LOG_Printer_Quiet
  <2>3. CASE LOG_Printer_Record(b)
    <3>1. BufSize \in Nat /\ 0 \in 0..BufSize
      BY ParserAssumption
    <3>2. CASE buffer_len < BufSize
      <4>1. /\ buffer' = [buffer EXCEPT ![buffer_len] = b] /\ buffer_len' = 0
            /\ fault' = fault
        BY <2>3, <3>2 DEF LOG_Printer_Record
      <4>2. buffer' \in [0..BufSize-1 -> Byte]
        BY <4>1 DEF ParserTypeOK
      <4> QED BY <1>0, <2>3, <3>1, <4>1, <4>2, SilentType DEF LOG_Printer_Record, ParserTypeOK
    <3>3. CASE ~(buffer_len < BufSize)
      BY <1>0, <2>3, <3>3, SilentType DEF LOG_Printer_Record, ParserTypeOK
    <3> QED BY <3>2, <3>3
  <2> QED BY <1>4, <2>1, <2>2, <2>3 DEF LOG_Printer
<1>5. CASE LOG_Printer_Active(b)
  BY <1>0, <1>5, EnterType, AccumulateType DEF LOG_Printer_Active
<1> QED BY <1>1, <1>2, <1>3, <1>4, <1>5

LEMMA ParseByteType ==
  ASSUME ParserTypeOK, NEW b \in Byte, ParseByte(b)
  PROVE  ParserTypeOK'
BY SteadyType, PauseType, ReportType, HistoryType, LogType DEF ParseByte

-----------------------------------------------------------------------------
(* Type correctness of the engine *)

LEMMA InitType == Init => TypeOK
BY ParserAssumption, EmptyText, Constants
DEF Init, ParseOpen, TypeOK, ParserTypeOK, HeaderStates, SteadyStates, Files, Byte

LEMMA NextType == TypeOK /\ [Next]_engineVars => TypeOK'
<1> SUFFICES ASSUME TypeOK, [Next]_engineVars
             PROVE  TypeOK'
  OBVIOUS
<1>0. ParserTypeOK
  BY DEF TypeOK
<1>1. CASE Usr1 \/ Usr2
  <2>1. UNCHANGED parserVars /\ ParserTypeOK'
    BY <1>0, <1>1 DEF Usr1, Usr2, parserVars, ParserTypeOK
  <2>2. CASE Usr1
    BY <2>1, <2>2 DEF Usr1, TypeOK
  <2>3. CASE Usr2
    BY <2>1, <2>3 DEF Usr2, TypeOK
  <2> QED BY <1>1, <2>2, <2>3
<1>2. ASSUME NEW m \in Messages \cup {NoRequest}, LoopHead(m)
      PROVE  TypeOK'
  <2>1. control' \subseteq ControlBits
    BY <1>0, <1>2 DEF LoopHead, TriggerBits, RequestBits, ControlBits, Requests, ParserTypeOK
  <2>2. told' \in Message
    BY <1>2 DEF LoopHead, ReplyTo, ActionSuccess, RequestSuccess, NoMsg, Message, MTypes, Texts
  <2>3. tx' \in Seq(Byte) /\ wrote' \in Written
    BY <1>2, EmptyText, Constants DEF LoopHead, NoReply, NoWrite
  <2>4. is_snapshot' \in BOOLEAN
    BY <1>0, <1>2 DEF LoopHead, ParserTypeOK
  <2> QED BY <1>2, <2>1, <2>2, <2>3, <2>4 DEF LoopHead, TypeOK, ParserTypeOK
<1>3. ASSUME NEW b \in Bytes, Receive(b)
      PROVE  TypeOK'
  <2>1. b \in Byte
    BY EngineAssumption
  <2> QED BY <1>0, <1>3, <2>1, ParseByteType DEF Receive, TypeOK
<1>4. CASE Exit \/ Die
  <2>1. ProcessGone
    BY <1>4 DEF Exit, Die
  <2>2. buffer' \in [0..BufSize-1 -> Byte] /\ buffer_len' \in 0..BufSize
    BY <2>1, ParserAssumption DEF ProcessGone, Byte
  <2>3. Silent /\ header_state' \in HeaderStates
    BY <2>1 DEF ProcessGone, HeaderStates, SteadyStates
  <2> QED BY <2>1, <2>2, <2>3, SilentType DEF ProcessGone, TypeOK, ParserTypeOK
<1>5. CASE Restart
  BY <1>5 DEF Restart, TypeOK, ParserTypeOK, Files
<1>6. CASE UNCHANGED engineVars
  BY <1>6 DEF engineVars, parserVars, TypeOK, ParserTypeOK
<1> QED BY <1>1, <1>2, <1>3, <1>4, <1>5, <1>6 DEF Next

\* TypeOK is an invariant: whatever bytes and requests arrive, the record never
\* outgrows the buffer and every variable keeps its type.
THEOREM TypeCorrect == Spec => []TypeOK
BY InitType, NextType, PTL DEF Spec

-----------------------------------------------------------------------------
(***************************************************************************)
(* The invariants of Engine that relate the handler in charge to the log   *)
(* bit, the data files and the debts, for every value of the constants.    *)
(* What the record holds plays no part in them, so Fill and Push stay      *)
(* closed.                                                                 *)
(***************************************************************************)


\* The handlers that only listen are entered when the engine only listens.
ListensOnly == header_state \in {"LOG_PRINTER", "HST_PRINTER"} => ~Active

ControlInv ==
  /\ LogBitFollowsLogMode
  /\ FilesFollowSessions
  /\ DebtIsBacked
  /\ ListensOnly

\* What the invariant is about
View == <<header_state, logmode, control, f_open>>

LEMMA ViewDecides ==
  ASSUME ControlInv, UNCHANGED View
  PROVE  ControlInv'
BY DEF View, ControlInv, LogBitFollowsLogMode, FilesFollowSessions, SessionHas,
       DebtIsBacked, ListensOnly

\* Steps that hand the next byte to another handler of the same session
SameSession ==
  /\ UNCHANGED <<logmode, control, f_open>>
  /\ \/ header_state \in SteadyStates /\ header_state' \in SteadyStates
     \/ /\ header_state \in ReportStates \ {"RPT_START"}
        /\ header_state' \in ReportStates \ {"RPT_START"}
     \/ /\ header_state \in HistoryStates \ {"HST_START"}
        /\ header_state' \in HistoryStates \ {"HST_START"}
     \/ /\ header_state \in LogStates \ {"LOG_START"}
        /\ header_state' \in LogStates \ {"LOG_START"}

LEMMA SameSessionKeeps ==
  ASSUME ControlInv, SameSession, ListensOnly'
  PROVE  ControlInv'
<1> USE DEF SteadyStates, ReportStates, HistoryStates, LogStates, SameSession
<1>1. LogBitFollowsLogMode'
  BY DEF ControlInv, LogBitFollowsLogMode
<1>2. FilesFollowSessions'
  BY DEF ControlInv, FilesFollowSessions, SessionHas
<1>3. DebtIsBacked'
  BY DEF ControlInv, DebtIsBacked
<1> QED BY <1>1, <1>2, <1>3 DEF ControlInv

LEMMA SteadyControl ==
  ASSUME ControlInv, NEW b, SS_Unknown(b) \/ SS_Display(b) \/ SS_Printer(b)
  PROVE  ControlInv'
<1> USE DEF SteadyStates
<1>1. CASE SS_Unknown(b)
  <2>1. CASE Enter("SS_DISPLAY", <<DISPLAY>>)
    BY <1>1, <2>1, SameSessionKeeps DEF SS_Unknown, Enter, Goto, SameSession, ListensOnly
  <2>2. CASE Accumulate(b)
    BY <2>2, ViewDecides DEF Accumulate, View
  <2> QED BY <1>1, <2>1, <2>2 DEF SS_Unknown
<1>2. CASE SS_Display(b)
  <2>1. CASE NullStream \/ Accumulate(b)
    BY <2>1, ViewDecides DEF NullStream, Dies, Accumulate, View
  <2>2. CASE ~NullStream /\ ~Accumulate(b)
    BY <1>2, <2>2, SameSessionKeeps DEF SS_Display, Goto, SameSession, ListensOnly
  <2> QED BY <2>1, <2>2
<1>3. CASE SS_Printer(b)
  <2>1. CASE Enter("SS_PAUSE", <<b>>)
    BY <1>3, <2>1, SameSessionKeeps DEF SS_Printer, Enter, Goto, SameSession, ListensOnly
  <2>2. CASE Accumulate(b)
    BY <2>2, ViewDecides DEF Accumulate, View
  <2>3. CASE Overheard(LastByte) # "none" /\ PushTo(Overheard(LastByte), b)
    <3>1. /\ header_state = "SS_PRINTER"
          /\ header_state' \in {"RPT_START", "HST_START", "LOG_START"}
          /\ UNCHANGED <<logmode, control, f_open>>
      BY <1>3, <2>3 DEF SS_Printer, PushTo, Overheard
    <3> QED BY <3>1 DEF ControlInv, LogBitFollowsLogMode, FilesFollowSessions, SessionHas,
              DebtIsBacked, ListensOnly, ReportStates, HistoryStates, LogStates
  <2> QED BY <1>3, <2>1, <2>2, <2>3 DEF SS_Printer
<1> QED BY <1>1, <1>2, <1>3

\* A request is served by the letter that goes to the 1022 with the reply.
LEMMA StartSessionControl ==
  ASSUME ControlInv, NEW bit, NEW state, NEW prefix, NEW request,
         StartSession(bit, state, prefix, request),
         \/ bit = "REPORT_REQ" /\ state = "RPT_START"
         \/ bit = "HISTORY_REQ" /\ state = "HST_START",
         header_state \in {"SS_PAUSE", "LOG_DISPLAY"}
  PROVE  ControlInv'
<1>1. /\ header_state' = state /\ control' = control \ {bit}
      /\ UNCHANGED <<logmode, f_open>>
  BY DEF StartSession, Answer, Goto
<1>2. header_state' \in {"RPT_START", "HST_START"}
  BY <1>1
<1>3. LogBitFollowsLogMode' /\ ListensOnly'
  BY <1>2 DEF LogBitFollowsLogMode, ListensOnly, SteadyStates, LogStates
<1>4. FilesFollowSessions'
  BY <1>1, <1>2 DEF ControlInv, FilesFollowSessions, SessionHas, ReportStates,
     HistoryStates
<1>5. DebtIsBacked'
  BY <1>2 DEF DebtIsBacked, ReportStates, HistoryStates
<1> QED BY <1>3, <1>4, <1>5 DEF ControlInv

LEMMA PauseControl ==
  ASSUME ControlInv, NEW b, SS_Pause(b)
  PROVE  ControlInv'
<1>0. header_state = "SS_PAUSE"
  BY DEF SS_Pause
<1>1. CASE SS_Pause_Active(b)
  <2>1. CASE \/ StartSession("REPORT_REQ", "RPT_START", <<b>>, <<RCh, CR>>)
             \/ StartSession("HISTORY_REQ", "HST_START", <<b>>, <<ICh, CR>>)
    BY <1>0, <2>1, StartSessionControl
  <2>2. CASE StartLog(b)
    <3>1. /\ header_state' = "LOG_START" /\ logmode' = TRUE
          /\ "MESSAGE_SRC" \notin control' /\ UNCHANGED f_open
      BY <2>2 DEF StartLog, Answer, Goto, Settle
    <3> QED BY <1>0, <3>1 DEF ControlInv, LogBitFollowsLogMode, FilesFollowSessions,
              SessionHas, DebtIsBacked, ListensOnly, SteadyStates, ReportStates,
              HistoryStates, LogStates
  <2>3. CASE /\ Answer("SS_PRINTER", <<b>>, logmode, <<>>)
             /\ UNCHANGED <<logmode, control, hst_is_first, is_snapshot, f_open, fault>>
    BY <1>0, <2>3, SameSessionKeeps
    DEF Answer, Goto, SameSession, ListensOnly, SteadyStates
  <2> QED BY <1>1, <2>1, <2>2, <2>3 DEF SS_Pause_Active
<1>2. CASE Enter("SS_PRINTER", <<b>>)
  BY <1>0, <1>2, SameSessionKeeps
  DEF Enter, Goto, SameSession, ListensOnly, SteadyStates
<1>3. CASE SS_Pause_Directive
  <2>1. /\ control \subseteq control' /\ UNCHANGED <<header_state, logmode, f_open>>
        /\ "MESSAGE_SRC" \in control' => "MESSAGE_SRC" \in control
    BY <1>3 DEF SS_Pause_Directive, DirectiveBit
  <2> QED BY <2>1 DEF ControlInv, LogBitFollowsLogMode, FilesFollowSessions, SessionHas,
            DebtIsBacked, ListensOnly
<1>4. CASE Accumulate(b)
  BY <1>4, ViewDecides DEF Accumulate, View
<1> QED BY <1>1, <1>2, <1>3, <1>4 DEF SS_Pause

LEMMA FileOpened ==
  ASSUME NEW f, NEW ok \in FopenResult, OpenFile(f, ok)
  PROVE  /\ \A g : g # f => (g \in f_open' <=> g \in f_open)
         /\ f \in f_open' \/ FALSE \in FopenResult
<1>1. CASE ok = TRUE
  BY <1>1 DEF OpenFile
<1>2. CASE ok = FALSE
  BY <1>2 DEF OpenFile
<1> QED BY <1>1, <1>2, ParserAssumption

\* A dump begins with its file and ends without it.
LEMMA BeginControl ==
  ASSUME ControlInv, NEW ok \in FopenResult,
         \/ header_state = "RPT_START" /\ header_state' = "RPT_DATA" /\ OpenFile("rpt", ok)
         \/ header_state = "HST_START" /\ header_state' = "HST_DISPLAY" /\ OpenFile("hst", ok),
         UNCHANGED <<logmode, control>>
  PROVE  ControlInv'
<1>1. LogBitFollowsLogMode' /\ ListensOnly' /\ DebtIsBacked'
  BY DEF ControlInv, LogBitFollowsLogMode, ListensOnly, DebtIsBacked, SteadyStates,
     ReportStates, HistoryStates, LogStates
<1>2. ASSUME header_state = "RPT_START", header_state' = "RPT_DATA", OpenFile("rpt", ok)
      PROVE  FilesFollowSessions'
  <2>1. /\ \A g : g # "rpt" => (g \in f_open' <=> g \in f_open)
        /\ "rpt" \in f_open' \/ FALSE \in FopenResult
    BY <1>2, FileOpened
  <2> QED BY <1>2, <2>1 DEF ControlInv, FilesFollowSessions, SessionHas, ReportStates,
            HistoryStates
<1>3. ASSUME header_state = "HST_START", header_state' = "HST_DISPLAY", OpenFile("hst", ok)
      PROVE  FilesFollowSessions'
  <2>1. /\ \A g : g # "hst" => (g \in f_open' <=> g \in f_open)
        /\ "hst" \in f_open' \/ FALSE \in FopenResult
    BY <1>3, FileOpened
  <2> QED BY <1>3, <2>1 DEF ControlInv, FilesFollowSessions, SessionHas, ReportStates,
            HistoryStates
<1> QED BY <1>1, <1>2, <1>3 DEF ControlInv

LEMMA EndControl ==
  ASSUME ControlInv, NEW rsp,
         \/ header_state = "RPT_DATA" /\ CloseFile("rpt")
         \/ header_state = "HST_DATA" /\ CloseFile("hst"),
         header_state' = AfterSession, SettleSession(rsp), UNCHANGED logmode
  PROVE  ControlInv'
<1>1. /\ logmode => header_state' = "LOG_DISPLAY"
      /\ ~logmode => header_state' = "SS_DISPLAY"
  BY DEF AfterSession
<1>2. LogBitFollowsLogMode' /\ ListensOnly'
  BY <1>1 DEF LogBitFollowsLogMode, ListensOnly, SteadyStates, LogStates
<1>3. FilesFollowSessions'
  BY <1>1 DEF ControlInv, FilesFollowSessions, SessionHas, CloseFile, ReportStates,
     HistoryStates
<1>4. DebtIsBacked'
  BY DEF SettleSession, DebtIsBacked
<1> QED BY <1>2, <1>3, <1>4 DEF ControlInv

LEMMA ReportControl ==
  ASSUME ControlInv, NEW b,
         RPT_Start(b) \/ RPT_Data(b) \/ RPT_Display(b) \/ RPT_Printer(b)
  PROVE  ControlInv'
<1>0. CASE NullStream \/ Accumulate(b)
  BY <1>0, ViewDecides DEF NullStream, Dies, Accumulate, View
<1>1. CASE RPT_Start(b) /\ ~NullStream /\ ~Accumulate(b)
  BY <1>1, BeginControl DEF RPT_Start, Goto
<1>2. CASE RPT_Data(b) /\ ~Accumulate(b)
  <2>1. CASE MarkAt(FALSE)
    BY <1>2, <2>1, EndControl DEF RPT_Data, Goto
  <2>2. CASE ~MarkAt(FALSE)
    BY <1>2, <2>2, SameSessionKeeps
    DEF RPT_Data, Goto, SameSession, ListensOnly, ReportStates
  <2> QED BY <2>1, <2>2
<1>3. CASE RPT_Display(b) /\ ~NullStream /\ ~Accumulate(b)
  BY <1>3, SameSessionKeeps
  DEF RPT_Display, Answer, Goto, SameSession, ListensOnly, ReportStates
<1>4. CASE RPT_Printer(b) /\ ~Accumulate(b)
  BY <1>4, SameSessionKeeps
  DEF RPT_Printer, Enter, Goto, SameSession, ListensOnly, ReportStates
<1> QED BY <1>0, <1>1, <1>2, <1>3, <1>4 DEF RPT_Data, RPT_Printer

LEMMA HistoryControl ==
  ASSUME ControlInv, NEW b,
         HST_Start(b) \/ HST_Display(b) \/ HST_Printer(b) \/ HST_Printer_Active(b)
           \/ HST_Data(b)
  PROVE  ControlInv'
<1>0. CASE NullStream \/ Accumulate(b)
  BY <1>0, ViewDecides DEF NullStream, Dies, Accumulate, View
<1>1. CASE HST_Start(b) /\ ~NullStream /\ ~Accumulate(b)
  BY <1>1, BeginControl DEF HST_Start, Goto
<1>2. CASE HST_Display(b) /\ ~NullStream /\ ~Accumulate(b)
  BY <1>2, SameSessionKeeps
  DEF HST_Display, Answer, Goto, SameSession, ListensOnly, HistoryStates
<1>3. CASE (HST_Printer(b) \/ HST_Printer_Active(b)) /\ ~Accumulate(b)
  BY <1>3, SameSessionKeeps
  DEF HST_Printer, HST_Printer_Active, Enter, Goto, SameSession, ListensOnly, HistoryStates
<1>4. CASE HST_Data(b) /\ ~NullStream /\ ~Accumulate(b)
  <2>1. CASE /\ CloseFile("hst") /\ SettleSession("history file")
             /\ Goto(AfterSession, <<b>>) /\ UNCHANGED logmode
    BY <1>4, <2>1, EndControl DEF HST_Data, Goto
  <2>2. CASE /\ Goto("HST_DISPLAY", <<DELIM, b>>)
             /\ UNCHANGED <<logmode, control, f_open>>
    BY <1>4, <2>2, SameSessionKeeps
    DEF HST_Data, Goto, SameSession, ListensOnly, HistoryStates
  <2> QED BY <1>4, <2>1, <2>2 DEF HST_Data
<1> QED BY <1>0, <1>1, <1>2, <1>3, <1>4 DEF HST_Printer, HST_Printer_Active

\* Log mode is left with its bit and its file.
LEMMA LogOverControl ==
  ASSUME ControlInv, header_state \in LogStates, header_state' \in {"SS_PRINTER", "SS_DISPLAY"},
         logmode' = FALSE, CloseFile("log"),
         "MESSAGE_SRC" \in control' => control' = control
  PROVE  ControlInv'
<1>1. LogBitFollowsLogMode' /\ ListensOnly'
  BY DEF LogBitFollowsLogMode, ListensOnly, LogStates
<1>2. FilesFollowSessions'
  BY DEF ControlInv, FilesFollowSessions, SessionHas, CloseFile, ReportStates,
     HistoryStates, LogStates
<1>3. DebtIsBacked'
  BY DEF ControlInv, DebtIsBacked, ReportStates, HistoryStates, LogStates
<1> QED BY <1>1, <1>2, <1>3 DEF ControlInv

LEMMA LogControl ==
  ASSUME ControlInv, NEW b,
         LOG_Start(b) \/ LOG_Data(b) \/ LOG_Display(b) \/ LOG_Printer(b)
           \/ LOG_Printer_Active(b)
  PROVE  ControlInv'
<1>0. CASE NullStream \/ Dies("overrun") \/ Accumulate(b)
  BY <1>0, ViewDecides DEF NullStream, Dies, Accumulate, View
<1>1. CASE LOG_Start(b) /\ ~Accumulate(b)
  <2>1. /\ header_state = "LOG_START" /\ header_state' = "LOG_DATA"
        /\ logmode' = TRUE /\ UNCHANGED control
    BY <1>1 DEF LOG_Start, Goto
  <2>2. PICK ok \in FopenResult : OpenFile("log", ok)
    BY <1>1 DEF LOG_Start
  <2>3. /\ \A g : g # "log" => (g \in f_open' <=> g \in f_open)
        /\ "log" \in f_open' \/ FALSE \in FopenResult
    BY <2>2, FileOpened
  <2> QED BY <2>1, <2>3 DEF ControlInv, LogBitFollowsLogMode, FilesFollowSessions,
            SessionHas, DebtIsBacked, ListensOnly, SteadyStates, ReportStates,
            HistoryStates, LogStates
<1>2. CASE LOG_Data(b) /\ ~Dies("overrun") /\ ~Accumulate(b)
  <2>1. /\ header_state = "LOG_DATA" /\ header_state' = "LOG_DISPLAY"
        /\ control \subseteq control' /\ UNCHANGED <<logmode, f_open>>
        /\ "MESSAGE_SRC" \in control' => "MESSAGE_SRC" \in control
    BY <1>2 DEF LOG_Data, Goto, DirectiveBit
  <2> QED BY <2>1 DEF ControlInv, LogBitFollowsLogMode, FilesFollowSessions, SessionHas,
            DebtIsBacked, ListensOnly, SteadyStates, ReportStates, HistoryStates, LogStates
<1>3. CASE LOG_Display(b) /\ ~NullStream /\ ~Accumulate(b)
  <2>0. header_state = "LOG_DISPLAY"
    BY <1>3 DEF LOG_Display
  <2>1. CASE StopLog(b)
    BY <2>0, <2>1, LogOverControl DEF StopLog, Settle, Answer, Goto, LogStates
  <2>2. CASE \/ StartSession("REPORT_REQ", "RPT_START", <<DELIM, b>>, <<RCh, CR>>)
             \/ StartSession("HISTORY_REQ", "HST_START", <<DELIM, b>>, <<ICh, CR>>)
    BY <2>0, <2>2, StartSessionControl
  <2>3. CASE /\ header_state' \in {"LOG_PRINTER_ACTIVE", "LOG_DISPLAY", "LOG_DATA"}
                  \cup (IF Active THEN {} ELSE {"LOG_PRINTER"})
             /\ UNCHANGED <<logmode, control, f_open>>
    BY <2>0, <2>3, SameSessionKeeps DEF SameSession, ListensOnly, LogStates
  <2> QED BY <1>3, <2>1, <2>2, <2>3
          DEF LOG_Display, LOG_Display_Active, Answer, Enter, Goto
<1>4. CASE LOG_Printer(b) /\ ~Accumulate(b)
  <2>0. header_state = "LOG_PRINTER"
    BY <1>4 DEF LOG_Printer
  <2>1. CASE LOG_Printer_Quiet(b)
    <3>1. CASE Enter("LOG_DISPLAY", <<b>>)
      BY <2>0, <3>1, SameSessionKeeps
      DEF Enter, Goto, SameSession, ListensOnly, LogStates
    <3>2. CASE ~Enter("LOG_DISPLAY", <<b>>)
      BY <2>0, <2>1, <3>2, LogOverControl DEF LOG_Printer_Quiet, Goto, LogStates
    <3> QED BY <3>1, <3>2
  <2>2. CASE LOG_Printer_Record(b)
    BY <2>0, <2>2, SameSessionKeeps
    DEF LOG_Printer_Record, SameSession, ListensOnly, LogStates
  <2>3. CASE PushTo("RPT_START", b) \/ PushTo("HST_START", b)
    BY <2>0, <2>3 DEF PushTo, ControlInv, LogBitFollowsLogMode, FilesFollowSessions,
       SessionHas, DebtIsBacked, ListensOnly, SteadyStates, ReportStates, HistoryStates,
       LogStates
  <2> QED BY <1>4, <2>1, <2>2, <2>3 DEF LOG_Printer
<1>5. CASE LOG_Printer_Active(b) /\ ~Accumulate(b)
  BY <1>5, SameSessionKeeps
  DEF LOG_Printer_Active, Enter, Goto, SameSession, ListensOnly, LogStates
<1> QED BY <1>0, <1>1, <1>2, <1>3, <1>4, <1>5 DEF LOG_Printer_Active

LEMMA ParseByteControl ==
  ASSUME ControlInv, NEW b, ParseByte(b)
  PROVE  ControlInv'
BY SteadyControl, PauseControl, ReportControl, HistoryControl, LogControl DEF ParseByte

-----------------------------------------------------------------------------
(* The engine *)

\* With no process there is nothing of a session.
DownIsSteady == loop = "down" => header_state = "SS_UNKNOWN" /\ ~logmode

IInv == ControlInv /\ DownIsSteady

LEMMA InitControl == Init => IInv
<1> SUFFICES ASSUME Init PROVE IInv
  OBVIOUS
<1>1. /\ header_state = "SS_UNKNOWN" /\ logmode = FALSE /\ control = {}
      /\ f_open \subseteq {"rdg"}
  BY DEF Init, ParseOpen
<1> QED BY <1>1 DEF IInv, DownIsSteady, ControlInv, LogBitFollowsLogMode,
          FilesFollowSessions, SessionHas, DebtIsBacked, ListensOnly, ReportStates,
          HistoryStates, LogStates

LEMMA NextControl == IInv /\ [Next]_engineVars => IInv'
<1> SUFFICES ASSUME IInv, [Next]_engineVars
             PROVE  IInv'
  OBVIOUS
<1>1. CASE Usr1 \/ Usr2 \/ UNCHANGED engineVars
  BY <1>1, ViewDecides DEF IInv, DownIsSteady, Usr1, Usr2, engineVars, parserVars, View
<1>2. ASSUME NEW m \in Messages \cup {NoRequest}, LoopHead(m)
      PROVE  IInv'
  <2>1. /\ control \subseteq control'
        /\ UNCHANGED <<header_state, logmode, f_open>> /\ loop' = "reading"
    BY <1>2 DEF LoopHead
  <2>2. "MESSAGE_SRC" \in control' =>
           "MESSAGE_SRC" \in control \/ control' \cap Requests # {}
    BY <1>2 DEF LoopHead, TriggerBits, RequestBits, Requests
  <2> QED BY <2>1, <2>2 DEF IInv, DownIsSteady, ControlInv, LogBitFollowsLogMode,
            FilesFollowSessions, SessionHas, DebtIsBacked, ListensOnly
<1>3. ASSUME NEW b \in Bytes, Receive(b)
      PROVE  IInv'
  BY <1>3, ParseByteControl DEF Receive, IInv, DownIsSteady
<1>4. CASE Exit \/ Die
  <2>1. /\ header_state' = "SS_UNKNOWN" /\ logmode' = FALSE /\ control' = {}
        /\ f_open' = {}
    BY <1>4 DEF Exit, Die, ProcessGone
  <2> QED BY <2>1 DEF IInv, DownIsSteady, ControlInv, LogBitFollowsLogMode,
            FilesFollowSessions, SessionHas, DebtIsBacked, ListensOnly, ReportStates,
            HistoryStates, LogStates
<1>5. CASE Restart
  <2>1. /\ header_state' = "SS_UNKNOWN" /\ ~logmode' /\ UNCHANGED control
        /\ header_state = "SS_UNKNOWN"
        /\ f_open' \subseteq {"rdg"} /\ loop' = "top"
    BY <1>5 DEF Restart, IInv, DownIsSteady
  <2> QED BY <2>1 DEF IInv, DownIsSteady, ControlInv, LogBitFollowsLogMode,
            FilesFollowSessions, SessionHas, DebtIsBacked, ListensOnly, ReportStates,
            HistoryStates, LogStates
<1> QED BY <1>1, <1>2, <1>3, <1>4, <1>5 DEF Next

\* The handler in charge, the log bit, the files and the debts fit together in
\* every state of the engine; the theorems below each take a part of it.
THEOREM ControlInvariant == Spec => []IInv
BY InitControl, NextControl, PTL DEF Spec

\* A data file is open exactly while its session runs: no fopen forgets a stream
\* that is still open, no record of a session comes before its file.
THEOREM FilesAreSessions == Spec => []FilesFollowSessions
<1>1. IInv => FilesFollowSessions
  BY DEF IInv, ControlInv
<1> QED BY <1>1, ControlInvariant, PTL

\* The log bit that the 1022 reads in every status byte is up in log mode and in
\* what interrupts it, and nowhere else.
THEOREM LogBitIsLogMode == Spec => []LogBitFollowsLogMode
<1>1. IInv => LogBitFollowsLogMode
  BY DEF IInv, ControlInv
<1> QED BY <1>1, ControlInvariant, PTL

\* Whoever waits for a completion waits for a pending request or a session.
THEOREM DebtBacked == Spec => []DebtIsBacked
<1>1. IInv => DebtIsBacked
  BY DEF IInv, ControlInv
<1> QED BY <1>1, ControlInvariant, PTL

-----------------------------------------------------------------------------
(* Requests to end log mode *)

OffFits == "LOGMODE_OFF_REQ" \in control => logmode

\* A handler of an active engine raises the bit in log mode only, and drops the
\* log bit only together with it.
LEMMA ParseByteOffFits ==
  ASSUME Active, ControlInv, OffFits, NEW b, ParseByte(b)
  PROVE  OffFits'
<1>0. OffFits' \/ ~UNCHANGED <<logmode, control>>
  BY DEF OffFits
<1>1. CASE Accumulate(b) \/ NullStream \/ Dies("overrun") \/ \E state : PushTo(state, b)
  BY <1>0, <1>1 DEF Accumulate, PushTo, NullStream, Dies
<1>2. CASE \E state, rec : Enter(state, rec)
  BY <1>0, <1>2 DEF Enter
<1>3. CASE SS_Unknown(b) \/ SS_Pause(b) \/ SS_Display(b) \/ SS_Printer(b)
  <2>1. CASE SS_Pause_Active(b)
    BY <1>0, <2>1 DEF SS_Pause_Active, StartSession, StartLog, OffFits
  <2>2. CASE SS_Pause_Directive
    <3>1. UNCHANGED logmode
          /\ ("LOGMODE_OFF_REQ" \in control' => "LOGMODE_OFF_REQ" \in control)
      BY <2>2 DEF SS_Pause_Directive, DirectiveBit
    <3> QED BY <3>1 DEF OffFits
  <2>3. CASE SS_Pause(b)
    BY <1>1, <1>2, <2>1, <2>2, <2>3 DEF SS_Pause
  <2> QED BY <1>0, <1>1, <1>2, <1>3, <2>3 DEF SS_Unknown, SS_Display, SS_Printer
<1>4. CASE RPT_Start(b) \/ RPT_Data(b) \/ RPT_Display(b) \/ RPT_Printer(b)
  BY <1>0, <1>1, <1>2, <1>4
  DEF RPT_Start, RPT_Data, RPT_Display, RPT_Printer, SettleSession, OffFits
<1>5. CASE \/ HST_Start(b) \/ HST_Display(b) \/ HST_Printer(b)
           \/ HST_Printer_Active(b) \/ HST_Data(b)
  BY <1>0, <1>1, <1>2, <1>5
  DEF HST_Start, HST_Display, HST_Printer, HST_Printer_Active, HST_Data,
      SettleSession, OffFits
<1>6. CASE \/ LOG_Start(b) \/ LOG_Data(b) \/ LOG_Display(b) \/ LOG_Printer(b)
           \/ LOG_Printer_Active(b)
  <2>1. CASE LOG_Start(b)
    BY <1>1, <2>1 DEF LOG_Start, OffFits
  <2>2. CASE LOG_Data(b)
    <3>1. logmode
      BY <2>2 DEF LOG_Data, ControlInv, LogBitFollowsLogMode, LogStates
    <3> QED BY <1>1, <2>2, <3>1 DEF LOG_Data, OffFits
  <2>3. CASE LOG_Display(b)
    BY <1>0, <1>1, <1>2, <2>3
    DEF LOG_Display, LOG_Display_Active, StopLog, Settle, StartSession, OffFits
  <2>4. ~LOG_Printer(b)
    BY DEF LOG_Printer, ControlInv, ListensOnly
  <2> QED BY <1>1, <1>2, <1>6, <2>1, <2>2, <2>3, <2>4 DEF LOG_Printer_Active
<1> QED BY <1>3, <1>4, <1>5, <1>6 DEF ParseByte

\* No request to end log mode outlives the log session it was made in, so none
\* can end a later one: for every byte sequence, request, death and restart,
\* as long as nobody sends SIGUSR2.
THEOREM OffRequestsFit == Spec => []OffRequestFits
<1> DEFINE Inv == Active /\ "SIGUSR2" \notin Signals => OffFits /\ ~trigger2
<1>1. Init => Inv
  BY DEF Init, ParseOpen, OffFits
<1>2. IInv /\ Inv /\ [Next]_engineVars => Inv'
  <2> SUFFICES ASSUME IInv, OffFits, ~trigger2, [Next]_engineVars,
                      Active, "SIGUSR2" \notin Signals
               PROVE  OffFits' /\ ~trigger2'
    OBVIOUS
  <2>1. CASE Usr1 \/ Usr2 \/ UNCHANGED engineVars
    BY <2>1 DEF Usr1, Usr2, engineVars, parserVars, OffFits
  <2>2. CASE Exit \/ Die
    BY <2>2 DEF Exit, Die, ProcessGone, OffFits
  <2>3. ASSUME NEW m \in Messages \cup {NoRequest}, LoopHead(m)
        PROVE  OffFits' /\ ~trigger2'
    BY <2>3 DEF LoopHead, TriggerBits, RequestBits, OffFits
  <2>4. ASSUME NEW b \in Bytes, Receive(b)
        PROVE  OffFits' /\ ~trigger2'
    BY <2>4, ParseByteOffFits DEF Receive, IInv
  <2>5. CASE Restart
    BY <2>5 DEF Restart, OffFits
  <2> QED BY <2>1, <2>2, <2>3, <2>4, <2>5 DEF Next
<1>3. Inv => OffRequestFits
  BY DEF OffRequestFits, OffFits
<1> QED BY <1>1, <1>2, <1>3, ControlInvariant, PTL DEF Spec

-----------------------------------------------------------------------------
(* Null streams *)

\* As long as fopen does not fail, what is opened stays open while it is used.
NullFree == fault # "null" /\ (loop # "down" => "rdg" \in f_open)

LEMMA OpenKeepsReadings ==
  ASSUME "rdg" \in f_open, FALSE \notin FopenResult,
         \/ \E f \in {"rpt", "hst", "log"} : CloseFile(f)
         \/ \E f \in {"rpt", "hst", "log"}, ok \in FopenResult : OpenFile(f, ok)
         \/ UNCHANGED f_open
  PROVE  "rdg" \in f_open'
<1>1. CASE \E f \in {"rpt", "hst", "log"} : CloseFile(f)
  BY <1>1 DEF CloseFile
<1>2. ASSUME NEW f \in {"rpt", "hst", "log"}, NEW ok \in FopenResult, OpenFile(f, ok)
      PROVE  "rdg" \in f_open'
  BY <1>2, FileOpened
<1> QED BY <1>1, <1>2

LEMMA ParseByteNullFree ==
  ASSUME FALSE \notin FopenResult, ControlInv, "rdg" \in f_open, fault # "null",
         NEW b, ParseByte(b)
  PROVE  "rdg" \in f_open' /\ fault' # "null"
<1>0. ~ReadingLost
  BY DEF ReadingLost
<1>1. fault = "none"
  BY DEF ParseByte
<1>2. CASE Accumulate(b) \/ Dies("overrun") \/ \E state : PushTo(state, b)
  BY <1>1, <1>2 DEF Accumulate, PushTo, Push, Dies
<1>3. CASE \E state, rec : Enter(state, rec)
  BY <1>1, <1>3 DEF Enter
<1>4. CASE SS_Unknown(b) \/ SS_Pause(b) \/ SS_Display(b) \/ SS_Printer(b)
  BY <1>0, <1>1, <1>2, <1>3, <1>4
  DEF SS_Unknown, SS_Pause, SS_Pause_Active, SS_Pause_Directive, SS_Display, SS_Printer,
      StartSession, StartLog
<1>5. CASE RPT_Start(b) \/ RPT_Data(b) \/ RPT_Display(b) \/ RPT_Printer(b)
  <2>1. CASE RPT_Start(b)
    BY <1>1, <1>2, <2>1, OpenKeepsReadings, ParserAssumption DEF RPT_Start
  <2>2. CASE RPT_Data(b)
    BY <1>1, <1>2, <2>2, OpenKeepsReadings DEF RPT_Data
  <2> QED BY <1>0, <1>1, <1>2, <1>3, <1>5, <2>1, <2>2 DEF RPT_Display, RPT_Printer
<1>6. CASE \/ HST_Start(b) \/ HST_Display(b) \/ HST_Printer(b)
           \/ HST_Printer_Active(b) \/ HST_Data(b)
  <2>1. CASE HST_Start(b)
    BY <1>1, <1>2, <2>1, OpenKeepsReadings, ParserAssumption DEF HST_Start
  <2>2. CASE HST_Data(b)
    <3>1. "hst" \in f_open
      BY <2>2 DEF HST_Data, ControlInv, FilesFollowSessions, SessionHas, HistoryStates
    <3> QED BY <1>1, <1>2, <2>2, <3>1, OpenKeepsReadings DEF HST_Data
  <2> QED BY <1>0, <1>1, <1>2, <1>3, <1>6, <2>1, <2>2
          DEF HST_Display, HST_Printer, HST_Printer_Active
<1>7. CASE \/ LOG_Start(b) \/ LOG_Data(b) \/ LOG_Display(b) \/ LOG_Printer(b)
           \/ LOG_Printer_Active(b)
  <2>1. CASE LOG_Start(b)
    BY <1>1, <1>2, <2>1, OpenKeepsReadings DEF LOG_Start
  <2>2. CASE LOG_Data(b)
    BY <1>1, <1>2, <2>2 DEF LOG_Data
  <2>3. CASE LOG_Display(b)
    BY <1>0, <1>1, <1>2, <1>3, <2>3, OpenKeepsReadings
    DEF LOG_Display, LOG_Display_Active, StopLog, StartSession
  <2>4. CASE LOG_Printer(b)
    BY <1>1, <1>2, <1>3, <2>4, OpenKeepsReadings
    DEF LOG_Printer, LOG_Printer_Quiet, LOG_Printer_Record
  <2> QED BY <1>2, <1>3, <1>7, <2>1, <2>2, <2>3, <2>4 DEF LOG_Printer_Active
<1> QED BY <1>4, <1>5, <1>6, <1>7 DEF ParseByte

\* No handler gives a NULL stream to rewind, fwrite or fclose: the tests of the
\* FILE pointers that are missing matter only after an fopen that failed.
THEOREM NoNull == FALSE \notin FopenResult => (Spec => []NoNullStream)
<1> SUFFICES ASSUME FALSE \notin FopenResult
             PROVE  Spec => []NoNullStream
  OBVIOUS
<1>1. Init => NullFree
  BY ParserAssumption DEF Init, ParseOpen, NullFree
<1>2. IInv /\ NullFree /\ [Next]_engineVars => NullFree'
  <2> SUFFICES ASSUME IInv, NullFree, [Next]_engineVars
               PROVE  NullFree'
    OBVIOUS
  <2>1. CASE Usr1 \/ Usr2 \/ UNCHANGED engineVars \/ Exit \/ Die
    BY <2>1 DEF Usr1, Usr2, Exit, Die, ProcessGone, engineVars, parserVars, NullFree
  <2>2. ASSUME NEW m \in Messages \cup {NoRequest}, LoopHead(m)
        PROVE  NullFree'
    BY <2>2 DEF LoopHead, NullFree
  <2>3. ASSUME NEW b \in Bytes, Receive(b)
        PROVE  NullFree'
    BY <2>3, ParseByteNullFree DEF Receive, IInv, NullFree
  <2>4. CASE Restart
    BY <2>4, ParserAssumption DEF Restart, NullFree
  <2> QED BY <2>1, <2>2, <2>3, <2>4 DEF Next
<1>3. NullFree => NoNullStream
  BY DEF NullFree, NoNullStream
<1> QED BY <1>1, <1>2, <1>3, ControlInvariant, PTL DEF Spec

-----------------------------------------------------------------------------
(***************************************************************************)
(* What the handlers read of the record they have gathered: the places     *)
(* they look at are filled, but for HST_Data, which compares five cells    *)
(* without asking for the length of the record; a dump ends on the end     *)
(* mark and nowhere else all the same; and what LOG_Data finds in its      *)
(* cells is not left over.                                                 *)
(***************************************************************************)

\* The inductive form: a history record starts with its 0x98.
RecordBegun ==
  /\ header_state \in {"SS_PRINTER", "RPT_DISPLAY", "HST_DISPLAY", "LOG_DISPLAY",
                       "LOG_PRINTER"} => buffer_len >= 1
  /\ header_state = "HST_PRINTER" => buffer_len >= 2
  /\ header_state = "HST_DATA" => buffer_len >= 1 /\ buffer[0] = DELIM

\* A reset leaves what the next handler will look back at.
LEMMA FillReads ==
  ASSUME ParserTypeOK, NEW state, NEW rec, Record(rec), Goto(state, rec),
         state = "HST_PRINTER" => Len(rec) = 2,
         state = "HST_DATA" => rec[1] = DELIM
  PROVE  RecordBegun'
<1>1. header_state' = state /\ buffer_len' = Len(rec) /\ buffer'[0] = rec[1]
  BY FillType DEF Goto
<1>2. Len(rec) \in 1..5
  BY DEF Record
<1> QED BY <1>1, <1>2 DEF RecordBegun

LEMMA AnswerReads ==
  ASSUME ParserTypeOK, NEW state \in HeaderStates \ {"HST_DATA"}, NEW lm \in BOOLEAN,
         NEW prefix, Record(prefix), Len(prefix) <= 2,
         NEW request \in Seq(Byte), Len(request) <= 2,
         Answer(state, prefix, lm, request)
  PROVE  RecordBegun'
<1>1. header_state' = state /\ buffer_len' \in 0..BufSize /\ buffer_len' >= 2
  BY AnswerType
<1>2. BufSize \in Nat
  BY ParserAssumption
<1> QED BY <1>1, <1>2 DEF RecordBegun

LEMMA PushReads ==
  ASSUME ParserTypeOK, RecordBegun, NEW b \in Byte, Accumulate(b)
  PROVE  RecordBegun'
<1>1. /\ buffer_len' \in 0..BufSize /\ buffer_len' >= buffer_len
      /\ buffer_len >= 1 => buffer'[0] = buffer[0]
      /\ header_state' = header_state
  BY PushType DEF Accumulate
<1>2. BufSize \in Nat /\ buffer_len \in 0..BufSize
  BY ParserAssumption DEF ParserTypeOK
<1> QED BY <1>1, <1>2 DEF RecordBegun

LEMMA DiesReads ==
  ASSUME RecordBegun, NullStream \/ Dies("overrun")
  PROVE  RecordBegun'
BY DEF NullStream, Dies, RecordBegun

\* The handlers that do not look back
LEMMA Carefree ==
  ASSUME header_state' \in {"SS_PAUSE", "RPT_START", "HST_START", "LOG_START", "LOG_DATA"}
  PROVE  RecordBegun'
BY DEF RecordBegun

LEMMA SteadyReads ==
  ASSUME ParserTypeOK, RecordBegun, NEW b \in Byte,
         SS_Unknown(b) \/ SS_Display(b) \/ SS_Printer(b)
  PROVE  RecordBegun'
<1> USE Records
<1>0. CASE NullStream \/ Accumulate(b)
  BY <1>0, DiesReads, PushReads
<1>1. CASE (SS_Unknown(b) \/ SS_Display(b)) /\ ~NullStream /\ ~Accumulate(b)
  BY <1>1 DEF SS_Unknown, SS_Display, Enter, Goto, RecordBegun
<1>2. CASE SS_Printer(b) /\ ~Accumulate(b)
  BY <1>2, Carefree DEF SS_Printer, Enter, Goto, PushTo, Overheard
<1> QED BY <1>0, <1>1, <1>2 DEF SS_Unknown, SS_Printer

LEMMA PauseReads ==
  ASSUME ParserTypeOK, RecordBegun, NEW b \in Byte, SS_Pause(b)
  PROVE  RecordBegun'
<1> USE Records
<1>1. CASE SS_Pause_Active(b)
  <2>1. CASE /\ Answer("SS_PRINTER", <<b>>, logmode, <<>>)
    <3>1. "SS_PRINTER" \in HeaderStates \ {"HST_DATA"} /\ logmode \in BOOLEAN
      BY DEF HeaderStates, SteadyStates, ParserTypeOK
    <3> QED BY <2>1, <3>1, EmptyText, AnswerReads
  <2>2. CASE header_state' \in {"RPT_START", "HST_START", "LOG_START"}
    BY <2>2, Carefree
  <2> QED BY <1>1, <2>1, <2>2 DEF SS_Pause_Active, StartSession, StartLog, Answer, Goto
<1>2. CASE Enter("SS_PRINTER", <<b>>)
  BY <1>2, FillReads DEF Enter
<1>3. CASE SS_Pause_Directive
  BY <1>3, Carefree DEF SS_Pause_Directive, SS_Pause
<1>4. CASE Accumulate(b)
  BY <1>4, PushReads
<1> QED BY <1>1, <1>2, <1>3, <1>4 DEF SS_Pause

LEMMA ReportReads ==
  ASSUME ParserTypeOK, RecordBegun, NEW b \in Byte,
         RPT_Start(b) \/ RPT_Data(b) \/ RPT_Display(b) \/ RPT_Printer(b)
  PROVE  RecordBegun'
<1> USE Records
<1>0. CASE NullStream \/ Accumulate(b)
  BY <1>0, DiesReads, PushReads
<1>1. CASE header_state' \in {"RPT_DATA", "RPT_PRINTER", "SS_DISPLAY"}
  BY <1>1 DEF RecordBegun
<1>2. CASE RPT_Data(b) /\ ~Accumulate(b)
  <2>1. \/ Goto("RPT_DISPLAY", <<b>>) \/ Goto("LOG_DISPLAY", <<b>>)
        \/ header_state' = "SS_DISPLAY"
    BY <1>2 DEF RPT_Data, AfterSession, Goto
  <2> QED BY <1>1, <2>1, FillReads
<1> QED BY <1>0, <1>1, <1>2
        DEF RPT_Start, RPT_Data, RPT_Display, RPT_Printer, Enter, Answer, Goto

LEMMA HistoryReads ==
  ASSUME ParserTypeOK, RecordBegun, NEW b \in Byte,
         HST_Start(b) \/ HST_Display(b) \/ HST_Printer(b) \/ HST_Printer_Active(b)
           \/ HST_Data(b)
  PROVE  RecordBegun'
<1> USE Records
<1>0. CASE NullStream \/ Accumulate(b)
  BY <1>0, DiesReads, PushReads
<1>1. CASE header_state' \in {"HST_PRINTER_ACTIVE", "SS_DISPLAY"}
  BY <1>1 DEF RecordBegun
<1>2. CASE \/ Goto("HST_DISPLAY", <<b>>) \/ Goto("HST_DISPLAY", <<DELIM, b>>)
           \/ Goto("LOG_DISPLAY", <<b>>)
  BY <1>2, FillReads
<1>3. CASE Goto("HST_PRINTER", <<DELIM, b>>)
  <2>1. Len(<<DELIM, b>>) = 2
    OBVIOUS
  <2> QED BY <1>3, <2>1, FillReads
<1>4. CASE Goto("HST_DATA", <<DELIM>>)
  <2>1. Record(<<DELIM>>) /\ <<DELIM>>[1] = DELIM
    BY Codes
  <2> QED BY <1>4, <2>1, FillReads
<1>5. CASE HST_Start(b) /\ ~NullStream /\ ~Accumulate(b)
  BY <1>2, <1>5 DEF HST_Start
<1>6. CASE HST_Display(b) /\ ~NullStream /\ ~Accumulate(b)
  BY <1>1, <1>3, <1>6 DEF HST_Display, Answer, Goto
<1>7. CASE (HST_Printer(b) \/ HST_Printer_Active(b)) /\ ~Accumulate(b)
  BY <1>2, <1>4, <1>7 DEF HST_Printer, HST_Printer_Active, Enter
<1>8. CASE HST_Data(b) /\ ~NullStream /\ ~Accumulate(b)
  BY <1>1, <1>2, <1>8 DEF HST_Data, AfterSession, Goto
<1> QED BY <1>0, <1>5, <1>6, <1>7, <1>8 DEF HST_Printer, HST_Printer_Active

LEMMA LogReads ==
  ASSUME ParserTypeOK, RecordBegun, NEW b \in Byte,
         LOG_Start(b) \/ LOG_Data(b) \/ LOG_Display(b) \/ LOG_Printer(b)
           \/ LOG_Printer_Active(b)
  PROVE  RecordBegun'
<1> USE Records
<1>0. CASE NullStream \/ Dies("overrun") \/ Accumulate(b)
  BY <1>0, DiesReads, PushReads
<1>1. CASE \/ Goto("LOG_DISPLAY", <<b>>) \/ Goto("LOG_DISPLAY", <<DELIM, b>>)
           \/ Goto("LOG_PRINTER", <<DELIM, b>>)
  BY <1>1, FillReads
<1>2. CASE header_state' \in {"LOG_DATA", "LOG_PRINTER_ACTIVE", "RPT_START", "HST_START",
                              "SS_DISPLAY"}
  BY <1>2 DEF RecordBegun
<1>3. CASE LOG_Start(b) /\ ~Accumulate(b)
  BY <1>2, <1>3 DEF LOG_Start, Goto
<1>4. CASE LOG_Data(b) /\ ~Dies("overrun") /\ ~Accumulate(b)
  BY <1>1, <1>4 DEF LOG_Data
<1>5. CASE LOG_Display(b) /\ ~NullStream /\ ~Accumulate(b)
  <2>1. CASE StopLog(b)
    <3>1. Answer("SS_PRINTER", <<DELIM, b>>, FALSE, <<>>)
      BY <2>1 DEF StopLog
    <3>2. "SS_PRINTER" \in HeaderStates \ {"HST_DATA"}
      BY DEF HeaderStates, SteadyStates
    <3> QED BY <3>1, <3>2, EmptyText, AnswerReads
  <2> QED BY <1>1, <1>2, <1>5, <2>1
          DEF LOG_Display, LOG_Display_Active, StartSession, Answer, Enter, Goto
<1>6. CASE LOG_Printer(b) /\ ~Accumulate(b)
  BY <1>1, <1>2, <1>6
  DEF LOG_Printer, LOG_Printer_Quiet, LOG_Printer_Record, PushTo, Enter, Goto
<1>7. CASE LOG_Printer_Active(b) /\ ~Accumulate(b)
  BY <1>2, <1>7 DEF LOG_Printer_Active, Enter, Goto
<1> QED BY <1>0, <1>3, <1>4, <1>5, <1>6, <1>7 DEF LOG_Printer_Active

LEMMA BegunInvariant == Spec => []RecordBegun
<1>1. Init => RecordBegun
  BY DEF Init, ParseOpen, RecordBegun
<1>2. TypeOK /\ RecordBegun /\ [Next]_engineVars => RecordBegun'
  <2> SUFFICES ASSUME TypeOK, RecordBegun, [Next]_engineVars
               PROVE  RecordBegun'
    OBVIOUS
  <2>1. CASE UNCHANGED <<header_state, buffer, buffer_len>>
    BY <2>1 DEF RecordBegun
  <2>2. ASSUME NEW m \in Messages \cup {NoRequest}, LoopHead(m)
        PROVE  RecordBegun'
    BY <2>1, <2>2 DEF LoopHead
  <2>3. ASSUME NEW b \in Bytes, Receive(b)
        PROVE  RecordBegun'
    <3>1. ParserTypeOK /\ ParseByte(b) /\ b \in Byte
      BY <2>3, EngineAssumption DEF Receive, TypeOK
    <3> QED BY <3>1, SteadyReads, PauseReads, ReportReads, HistoryReads, LogReads DEF ParseByte
  <2>4. CASE Exit \/ Die
    BY <2>4 DEF Exit, Die, ProcessGone, RecordBegun
  <2>5. CASE Usr1 \/ Usr2 \/ Restart \/ UNCHANGED engineVars
    BY <2>1, <2>5 DEF Usr1, Usr2, Restart, engineVars, parserVars
  <2> QED BY <2>2, <2>3, <2>4, <2>5 DEF Next
<1> QED BY <1>1, <1>2, TypeCorrect, PTL DEF Spec

-----------------------------------------------------------------------------
(* The end mark *)

\* The comparison of HST_Data may run off the front of a short record, but the
\* 0x98 the record starts with is no byte of the mark.
LEMMA MarkNeedsFive ==
  ASSUME ParserTypeOK, NEW oob \in BOOLEAN, MarkAt(oob),
         oob => buffer_len >= 1 /\ buffer[0] = DELIM
  PROVE  buffer_len >= 5
<1>1. BufSize \in Nat /\ buffer_len \in 0..BufSize
  BY ParserAssumption DEF ParserTypeOK
<1> SUFFICES ASSUME buffer_len < 5 PROVE FALSE
  BY <1>1
<1>2. buffer_len \in 1..4 /\ buffer[0] = DELIM
  BY <1>1 DEF MarkAt
<1>3. buffer[0] = EndMark[6 - buffer_len]
  BY <1>2 DEF MarkAt
<1>4. EndMark[6 - buffer_len] # DELIM
  BY <1>2 DEF EndMark, DELIM, SEMI, CR
<1> QED BY <1>2, <1>3, <1>4

\* Whatever bytes arrive, every handler but HST_Data has stored what it looks
\* back at, and what HST_Data finds in front of the buffer never ends a session.
THEOREM LooksBackInVain == Spec => []LookBackIsHarmless
<1>1. TypeOK /\ RecordBegun => LookBackIsHarmless
  <2> SUFFICES ASSUME TypeOK, RecordBegun PROVE LookBackIsHarmless
    OBVIOUS
  <2>1. buffer_len \in Nat
    BY ParserAssumption DEF TypeOK, ParserTypeOK
  <2>2. CASE header_state = "HST_DATA"
    <3>1. buffer_len >= 1 /\ buffer[0] = DELIM /\ LooksBack = 5
      BY <2>2 DEF RecordBegun, LooksBack
    <3>2. ASSUME MarkAt(TRUE) PROVE ~(buffer_len < 5)
      <4>1. buffer_len >= 5
        BY <3>1, <3>2, MarkNeedsFive DEF TypeOK
      <4> QED BY <2>1, <4>1
    <3> QED BY <2>2, <3>1, <3>2, Zenon DEF LookBackIsHarmless
  <2>3. CASE header_state # "HST_DATA"
    BY <2>1, <2>3 DEF LookBackIsHarmless, LooksBack, RecordBegun
  <2> QED BY <2>2, <2>3
<1> QED BY <1>1, TypeCorrect, BegunInvariant, PTL

LEMMA MarkIsText ==
  ASSUME ParserTypeOK, NEW oob \in BOOLEAN, MarkAt(oob), buffer_len >= 5
  PROVE  SubSeq(Contents, buffer_len - 4, buffer_len) = EndMark
<1>1. BufSize \in Nat /\ buffer_len \in 0..BufSize
  BY ParserAssumption DEF ParserTypeOK
<1>2. Contents \in Seq(Byte) /\ Len(Contents) = buffer_len
  BY ContentsType
<1> DEFINE tail == SubSeq(Contents, buffer_len - 4, buffer_len)
<1>3. \A k \in 1..5 : buffer[buffer_len - k] = EndMark[6 - k]
  BY <1>1 DEF MarkAt
<1>4. tail \in Seq(Byte) /\ Len(tail) = 5
      /\ \A i \in 1..5 : tail[i] = Contents[(buffer_len - 4) + i - 1]
  <2>1. \A i \in (buffer_len - 4)..buffer_len : Contents[i] \in Byte
    BY <1>1, <1>2
  <2> QED BY <1>1, <1>2, <2>1, SubSeqProperties
<1>5. \A i \in 1..5 : tail[i] = EndMark[i]
  <2> SUFFICES ASSUME NEW i \in 1..5 PROVE tail[i] = EndMark[i]
    OBVIOUS
  <2>1. tail[i] = Contents[buffer_len - 5 + i]
    BY <1>1, <1>4
  <2>2. Contents[buffer_len - 5 + i] = buffer[buffer_len - (6 - i)]
    BY <1>1 DEF Contents
  <2>3. buffer[buffer_len - (6 - i)] = EndMark[6 - (6 - i)]
    BY <1>3
  <2>4. 6 - (6 - i) = i
    OBVIOUS
  <2> HIDE DEF tail
  <2> QED BY <2>1, <2>2, <2>3, <2>4, Zenon
<1>6. EndMark \in Seq(Byte) /\ Len(EndMark) = 5
  BY DEF EndMark, Byte, SEMI, CR
<1> HIDE DEF tail
<1>7. tail = EndMark
  BY <1>4, <1>5, <1>6, SeqEqual
<1> QED BY <1>7 DEF tail

\* Only the handler that finds the mark leaves a session.
LEMMA ReportEnds ==
  ASSUME header_state \in ReportStates, header_state' \notin ReportStates, NEW b, ParseByte(b)
  PROVE  /\ header_state = "RPT_DATA" /\ MarkAt(FALSE)
         /\ WriteIfOpen("rpt", Contents)
<1>1. CASE header_state = "RPT_DATA"
  BY <1>1 DEF ParseByte, SS_Unknown, SS_Pause, SS_Display, SS_Printer, RPT_Start, RPT_Data,
     RPT_Display, RPT_Printer, HST_Start, HST_Display, HST_Printer, HST_Printer_Active,
     HST_Data, LOG_Start, LOG_Data, LOG_Display, LOG_Printer, LOG_Printer_Active,
     Accumulate, Goto, ReportStates
<1>2. CASE header_state # "RPT_DATA"
  <2>1. RPT_Start(b) \/ RPT_Display(b) \/ RPT_Printer(b)
    BY <1>2 DEF ParseByte, SS_Unknown, SS_Pause, SS_Display, SS_Printer, RPT_Data,
       HST_Start, HST_Display, HST_Printer, HST_Printer_Active, HST_Data, LOG_Start,
       LOG_Data, LOG_Display, LOG_Printer, LOG_Printer_Active, ReportStates
  <2> QED BY <2>1 DEF RPT_Start, RPT_Display, RPT_Printer, NullStream, Dies, Enter,
            Accumulate, Answer, Goto, ReportStates
<1> QED BY <1>1, <1>2

LEMMA HistoryEnds ==
  ASSUME header_state \in HistoryStates, header_state' \notin HistoryStates, NEW b, ParseByte(b)
  PROVE  /\ header_state = "HST_DATA" /\ \E oob \in BOOLEAN : MarkAt(oob)
         /\ "hst" \in f_open /\ WriteIfOpen("hst", Contents)
<1>1. CASE header_state = "HST_DATA"
  <2>1. HST_Data(b)
    BY <1>1 DEF ParseByte, SS_Unknown, SS_Pause, SS_Display, SS_Printer, RPT_Start, RPT_Data,
       RPT_Display, RPT_Printer, HST_Start, HST_Display, HST_Printer, HST_Printer_Active,
       LOG_Start, LOG_Data, LOG_Display, LOG_Printer, LOG_Printer_Active
  <2> QED BY <1>1, <2>1 DEF HST_Data, NullStream, Dies, Accumulate, Goto, HistoryStates
<1>2. CASE header_state # "HST_DATA"
  <2>1. HST_Start(b) \/ HST_Display(b) \/ HST_Printer(b) \/ HST_Printer_Active(b)
    BY <1>2 DEF ParseByte, SS_Unknown, SS_Pause, SS_Display, SS_Printer, RPT_Start, RPT_Data,
       RPT_Display, RPT_Printer, HST_Data, LOG_Start, LOG_Data, LOG_Display, LOG_Printer,
       LOG_Printer_Active, HistoryStates
  <2> QED BY <2>1 DEF HST_Start, HST_Display, HST_Printer, HST_Printer_Active, NullStream,
            Dies, Enter, Accumulate, Answer, Goto, HistoryStates
<1> QED BY <1>1, <1>2

\* A report or history ends only on a record that closes with ";end", and that
\* record is in its file when the client hears of it.
THEOREM EndsOnMark == Spec => SessionEndsOnMark
<1> DEFINE Ends ==
      /\ buffer_len >= 5 /\ SubSeq(Contents, buffer_len - 4, buffer_len) = EndMark
      /\ FALSE \notin FopenResult =>
           /\ wrote'.data = Contents
           /\ wrote'.file = IF header_state \in ReportStates THEN "rpt" ELSE "hst"
<1>1. TypeOK /\ IInv /\ RecordBegun /\ [Next]_engineVars
        => [LeavesSession => Ends]_engineVars
  <2> SUFFICES ASSUME TypeOK, IInv, RecordBegun, Next, LeavesSession
               PROVE  Ends
    OBVIOUS
  <2>1. PICK b \in Bytes : Receive(b)
    <3>1. ~Exit /\ ~Die
      BY DEF Exit, Die, ProcessGone, LeavesSession
    <3>2. header_state' # header_state
      BY DEF LeavesSession
    <3> QED BY <3>1, <3>2 DEF Next, Usr1, Usr2, LoopHead, Restart, parserVars
  <2>2. ParserTypeOK /\ ParseByte(b) /\ FilesFollowSessions
    BY <2>1 DEF Receive, TypeOK, IInv, ControlInv
  <2>3. CASE header_state \in ReportStates /\ header_state' \notin ReportStates
    <3>1. header_state = "RPT_DATA" /\ MarkAt(FALSE) /\ WriteIfOpen("rpt", Contents)
      BY <2>2, <2>3, ReportEnds
    <3>2. buffer_len >= 5 /\ SubSeq(Contents, buffer_len - 4, buffer_len) = EndMark
      BY <2>2, <3>1, MarkNeedsFive, MarkIsText
    <3>3. FALSE \notin FopenResult => "rpt" \in f_open
      BY <2>2, <3>1 DEF FilesFollowSessions, SessionHas, ReportStates
    <3> QED BY <2>3, <3>1, <3>2, <3>3 DEF WriteIfOpen
  <2>4. CASE header_state \in HistoryStates /\ header_state' \notin HistoryStates
    <3>1. /\ header_state = "HST_DATA" /\ "hst" \in f_open /\ WriteIfOpen("hst", Contents)
          /\ \E oob \in BOOLEAN : MarkAt(oob)
      BY <2>2, <2>4, HistoryEnds
    <3>2. buffer_len >= 1 /\ buffer[0] = DELIM
      BY <3>1 DEF RecordBegun
    <3>3. buffer_len >= 5 /\ SubSeq(Contents, buffer_len - 4, buffer_len) = EndMark
      BY <2>2, <3>1, <3>2, MarkNeedsFive, MarkIsText
    <3>4. header_state \notin ReportStates
      BY <3>1 DEF ReportStates
    <3> QED BY <3>1, <3>3, <3>4 DEF WriteIfOpen
  <2> QED BY <2>3, <2>4 DEF LeavesSession
<1> QED BY <1>1, TypeCorrect, ControlInvariant, BegunInvariant, PTL
        DEF Spec, SessionEndsOnMark

-----------------------------------------------------------------------------
(* The cells LOG_Data reads *)

\* Nobody but the engine answers for the printer module: it hears no "T" and CR
\* in a slot it has answered in, and so never begins log mode unasked.  What
\* the bytes behind such a "T" are, and so what they leave in the buffer, the
\* code does not restrict.
AloneInSlot ==
  [][Active /\ header_state = "SS_PRINTER" => header_state' # "LOG_START"]_engineVars

Letters == {RCh, HCh, LCh}

\* What stands in the two cells before the record reaches them: the engine's
\* own answer, a status byte and a letter or the poll and a status byte.
FreshInv ==
  /\ header_state \in {"LOG_START", "LOG_PRINTER_ACTIVE"} =>
       buffer_len >= 3 /\ buffer[1] \notin {AT, SEMI} /\ buffer[2] \notin Letters
  /\ header_state = "LOG_DATA" =>
       /\ buffer_len >= 1
       /\ buffer_len = 1 => buffer[1] \notin {AT, SEMI} /\ buffer[2] \notin Letters
       /\ buffer_len = 2 /\ buffer[1] = AT => buffer[2] \notin Letters

LEMMA FreshSuffices ==
  ASSUME ParserTypeOK, Active => FreshInv
  PROVE  LogRecordIsFresh
<1>1. buffer_len \in Nat
  BY ParserAssumption DEF ParserTypeOK
<1> QED BY <1>1 DEF FreshInv, LogRecordIsFresh, Letters, AT, SEMI

LEMMA FillCells ==
  ASSUME NEW rec, Fill(rec), NEW k \in 0..4
  PROVE  buffer'[k] = IF k < Len(rec) THEN rec[k + 1] ELSE buffer[k]
<1>1. k \in 0..BufSize-1
  BY ParserAssumption
<1> QED BY <1>1 DEF Fill

LEMMA PushCells ==
  ASSUME ParserTypeOK, NEW b \in Byte, Push(b)
  PROVE  \/ buffer' = buffer /\ buffer_len' = buffer_len
         \/ /\ buffer_len' = buffer_len + 1
            /\ \A k \in 0..4 : k # buffer_len => buffer'[k] = buffer[k]
<1>1. BufSize \in Nat /\ BufSize >= 5 /\ buffer_len \in 0..BufSize
  BY ParserAssumption DEF ParserTypeOK
<1>2. CASE buffer_len < BufSize
  <2>1. buffer' = [buffer EXCEPT ![buffer_len] = b] /\ buffer_len' = buffer_len + 1
    BY <1>2 DEF Push
  <2> QED BY <1>1, <2>1 DEF ParserTypeOK
<1>3. CASE ~(buffer_len < BufSize)
  BY <1>3 DEF Push
<1> QED BY <1>2, <1>3

\* A byte behind the record leaves the cells it has not reached as they are.
LEMMA AccumulateFresh ==
  ASSUME ParserTypeOK, FreshInv, NEW b \in Byte, Accumulate(b)
  PROVE  FreshInv'
<1>1. header_state' = header_state /\ Push(b)
  BY DEF Accumulate
<1>2. buffer_len \in Nat
  BY ParserAssumption DEF ParserTypeOK
<1>3. \/ buffer' = buffer /\ buffer_len' = buffer_len
      \/ /\ buffer_len' = buffer_len + 1
         /\ 1 # buffer_len => buffer'[1] = buffer[1]
         /\ 2 # buffer_len => buffer'[2] = buffer[2]
  BY <1>1, PushCells
<1>4. CASE buffer' = buffer /\ buffer_len' = buffer_len
  BY <1>1, <1>4 DEF FreshInv
<1>5. CASE /\ buffer_len' = buffer_len + 1
           /\ 1 # buffer_len => buffer'[1] = buffer[1]
           /\ 2 # buffer_len => buffer'[2] = buffer[2]
  <2>1. CASE header_state \in {"LOG_START", "LOG_PRINTER_ACTIVE"}
    <3>1. (buffer'[1] = buffer[1] /\ buffer'[2] = buffer[2]) \/ buffer_len = 2
      BY <1>2, <1>5, <2>1 DEF FreshInv
    <3> QED BY <1>1, <1>2, <1>5, <2>1, <3>1 DEF FreshInv
  <2>2. CASE header_state = "LOG_DATA"
    BY <1>1, <1>2, <1>5, <2>2 DEF FreshInv
  <2>3. CASE header_state \notin {"LOG_START", "LOG_PRINTER_ACTIVE", "LOG_DATA"}
    BY <1>1, <2>3 DEF FreshInv
  <2> QED BY <2>1, <2>2, <2>3
<1> QED BY <1>3, <1>4, <1>5

\* The handlers that lead elsewhere
Elsewhere == header_state' \notin {"LOG_START", "LOG_PRINTER_ACTIVE", "LOG_DATA"}

LEMMA ElsewhereFresh ==
  ASSUME Elsewhere
  PROVE  FreshInv'
BY DEF Elsewhere, FreshInv

LEMMA StuckFresh ==
  ASSUME FreshInv, NullStream \/ Dies("overrun")
  PROVE  FreshInv'
BY DEF NullStream, Dies, FreshInv

\* What stands where in an answer that carries a letter
LEMMA AnswerCells ==
  ASSUME NEW prefix \in Seq(Byte), Len(prefix) \in 1..2, NEW lm \in BOOLEAN,
         NEW letter \in Byte, NEW state, Answer(state, prefix, lm, <<letter, CR>>)
  PROVE  /\ header_state' = state
         /\ buffer_len' = Len(prefix) + 3
         /\ \A k \in 0..Len(prefix)-1 : buffer'[k] = prefix[k + 1]
         /\ buffer'[Len(prefix)] = StatusOf(lm)
         /\ buffer'[Len(prefix) + 1] = letter
<1> DEFINE st == <<StatusOf(lm)>>
           asked == <<letter, CR>>
           front == prefix \o st
           rec == front \o asked
           n == Len(prefix)
<1>1. /\ st \in Seq(Byte) /\ Len(st) = 1 /\ st[1] = StatusOf(lm)
      /\ asked \in Seq(Byte) /\ Len(asked) = 2 /\ asked[1] = letter
  BY Codes
<1>2. header_state' = state /\ Fill(rec)
  BY DEF Answer, Goto
<1> HIDE DEF st, asked
<1>3. /\ front \in Seq(Byte) /\ Len(front) = n + 1
      /\ \A i \in 1..n : front[i] = prefix[i]
      /\ front[n + 1] = StatusOf(lm)
  BY <1>1, ConcatProperties
<1> HIDE DEF front
<1>4. /\ rec \in Seq(Byte) /\ Len(rec) = n + 3
      /\ \A i \in 1..n+1 : rec[i] = front[i]
      /\ rec[n + 2] = letter
  <2>1. /\ rec \in Seq(Byte) /\ Len(rec) = Len(front) + Len(asked)
        /\ \A i \in 1..Len(front) + Len(asked) :
             rec[i] = IF i <= Len(front) THEN front[i] ELSE asked[i - Len(front)]
    BY <1>1, <1>3, ConcatProperties
  <2> HIDE DEF rec, n
  <2>2. PICK k \in Nat : k = n + 1 /\ Len(front) = k
    BY <1>3 DEF n
  <2>3. /\ Len(rec) = k + 2
        /\ \A i \in 1..k + 2 : rec[i] = IF i <= k THEN front[i] ELSE asked[i - k]
    BY <1>1, <2>1, <2>2
  <2>4. n \in Nat /\ n + 3 = k + 2 /\ n + 2 = k + 1 /\ (k + 1) - k = 1
    BY <2>2 DEF n
  <2>5. rec[k + 1] = asked[1]
    BY <2>2, <2>3, <2>4
  <2>6. \A i \in 1..k : rec[i] = front[i]
    BY <2>2, <2>3
  <2> QED BY <1>1, <2>1, <2>2, <2>3, <2>4, <2>5, <2>6
<1> HIDE DEF rec
<1>5. buffer_len' = Len(rec)
  BY <1>2 DEF Fill
<1> HIDE DEF n
<1>6. n \in 1..2
  BY DEF n
<1>7. \A k \in 0..n+1 : buffer'[k] = rec[k + 1]
  <2> SUFFICES ASSUME NEW k \in 0..n+1 PROVE buffer'[k] = rec[k + 1]
    OBVIOUS
  <2>1. k \in 0..4 /\ k < Len(rec)
    BY <1>4, <1>6
  <2> QED BY <1>2, <2>1, FillCells
<1>8. \A k \in 0..n-1 : buffer'[k] = prefix[k + 1]
  BY <1>3, <1>4, <1>6, <1>7
<1>9. buffer'[n] = StatusOf(lm) /\ buffer'[n + 1] = letter
  BY <1>3, <1>4, <1>6, <1>7
<1> QED BY <1>2, <1>4, <1>5, <1>8, <1>9 DEF n

LEMMA StartLogCells ==
  ASSUME NEW b \in Byte, NEW lm \in BOOLEAN, Answer("LOG_START", <<b>>, lm, <<TCh, CR>>)
  PROVE  /\ header_state' = "LOG_START" /\ buffer_len' = 4
         /\ buffer'[1] = StatusOf(lm) /\ buffer'[2] = TCh
<1> DEFINE poll == <<b>>
<1>1. poll \in Seq(Byte) /\ Len(poll) = 1
  OBVIOUS
<1> HIDE DEF poll
<1>2. Answer("LOG_START", poll, lm, <<TCh, CR>>)
  BY DEF poll
<1>3. Len(poll) + 3 = 4 /\ Len(poll) + 1 = 2 /\ Len(poll) \in 1..2
  BY <1>1
<1>4. TCh \in Byte
  BY Codes
<1>5. header_state' = "LOG_START" /\ buffer_len' = Len(poll) + 3
  BY <1>1, <1>2, <1>3, <1>4, AnswerCells, Zenon
<1>6. buffer'[Len(poll)] = StatusOf(lm) /\ buffer'[Len(poll) + 1] = TCh
  BY <1>1, <1>2, <1>3, <1>4, AnswerCells, Zenon
<1> QED BY <1>1, <1>3, <1>5, <1>6

\* An answer of the engine, its letter included, stays in the cells.
LEMMA StartLogFresh ==
  ASSUME NEW b \in Byte, StartLog(b)
  PROVE  FreshInv'
<1>1. PICK up \in BOOLEAN : up = TRUE
  OBVIOUS
<1>2. Answer("LOG_START", <<b>>, up, <<TCh, CR>>)
  BY <1>1 DEF StartLog
<1>3. /\ header_state' = "LOG_START" /\ buffer_len' = 4
      /\ buffer'[1] = StatusOf(up) /\ buffer'[2] = TCh
  BY <1>2, StartLogCells
<1> QED BY <1>1, <1>3 DEF FreshInv, Letters, AT, SEMI, RCh, HCh, LCh, TCh, StatusOf

LEMMA AskRecordFresh ==
  ASSUME NEW lm \in BOOLEAN, Answer("LOG_PRINTER_ACTIVE", <<DELIM, PRINTER>>, lm, <<LCh, CR>>)
  PROVE  FreshInv'
<1> DEFINE poll == <<DELIM, PRINTER>>
<1>1. poll \in Seq(Byte) /\ Len(poll) = 2 /\ poll[2] = PRINTER
  BY Codes
<1> HIDE DEF poll
<1>2. Answer("LOG_PRINTER_ACTIVE", poll, lm, <<LCh, CR>>)
  BY DEF poll
<1>3. /\ header_state' = "LOG_PRINTER_ACTIVE" /\ buffer_len' = 5
      /\ buffer'[1] = PRINTER /\ buffer'[2] = StatusOf(lm)
  BY <1>1, <1>2, AnswerCells, Codes
<1> QED BY <1>3 DEF FreshInv, Letters, AT, SEMI, RCh, HCh, LCh, PRINTER, StatusOf

\* The 0x98 of the record takes the first cell of that answer.
LEMMA LogDataFresh ==
  ASSUME FreshInv, header_state \in {"LOG_START", "LOG_PRINTER_ACTIVE"},
         NEW b \in Byte, Goto("LOG_DATA", <<b>>)
  PROVE  FreshInv'
<1>1. header_state' = "LOG_DATA" /\ buffer_len' = 1
  BY DEF Goto, Fill
<1>2. buffer'[1] = buffer[1] /\ buffer'[2] = buffer[2]
  BY FillCells DEF Goto
<1> QED BY <1>1, <1>2 DEF FreshInv

LEMMA WaitFresh ==
  ASSUME Goto("LOG_DATA", <<DELIM, SEMI>>)
  PROVE  FreshInv'
<1>1. header_state' = "LOG_DATA" /\ buffer_len' = 2
  BY DEF Goto, Fill
<1>2. buffer'[1] = SEMI
  <2> DEFINE rec == <<DELIM, SEMI>>
  <2>1. Len(rec) = 2 /\ rec[2] = SEMI /\ Fill(rec) /\ 1 \in 0..4 /\ 1 < 2 /\ 1 + 1 = 2
    BY DEF Goto
  <2> HIDE DEF rec
  <2>2. buffer'[1] = IF 1 < Len(rec) THEN rec[1 + 1] ELSE buffer[1]
    BY <2>1, FillCells
  <2> QED BY <2>1, <2>2
<1> QED BY <1>1, <1>2 DEF FreshInv, SEMI, AT

\* The handlers of the other sessions do not lead to the three states.
LEMMA OtherSessionsFresh ==
  ASSUME ParserTypeOK, FreshInv, NEW b \in Byte,
         \/ SS_Unknown(b) \/ SS_Display(b) \/ RPT_Start(b) \/ RPT_Data(b)
         \/ RPT_Display(b) \/ RPT_Printer(b) \/ HST_Start(b) \/ HST_Display(b)
         \/ HST_Printer(b) \/ HST_Printer_Active(b) \/ HST_Data(b)
  PROVE  FreshInv'
<1>1. CASE NullStream \/ Accumulate(b)
  BY <1>1, StuckFresh, AccumulateFresh
<1>2. CASE ~NullStream /\ ~Accumulate(b)
  <2>1. Elsewhere
    BY <1>2 DEF Elsewhere, SS_Unknown, SS_Display, RPT_Start, RPT_Data, RPT_Display,
       RPT_Printer, HST_Start, HST_Display, HST_Printer, HST_Printer_Active, HST_Data,
       Enter, Answer, Goto, AfterSession
  <2> QED BY <2>1, ElsewhereFresh
<1> QED BY <1>1, <1>2

LEMMA SteadyFresh ==
  ASSUME ParserTypeOK, FreshInv, NEW b \in Byte, SS_Pause(b) \/ SS_Printer(b),
         Active, header_state = "SS_PRINTER" => header_state' # "LOG_START"
  PROVE  FreshInv'
<1>1. CASE Accumulate(b) \/ Elsewhere
  BY <1>1, AccumulateFresh, ElsewhereFresh
<1>2. CASE SS_Pause(b) /\ ~Accumulate(b) /\ ~Elsewhere
  <2>1. StartLog(b)
    BY <1>2 DEF Elsewhere, SS_Pause, SS_Pause_Active, SS_Pause_Directive, StartSession,
       Answer, Goto
  <2> QED BY <2>1, StartLogFresh
<1>3. CASE SS_Printer(b) /\ ~Accumulate(b) /\ ~Elsewhere
  BY <1>3 DEF Elsewhere, SS_Printer, PushTo, Overheard, Enter, Goto
<1> QED BY <1>1, <1>2, <1>3

LEMMA LogFresh ==
  ASSUME ParserTypeOK, FreshInv, NEW b \in Byte, Active, ListensOnly,
         LOG_Start(b) \/ LOG_Data(b) \/ LOG_Display(b) \/ LOG_Printer(b)
           \/ LOG_Printer_Active(b)
  PROVE  FreshInv'
<1>1. CASE NullStream \/ Dies("overrun") \/ Accumulate(b) \/ Elsewhere
  BY <1>1, StuckFresh, AccumulateFresh, ElsewhereFresh
<1>2. CASE (LOG_Start(b) \/ LOG_Printer_Active(b)) /\ ~Accumulate(b)
  <2>1. header_state \in {"LOG_START", "LOG_PRINTER_ACTIVE"} /\ Goto("LOG_DATA", <<b>>)
    BY <1>2 DEF LOG_Start, LOG_Printer_Active, Enter
  <2> QED BY <2>1, LogDataFresh
<1>3. CASE LOG_Data(b) /\ ~Dies("overrun") /\ ~Accumulate(b)
  <2>1. Elsewhere
    BY <1>3 DEF LOG_Data, Goto, Elsewhere
  <2> QED BY <2>1, ElsewhereFresh
<1>4. CASE LOG_Display(b) /\ ~NullStream /\ ~Accumulate(b) /\ ~Elsewhere
  <2>1. \/ Answer("LOG_PRINTER_ACTIVE", <<DELIM, PRINTER>>, logmode, <<LCh, CR>>)
        \/ Goto("LOG_DATA", <<DELIM, SEMI>>)
    BY <1>4 DEF LOG_Display, LOG_Display_Active, StopLog, StartSession, Enter, Elsewhere,
       Answer, Goto, PollSeen
  <2>2. logmode \in BOOLEAN
    BY DEF ParserTypeOK
  <2> QED BY <2>1, <2>2, AskRecordFresh, WaitFresh
<1>5. ~LOG_Printer(b)
  BY DEF LOG_Printer, ListensOnly
<1> QED BY <1>1, <1>2, <1>3, <1>4, <1>5

\* In log mode no panel directive and no ";wait" is read out of what an earlier
\* record left in the buffer, as long as the engine is alone in its slot.
THEOREM LogRecordsFresh == Spec /\ AloneInSlot => []LogRecordIsFresh
<1> DEFINE Alone == Active /\ header_state = "SS_PRINTER" => header_state' # "LOG_START"
           Fresh == Active => FreshInv
<1>1. Init => Fresh
  BY DEF Init, ParseOpen, FreshInv
<1>2. TypeOK /\ IInv /\ Fresh /\ [Next]_engineVars /\ [Alone]_engineVars => Fresh'
  <2> SUFFICES ASSUME TypeOK, IInv, FreshInv, [Next]_engineVars, [Alone]_engineVars, Active
               PROVE  FreshInv'
    OBVIOUS
  <2>1. CASE UNCHANGED <<header_state, buffer, buffer_len>>
    BY <2>1 DEF FreshInv
  <2>2. ASSUME NEW m \in Messages \cup {NoRequest}, LoopHead(m)
        PROVE  FreshInv'
    BY <2>1, <2>2 DEF LoopHead
  <2>3. ASSUME NEW b \in Bytes, Receive(b), header_state' # header_state
        PROVE  FreshInv'
    <3>1. ParserTypeOK /\ ParseByte(b) /\ b \in Byte /\ ListensOnly
      BY <2>3, EngineAssumption DEF Receive, TypeOK, IInv, ControlInv
    <3>2. header_state = "SS_PRINTER" => header_state' # "LOG_START"
      BY <2>3 DEF engineVars, parserVars
    <3> QED BY <3>1, <3>2, OtherSessionsFresh, SteadyFresh, LogFresh DEF ParseByte
  <2>4. ASSUME NEW b \in Bytes, Receive(b), header_state' = header_state
        PROVE  FreshInv'
    <3>1. ParserTypeOK /\ ParseByte(b) /\ b \in Byte /\ ListensOnly
      BY <2>4, EngineAssumption DEF Receive, TypeOK, IInv, ControlInv
    <3>2. header_state = "SS_PRINTER" => header_state' # "LOG_START"
      BY <2>4
    <3> QED BY <3>1, <3>2, OtherSessionsFresh, SteadyFresh, LogFresh DEF ParseByte
  <2>5. CASE Exit \/ Die
    BY <2>5 DEF Exit, Die, ProcessGone, FreshInv
  <2>6. CASE Usr1 \/ Usr2 \/ Restart \/ UNCHANGED engineVars
    BY <2>1, <2>6 DEF Usr1, Usr2, Restart, engineVars, parserVars
  <2> QED BY <2>2, <2>3, <2>4, <2>5, <2>6 DEF Next
<1>3. TypeOK /\ Fresh => LogRecordIsFresh
  BY FreshSuffices DEF TypeOK
<1> QED BY <1>1, <1>2, <1>3, TypeCorrect, ControlInvariant, PTL DEF Spec, AloneInSlot
=============================================================================
