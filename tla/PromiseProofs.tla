--------------------------- MODULE PromiseProofs ----------------------------
(***************************************************************************)
(* Engine implements Session: the initial states are initial states, and   *)
(* every step of the engine is one of the abstract steps or none, with the *)
(* mapping Engine gives.  The log bit and who may only listen come from    *)
(* the invariant of EngineProofs.                                          *)
(***************************************************************************)
EXTENDS EngineProofs

-----------------------------------------------------------------------------
(* The mapping *)

\* What is read of a message as a completion
LEMMA Completions ==
  /\ told' = NoMsg => CompletionOf' = ""
  /\ told' = ActionSuccess("report file") => CompletionOf' = "report"
  /\ told' = ActionSuccess("history file") => CompletionOf' = "history"
  /\ told' = ActionSuccess("logmode 1") => CompletionOf' = "logmode 1"
  /\ told' = ActionSuccess("logmode 0 file") => CompletionOf' = "logmode 0"
<1>1. /\ \A a, c : ActionSuccess(a) = ActionSuccess(c) => a = c
      /\ \A a : NoMsg # ActionSuccess(a)
  BY DEF ActionSuccess, NoMsg
<1>2. CASE told' = NoMsg
  BY <1>1, <1>2 DEF CompletionOf
<1>3. CASE told' = ActionSuccess("report file")
  BY <1>1, <1>3 DEF CompletionOf
<1>4. CASE told' = ActionSuccess("history file")
  BY <1>1, <1>4 DEF CompletionOf
<1>5. CASE told' = ActionSuccess("logmode 1")
  BY <1>1, <1>5 DEF CompletionOf
<1>6. CASE told' = ActionSuccess("logmode 0 file")
  BY <1>1, <1>6 DEF CompletionOf
<1> QED BY <1>2, <1>3, <1>4, <1>5, <1>6

LEMMA Modes ==
  /\ header_state \in SteadyStates  => ModeOf = "steady"
  /\ header_state \in ReportStates  => ModeOf = "report"
  /\ header_state \in HistoryStates => ModeOf = "history"
  /\ header_state \in LogStates     => ModeOf = "log"
BY DEF ModeOf, SteadyStates, ReportStates, HistoryStates, LogStates

LEMMA ModesNext ==
  /\ header_state' \in SteadyStates  => ModeOf' = "steady"
  /\ header_state' \in ReportStates  => ModeOf' = "report"
  /\ header_state' \in HistoryStates => ModeOf' = "history"
  /\ header_state' \in LogStates     => ModeOf' = "log"
BY DEF ModeOf, SteadyStates, ReportStates, HistoryStates, LogStates

\* The two modules name the same requests.
LEMMA SameRequests == Promise!Requests = Requests
BY DEF Promise!Requests, Requests

-----------------------------------------------------------------------------
(* Kinds of steps, and the abstract step each one is *)

LEMMA MemberOfUnion ==
  \A x, S, T : /\ (x \in S) \in BOOLEAN
               /\ (x \in S \cup T) = (x \in S \/ x \in T)
OBVIOUS

LEMMA PassStep ==
  ASSUME told' = NoMsg, ModeOf' = ModeOf, UNCHANGED <<logmode, control>>
  PROVE  Promise!Live
<1>1. Promise!Pass
  BY Completions DEF Promise!Pass
<1> QED BY <1>1 DEF Promise!Live

LEMMA AskStep ==
  ASSUME CompletionOf' = "", ModeOf' = ModeOf, UNCHANGED logmode,
         NEW bits, bits \subseteq ControlBits, control' = control \cup bits,
         "MESSAGE_SRC" \in bits => bits \cap Requests # {}
  PROVE  Promise!Live
<1> DEFINE R == bits \cap Requests
<1>1. R \in SUBSET Promise!Requests
  BY SameRequests
<1>2. (control \cap Requests)' = (control \cap Requests) \cup R
  OBVIOUS
<1>3. ("MESSAGE_SRC" \in control') = ("MESSAGE_SRC" \in control \/ "MESSAGE_SRC" \in bits)
  <2>1. ("MESSAGE_SRC" \in control \cup bits)
           = ("MESSAGE_SRC" \in control \/ "MESSAGE_SRC" \in bits)
    BY MemberOfUnion, Zenon
  <2> QED BY <2>1, Zenon
<1>4. ("MESSAGE_SRC" \in bits) \in BOOLEAN
  BY MemberOfUnion
<1>5. "MESSAGE_SRC" \in bits => R # {}
  OBVIOUS
<1> HIDE DEF R
<1>6. Promise!Ask
  BY <1>1, <1>2, <1>3, <1>4, <1>5, Zenon DEF Promise!Ask
<1> QED BY <1>6 DEF Promise!Live

LEMMA DebtStays ==
  ASSUME NEW bit, bit # "MESSAGE_SRC", control' = control \ {bit}
  PROVE  ("MESSAGE_SRC" \in control') = ("MESSAGE_SRC" \in control)
OBVIOUS

LEMMA NoMember ==
  \A x, S : x \notin S => (x \in S) = FALSE
OBVIOUS

\* A request is served by the reply that starts its session.
LEMMA ServedStep ==
  ASSUME Active, ModeOf \in {"steady", "log"},
         NEW m, NEW bit,
         \/ m = "report" /\ bit = "REPORT_REQ"
         \/ /\ m = "history" /\ bit = "HISTORY_REQ"
            /\ "REPORT_REQ" \notin control,
         ModeOf = "log" => "LOGMODE_OFF_REQ" \notin control,
         ModeOf' = m, told' = NoMsg, UNCHANGED logmode,
         bit \in control, control' = control \ {bit}
  PROVE  Promise!Live
<1>1. bit \in Requests /\ bit # "MESSAGE_SRC"
  BY DEF Requests
<1>2. ("MESSAGE_SRC" \in control') = ("MESSAGE_SRC" \in control)
  BY <1>1, DebtStays, Zenon
<1>3. CompletionOf' = ""
  BY Completions
<1>4. (control \cap Requests)' = (control \cap Requests) \ {bit}
  OBVIOUS
<1>5. Promise!Turn(bit)
  BY DEF Promise!Turn
<1>6. Promise!Serve(bit)
  BY <1>1, <1>4, <1>5 DEF Promise!Serve
<1>7. bit = Promise!RequestFor(m)
  BY DEF Promise!RequestFor
<1>8. Promise!Begin(m)
  BY <1>2, <1>3, <1>6, <1>7, Zenon DEF Promise!Begin
<1> QED BY <1>8 DEF Promise!Live

LEMMA OverheardStep ==
  ASSUME ModeOf = "steady" \/ (ModeOf = "log" /\ ~Active),
         ModeOf' \in {"report", "history"}, told' = NoMsg, UNCHANGED <<logmode, control>>
  PROVE  Promise!Live
<1>1. CompletionOf' = ""
  BY Completions
<1>2. Promise!Overhear
  BY DEF Promise!Overhear
<1>3. Promise!Begin("report") \/ Promise!Begin("history")
  BY <1>1, <1>2 DEF Promise!Begin
<1> QED BY <1>3 DEF Promise!Live

\* Settled and told: the debt is gone, whoever waited knows.
LEMMA TellStep ==
  ASSUME NEW rsp, NEW completion,
         told' = (IF "MESSAGE_SRC" \in control THEN ActionSuccess(rsp) ELSE NoMsg),
         \/ rsp = "report file"    /\ completion = "report"
         \/ rsp = "history file"   /\ completion = "history"
         \/ rsp = "logmode 1"      /\ completion = "logmode 1"
         \/ rsp = "logmode 0 file" /\ completion = "logmode 0",
         "MESSAGE_SRC" \notin control'
  PROVE  Promise!Tell(completion)
<1>1. CompletionOf' = (IF "MESSAGE_SRC" \in control THEN completion ELSE "")
  <2>1. CASE "MESSAGE_SRC" \in control
    BY <2>1, Completions
  <2>2. CASE "MESSAGE_SRC" \notin control
    BY <2>2, Completions
  <2> QED BY <2>1, <2>2
<1>2. ("MESSAGE_SRC" \in control') = FALSE
  BY NoMember, Zenon
<1> QED BY <1>1, <1>2 DEF Promise!Tell

LEMMA FinishStep ==
  ASSUME \/ header_state \in ReportStates /\ SettleSession("report file")
         \/ header_state \in HistoryStates /\ SettleSession("history file"),
         header_state' = AfterSession, UNCHANGED logmode
  PROVE  Promise!Live
<1>1. ModeOf' = IF logmode THEN "log" ELSE "steady"
  BY ModesNext DEF AfterSession, LogStates, SteadyStates
<1>2. (control \cap Requests)' = control \cap Requests
  BY DEF SettleSession, Requests
<1>3. ModeOf \in {"report", "history"} /\ Promise!Tell(ModeOf)
  <2>0. "MESSAGE_SRC" \notin control'
    BY DEF SettleSession
  <2>1. CASE header_state \in ReportStates /\ SettleSession("report file")
    BY <2>0, <2>1, Modes, TellStep DEF SettleSession
  <2>2. CASE header_state \in HistoryStates /\ SettleSession("history file")
    BY <2>0, <2>2, Modes, TellStep DEF SettleSession
  <2> QED BY <2>1, <2>2
<1>4. Promise!Finish
  BY <1>1, <1>2, <1>3 DEF Promise!Finish
<1> QED BY <1>4 DEF Promise!Live

LEMMA SettledRequests ==
  ASSUME NEW bit \in Requests, NEW rsp, Settle(bit, rsp)
  PROVE  /\ (control \cap Requests)' = (control \cap Requests) \ {bit}
         /\ "MESSAGE_SRC" \notin control'
BY DEF Settle, Requests

LEMMA StartLogStep ==
  ASSUME Active, header_state = "SS_PAUSE", NEW b, StartLog(b),
         control \cap {"REPORT_REQ", "HISTORY_REQ"} = {}
  PROVE  Promise!Live
<1>1. /\ "LOGMODE_ON_REQ" \in control /\ "LOGMODE_ON_REQ" \in Requests
      /\ Settle("LOGMODE_ON_REQ", "logmode 1")
      /\ header_state' = "LOG_START" /\ logmode' = TRUE
  BY DEF StartLog, Answer, Goto, Requests
<1>2. ModeOf = "steady" /\ ModeOf' = "log"
  BY <1>1, Modes, ModesNext DEF SteadyStates, LogStates
<1>3. Promise!Tell("logmode 1")
  BY <1>1, SettledRequests, TellStep DEF Settle
<1>4. Promise!Serve("LOGMODE_ON_REQ")
  <2>1. Promise!Turn("LOGMODE_ON_REQ")
    BY <1>2 DEF Promise!Turn
  <2> QED BY <1>1, <2>1, SettledRequests DEF Promise!Serve
<1>5. Promise!StartLog
  BY <1>1, <1>2, <1>3, <1>4 DEF Promise!StartLog
<1> QED BY <1>5 DEF Promise!Live

LEMMA StopLogStep ==
  ASSUME Active, header_state = "LOG_DISPLAY", logmode, NEW b, StopLog(b)
  PROVE  Promise!Live
<1>1. /\ "LOGMODE_OFF_REQ" \in control /\ "LOGMODE_OFF_REQ" \in Requests
      /\ Settle("LOGMODE_OFF_REQ", "logmode 0 file")
      /\ header_state' = "SS_PRINTER" /\ logmode' = FALSE
  BY DEF StopLog, Answer, Goto, Requests
<1>2. ModeOf = "log" /\ ModeOf' = "steady"
  BY <1>1, Modes, ModesNext DEF SteadyStates, LogStates
<1>3. Promise!Tell("logmode 0")
  BY <1>1, SettledRequests, TellStep DEF Settle
<1>4. Promise!Serve("LOGMODE_OFF_REQ")
  <2>1. Promise!Turn("LOGMODE_OFF_REQ")
    BY <1>2 DEF Promise!Turn
  <2> QED BY <1>1, <2>1, SettledRequests DEF Promise!Serve
<1>5. Promise!StopLog
  BY <1>1, <1>2, <1>3, <1>4 DEF Promise!StopLog
<1> QED BY <1>5 DEF Promise!Live

LEMMA StartSessionStep ==
  ASSUME Active, NEW bit, NEW state, NEW prefix, NEW request,
         StartSession(bit, state, prefix, request),
         \/ bit = "REPORT_REQ" /\ state = "RPT_START"
         \/ bit = "HISTORY_REQ" /\ state = "HST_START" /\ "REPORT_REQ" \notin control,
         \/ header_state = "SS_PAUSE"
         \/ header_state = "LOG_DISPLAY" /\ "LOGMODE_OFF_REQ" \notin control
  PROVE  Promise!Live
<1>1. /\ header_state' = state /\ bit \in control /\ control' = control \ {bit}
      /\ told' = NoMsg /\ UNCHANGED logmode
  BY DEF StartSession, Answer, Goto, NoNotice
<1>2. /\ ModeOf \in {"steady", "log"}
      /\ ModeOf = "log" => "LOGMODE_OFF_REQ" \notin control
  BY Modes DEF SteadyStates, LogStates
<1>3. CASE bit = "REPORT_REQ" /\ state = "RPT_START"
  <2>1. ModeOf' = "report"
    BY <1>1, <1>3, ModesNext DEF ReportStates
  <2> QED BY <1>1, <1>2, <1>3, <2>1, ServedStep
<1>4. CASE bit = "HISTORY_REQ" /\ state = "HST_START" /\ "REPORT_REQ" \notin control
  <2>1. ModeOf' = "history"
    BY <1>1, <1>4, ModesNext DEF HistoryStates
  <2> QED BY <1>1, <1>2, <1>4, <2>1, ServedStep
<1> QED BY <1>3, <1>4

\* Bytes that go by inside a session
LEMMA SameSessionStep ==
  ASSUME told' = NoMsg, UNCHANGED <<logmode, control>>,
         \/ header_state \in SteadyStates /\ header_state' \in SteadyStates
         \/ header_state \in ReportStates /\ header_state' \in ReportStates
         \/ header_state \in HistoryStates /\ header_state' \in HistoryStates
         \/ header_state \in LogStates /\ header_state' \in LogStates
  PROVE  Promise!Live
BY Modes, ModesNext, PassStep

LEMMA IdleStep ==
  ASSUME NEW b, NullStream \/ Dies("overrun") \/ Accumulate(b)
  PROVE  Promise!Live
<1>1. told' = NoMsg /\ UNCHANGED <<header_state, logmode, control>>
  BY DEF NullStream, Dies, Accumulate, Silent, NoNotice
<1>2. ModeOf' = ModeOf
  BY <1>1 DEF ModeOf
<1> QED BY <1>1, <1>2, PassStep

\* The 1022's panel asks, nobody waits.
LEMMA PanelStep ==
  ASSUME NEW bits, bits \subseteq Requests, control' = control \cup bits,
         told' = NoMsg, UNCHANGED logmode,
         \/ UNCHANGED header_state
         \/ header_state \in LogStates /\ header_state' \in LogStates
  PROVE  Promise!Live
<1>1. CompletionOf' = ""
  BY Completions
<1>2. ModeOf' = ModeOf
  BY Modes, ModesNext DEF ModeOf
<1>3. bits \subseteq ControlBits /\ "MESSAGE_SRC" \notin bits
  BY DEF ControlBits, Requests
<1> QED BY <1>1, <1>2, <1>3, AskStep

-----------------------------------------------------------------------------
(* The handlers *)

LEMMA SteadyStep ==
  ASSUME NEW b, SS_Unknown(b) \/ SS_Display(b) \/ SS_Printer(b)
  PROVE  Promise!Live
<1>0. CASE NullStream \/ Accumulate(b)
  BY <1>0, IdleStep
<1>1. CASE (SS_Unknown(b) \/ SS_Display(b)) /\ ~NullStream /\ ~Accumulate(b)
  BY <1>1, SameSessionStep
  DEF SS_Unknown, SS_Display, Enter, Goto, Silent, NoNotice, SteadyStates
<1>2. CASE SS_Printer(b) /\ ~Accumulate(b)
  <2>1. CASE Enter("SS_PAUSE", <<b>>)
    BY <1>2, <2>1, SameSessionStep
    DEF SS_Printer, Enter, Goto, Silent, NoNotice, SteadyStates
  <2>2. CASE Overheard(LastByte) # "none" /\ PushTo(Overheard(LastByte), b)
    <3>1. /\ header_state = "SS_PRINTER"
          /\ header_state' \in {"RPT_START", "HST_START", "LOG_START"}
          /\ told' = NoMsg /\ UNCHANGED <<logmode, control>>
      BY <1>2, <2>2 DEF SS_Printer, PushTo, Overheard, Silent, NoNotice
    <3>2. ModeOf = "steady" /\ ModeOf' \in {"report", "history", "log"}
      BY <3>1, Modes, ModesNext DEF SteadyStates, ReportStates, HistoryStates, LogStates
    <3>3. CASE ModeOf' = "log"
      <4>1. Promise!OverhearLog
        BY <3>1, <3>2, <3>3, Completions DEF Promise!OverhearLog
      <4> QED BY <4>1 DEF Promise!Live
    <3> QED BY <3>1, <3>2, <3>3, OverheardStep
  <2> QED BY <1>2, <2>1, <2>2 DEF SS_Printer
<1> QED BY <1>0, <1>1, <1>2 DEF SS_Unknown, SS_Printer

LEMMA PauseStep ==
  ASSUME NEW b, SS_Pause(b)
  PROVE  Promise!Live
<1>0. header_state = "SS_PAUSE"
  BY DEF SS_Pause
<1>1. CASE Active /\ SS_Pause_Active(b)
  <2>1. CASE /\ Answer("SS_PRINTER", <<b>>, logmode, <<>>) /\ NoNotice
             /\ UNCHANGED <<logmode, control, hst_is_first, is_snapshot, f_open, fault>>
    BY <1>0, <2>1, SameSessionStep DEF Answer, Goto, NoNotice, SteadyStates
  <2>2. CASE StartSession("REPORT_REQ", "RPT_START", <<b>>, <<RCh, CR>>)
    BY <1>0, <1>1, <2>2, StartSessionStep
  <2>3. CASE /\ "REPORT_REQ" \notin control
             /\ StartSession("HISTORY_REQ", "HST_START", <<b>>, <<ICh, CR>>)
    BY <1>0, <1>1, <2>3, StartSessionStep
  <2>4. CASE control \cap {"REPORT_REQ", "HISTORY_REQ"} = {} /\ StartLog(b)
    BY <1>0, <1>1, <2>4, StartLogStep
  <2> QED BY <1>1, <2>1, <2>2, <2>3, <2>4 DEF SS_Pause_Active
<1>2. CASE Enter("SS_PRINTER", <<b>>)
  BY <1>0, <1>2, SameSessionStep DEF Enter, Goto, Silent, NoNotice, SteadyStates
<1>3. CASE SS_Pause_Directive
  <2> DEFINE bits == IF Active THEN DirectiveBit(LastByte, "LOGMODE_ON_REQ") ELSE {}
  <2>1. bits \subseteq Requests
    BY DEF DirectiveBit, Requests
  <2>2. /\ control' = control \cup bits
        /\ told' = NoMsg /\ UNCHANGED <<header_state, logmode>>
    BY <1>3 DEF SS_Pause_Directive, Silent, NoNotice
  <2> HIDE DEF bits
  <2> QED BY <2>1, <2>2, PanelStep
<1>4. CASE Accumulate(b)
  BY <1>4, IdleStep
<1> QED BY <1>1, <1>2, <1>3, <1>4 DEF SS_Pause

LEMMA ReportStep ==
  ASSUME NEW b, RPT_Start(b) \/ RPT_Data(b) \/ RPT_Display(b) \/ RPT_Printer(b)
  PROVE  Promise!Live
<1>0. CASE NullStream \/ Accumulate(b)
  BY <1>0, IdleStep
<1>1. CASE (RPT_Start(b) \/ RPT_Display(b) \/ RPT_Printer(b)) /\ ~NullStream /\ ~Accumulate(b)
  BY <1>1, SameSessionStep
  DEF RPT_Start, RPT_Display, RPT_Printer, Enter, Answer, Goto, Silent, NoNotice, ReportStates
<1>2. CASE RPT_Data(b) /\ ~Accumulate(b)
  <2>1. CASE MarkAt(FALSE)
    BY <1>2, <2>1, FinishStep DEF RPT_Data, Goto, ReportStates
  <2>2. CASE ~MarkAt(FALSE)
    BY <1>2, <2>2, SameSessionStep DEF RPT_Data, Goto, NoNotice, ReportStates
  <2> QED BY <2>1, <2>2
<1> QED BY <1>0, <1>1, <1>2 DEF RPT_Data, RPT_Printer

LEMMA HistoryStep ==
  ASSUME NEW b,
         HST_Start(b) \/ HST_Display(b) \/ HST_Printer(b) \/ HST_Printer_Active(b)
           \/ HST_Data(b)
  PROVE  Promise!Live
<1>0. CASE NullStream \/ Accumulate(b)
  BY <1>0, IdleStep
<1>1. CASE (HST_Start(b) \/ HST_Display(b)) /\ ~NullStream /\ ~Accumulate(b)
  BY <1>1, SameSessionStep
  DEF HST_Start, HST_Display, Answer, Goto, Silent, NoNotice, HistoryStates
<1>2. CASE (HST_Printer(b) \/ HST_Printer_Active(b)) /\ ~Accumulate(b)
  BY <1>2, SameSessionStep
  DEF HST_Printer, HST_Printer_Active, Enter, Goto, Silent, NoNotice, HistoryStates
<1>3. CASE HST_Data(b) /\ ~NullStream /\ ~Accumulate(b)
  <2>1. CASE /\ SettleSession("history file") /\ Goto(AfterSession, <<b>>)
             /\ UNCHANGED logmode
    BY <1>3, <2>1, FinishStep DEF HST_Data, Goto, HistoryStates
  <2>2. CASE /\ Goto("HST_DISPLAY", <<DELIM, b>>) /\ NoNotice
             /\ UNCHANGED <<logmode, control>>
    BY <1>3, <2>2, SameSessionStep DEF HST_Data, Goto, NoNotice, HistoryStates
  <2> QED BY <1>3, <2>1, <2>2 DEF HST_Data
<1> QED BY <1>0, <1>1, <1>2, <1>3 DEF HST_Printer, HST_Printer_Active

LEMMA LogStep ==
  ASSUME ControlInv, NEW b,
         LOG_Start(b) \/ LOG_Data(b) \/ LOG_Display(b) \/ LOG_Printer(b)
           \/ LOG_Printer_Active(b)
  PROVE  Promise!Live
<1>0. CASE NullStream \/ Dies("overrun") \/ Accumulate(b)
  BY <1>0, IdleStep
<1>1. CASE LOG_Start(b) /\ ~Accumulate(b)
  <2>1. /\ header_state = "LOG_START" /\ header_state' = "LOG_DATA"
        /\ logmode' = TRUE /\ told' = NoMsg /\ UNCHANGED control
    BY <1>1 DEF LOG_Start, Goto, Silent, NoNotice
  <2>2. ModeOf = "log" /\ ModeOf' = "log" /\ CompletionOf' = ""
    BY <2>1, Modes, ModesNext, Completions DEF LogStates
  <2>3. CASE logmode = TRUE
    BY <2>1, <2>2, <2>3, PassStep
  <2>4. CASE ~logmode
    <3>1. Promise!FirstRecord
      BY <2>1, <2>2, <2>4 DEF Promise!FirstRecord
    <3> QED BY <3>1 DEF Promise!Live
  <2> QED BY <2>3, <2>4
<1>2. CASE LOG_Data(b) /\ ~Dies("overrun") /\ ~Accumulate(b)
  <2> DEFINE bits == IF Active /\ buffer[1] = AT
                     THEN DirectiveBit(buffer[2], "LOGMODE_OFF_REQ") ELSE {}
  <2>1. bits \subseteq Requests
    BY DEF DirectiveBit, Requests
  <2>2. /\ control' = control \cup bits
        /\ told' = NoMsg /\ UNCHANGED logmode
        /\ header_state \in LogStates /\ header_state' \in LogStates
    BY <1>2 DEF LOG_Data, Goto, NoNotice, LogStates
  <2> HIDE DEF bits
  <2> QED BY <2>1, <2>2, PanelStep
<1>3. CASE LOG_Display(b) /\ ~NullStream /\ ~Accumulate(b)
  <2>0. header_state = "LOG_DISPLAY" /\ logmode
    BY <1>3 DEF LOG_Display, ControlInv, LogBitFollowsLogMode, LogStates
  <2>1. CASE Active /\ StopLog(b)
    BY <2>0, <2>1, StopLogStep
  <2>2. CASE /\ Active /\ "LOGMODE_OFF_REQ" \notin control
             /\ StartSession("REPORT_REQ", "RPT_START", <<DELIM, b>>, <<RCh, CR>>)
    BY <2>0, <2>2, StartSessionStep
  <2>3. CASE /\ Active /\ control \cap {"LOGMODE_OFF_REQ", "REPORT_REQ"} = {}
             /\ StartSession("HISTORY_REQ", "HST_START", <<DELIM, b>>, <<ICh, CR>>)
    BY <2>0, <2>3, StartSessionStep
  <2>4. CASE /\ header_state' \in LogStates /\ told' = NoMsg
             /\ UNCHANGED <<logmode, control>>
    BY <2>0, <2>4, SameSessionStep DEF LogStates
  <2> QED BY <1>3, <2>1, <2>2, <2>3, <2>4
          DEF LOG_Display, LOG_Display_Active, Answer, Enter, Goto, Silent, NoNotice, LogStates
<1>4. CASE LOG_Printer(b) /\ ~Accumulate(b)
  <2>0. header_state = "LOG_PRINTER" /\ logmode /\ ~Active /\ ModeOf = "log"
    BY <1>4, Modes DEF LOG_Printer, ControlInv, LogBitFollowsLogMode, ListensOnly, LogStates
  <2>1. CASE /\ header_state' \in LogStates /\ told' = NoMsg
             /\ UNCHANGED <<logmode, control>>
    BY <2>0, <2>1, SameSessionStep DEF LogStates
  <2>2. CASE LOG_Printer_Quiet(b) /\ ~Enter("LOG_DISPLAY", <<b>>)
    <3>1. /\ header_state' = "SS_DISPLAY" /\ logmode' = FALSE /\ told' = NoMsg
          /\ UNCHANGED control
      BY <2>2 DEF LOG_Printer_Quiet, Goto, Silent, NoNotice
    <3>2. ModeOf' = "steady" /\ CompletionOf' = ""
      BY <3>1, ModesNext, Completions DEF SteadyStates
    <3>3. Promise!StopLog
      BY <2>0, <3>1, <3>2 DEF Promise!StopLog
    <3> QED BY <3>3 DEF Promise!Live
  <2>3. CASE PushTo("RPT_START", b) \/ PushTo("HST_START", b)
    <3>1. /\ header_state' \in {"RPT_START", "HST_START"} /\ told' = NoMsg
          /\ UNCHANGED <<logmode, control>>
      BY <2>3 DEF PushTo, Silent, NoNotice
    <3>2. ModeOf' \in {"report", "history"}
      BY <3>1, ModesNext DEF ReportStates, HistoryStates
    <3> QED BY <2>0, <3>1, <3>2, OverheardStep
  <2> QED BY <1>4, <2>1, <2>2, <2>3
          DEF LOG_Printer, LOG_Printer_Record, Enter, Goto, Silent, NoNotice, LogStates
<1>5. CASE LOG_Printer_Active(b) /\ ~Accumulate(b)
  BY <1>5, SameSessionStep
  DEF LOG_Printer_Active, Enter, Goto, Silent, NoNotice, LogStates
<1> QED BY <1>0, <1>1, <1>2, <1>3, <1>4, <1>5 DEF LOG_Printer_Active

-----------------------------------------------------------------------------
(* The engine *)

LEMMA InitPromise == Init => Promise!Init
<1> SUFFICES ASSUME Init PROVE Promise!Init
  OBVIOUS
<1>1. /\ header_state = "SS_UNKNOWN" /\ logmode = FALSE /\ control = {} /\ told = NoMsg
  BY DEF Init, ParseOpen
<1>2. ModeOf = "steady"
  BY <1>1, Modes DEF SteadyStates
<1>3. CompletionOf = ""
  BY <1>1 DEF CompletionOf, ActionSuccess, NoMsg
<1>4. ("MESSAGE_SRC" \in control) = FALSE
  BY <1>1
<1>5. loop = "top"
  BY DEF Init
<1> QED BY <1>1, <1>2, <1>3, <1>4, <1>5 DEF Promise!Init, Promise!Fresh

LEMMA NextPromise == IInv /\ [Next]_engineVars => [Promise!Next]_(Promise!vars)
<1> SUFFICES ASSUME IInv, [Next]_engineVars
             PROVE  Promise!Next \/ UNCHANGED Promise!vars
  OBVIOUS
<1>0. ASSUME UNCHANGED <<header_state, logmode, control, told>>
      PROVE  /\ UNCHANGED <<ModeOf, CompletionOf>>
             /\ ("MESSAGE_SRC" \in control') = ("MESSAGE_SRC" \in control)
             /\ (control \cap Requests)' = control \cap Requests
             /\ UNCHANGED logmode
  BY <1>0 DEF ModeOf, CompletionOf
<1>1. CASE Usr1 \/ Usr2 \/ UNCHANGED engineVars
  BY <1>0, <1>1 DEF Usr1, Usr2, engineVars, parserVars, Promise!vars
<1>6. CASE Restart
  BY <1>0, <1>6 DEF Restart, Promise!Next
<1>2. ASSUME NEW m \in Messages \cup {NoRequest}, LoopHead(m)
      PROVE  Promise!Next
  <2> DEFINE bits == TriggerBits \cup RequestBits(m)
  <2>1. /\ control' = control \cup bits /\ told' = ReplyTo(m)
        /\ UNCHANGED <<header_state, logmode>>
    BY <1>2 DEF LoopHead
  <2>2. bits \subseteq ControlBits
    BY DEF TriggerBits, RequestBits, ControlBits, Requests
  <2>3. "MESSAGE_SRC" \in bits => bits \cap Requests # {}
    BY DEF TriggerBits, RequestBits, Requests
  <2>4. CompletionOf' = ""
    BY <2>1 DEF CompletionOf, ReplyTo, RequestSuccess, ActionSuccess, NoMsg
  <2>5. ModeOf' = ModeOf
    BY <2>1 DEF ModeOf
  <2>6. loop # "down" /\ loop' # "down"
    BY <1>2 DEF LoopHead, Alive
  <2> HIDE DEF bits
  <2>7. Promise!Live
    BY <2>1, <2>2, <2>3, <2>4, <2>5, AskStep
  <2> QED BY <2>6, <2>7 DEF Promise!Next
<1>3. ASSUME NEW b \in Bytes, Receive(b)
      PROVE  Promise!Next
  <2>1. ControlInv /\ ParseByte(b) /\ loop # "down" /\ loop' # "down"
    BY <1>3 DEF Receive, IInv, Alive
  <2>2. Promise!Live
    BY <2>1, SteadyStep, PauseStep, ReportStep, HistoryStep, LogStep DEF ParseByte
  <2> QED BY <2>1, <2>2 DEF Promise!Next
<1>4. CASE Exit \/ Die
  <2>1. /\ header_state' = "SS_UNKNOWN" /\ logmode' = FALSE /\ control' = {}
        /\ told' = NoMsg
    BY <1>4 DEF Exit, Die, ProcessGone, Silent, NoNotice
  <2>2. ModeOf' = "steady" /\ CompletionOf' = ""
    BY <2>1, ModesNext, Completions DEF SteadyStates
  <2>3. ("MESSAGE_SRC" \in control') = FALSE
    BY <2>1
  <2>4. Promise!Forget
    BY <2>1, <2>2, <2>3 DEF Promise!Forget
  <2>5. loop # "down" /\ loop' = "down"
    BY <1>4 DEF Exit, Die, ProcessGone, Alive
  <2> QED BY <2>4, <2>5 DEF Promise!Next
<1> QED BY <1>1, <1>2, <1>3, <1>4, <1>6 DEF Next

\* The engine keeps its promise: whatever bytes and requests arrive and however
\* the process dies, the sessions, the pending requests and the completions
\* clients are told are a behaviour of Session, in which a request that was not
\* served is forgotten only by the end of the process.
THEOREM Implements == Spec => KeepsPromise
<1>1. Spec => [][Promise!Next]_(Promise!vars)
  BY ControlInvariant, NextPromise, PTL DEF Spec
<1> QED BY <1>1, InitPromise, PTL DEF Spec, KeepsPromise, Promise!Spec

\* Completions are true: told once, to who is owed, of what has just happened.
THEOREM CompletionsAreTrue == Spec => []CompletionIsTrue
<1>1. Promise!Init => Promise!NoticeIsTrue
  BY DEF Promise!Init, Promise!Fresh, Promise!NoticeIsTrue
<1>2. Promise!NoticeIsTrue /\ [Promise!Next]_(Promise!vars) => Promise!NoticeIsTrue'
  <2> SUFFICES ASSUME Promise!NoticeIsTrue, Promise!Next \/ UNCHANGED Promise!vars
               PROVE  Promise!NoticeIsTrue'
    OBVIOUS
  <2>1. CASE CompletionOf' = ""
    BY <2>1 DEF Promise!NoticeIsTrue
  <2>2. ASSUME NEW rsp, Promise!Tell(rsp)
        PROVE  "MESSAGE_SRC" \notin control' /\ CompletionOf' \in {rsp, ""}
    <3>1. ("MESSAGE_SRC" \in control') = FALSE
      BY <2>2 DEF Promise!Tell
    <3> QED BY <2>2, <3>1 DEF Promise!Tell
  <2>3. CASE Promise!Finish
    <3>1. /\ "MESSAGE_SRC" \notin control' /\ CompletionOf' \in {"report", "history", ""}
          /\ ModeOf' \in {"steady", "log"}
      BY <2>2, <2>3 DEF Promise!Finish
    <3> QED BY <3>1 DEF Promise!NoticeIsTrue
  <2>4. CASE Promise!StartLog
    <3>1. /\ "MESSAGE_SRC" \notin control' /\ CompletionOf' \in {"logmode 1", ""}
          /\ logmode' = TRUE
      BY <2>2, <2>4 DEF Promise!StartLog
    <3> QED BY <3>1 DEF Promise!NoticeIsTrue
  <2>5. CASE Promise!StopLog
    <3>1. \/ CompletionOf' = ""
          \/ /\ "MESSAGE_SRC" \notin control' /\ CompletionOf' \in {"logmode 0", ""}
             /\ logmode' = FALSE
      BY <2>2, <2>5 DEF Promise!StopLog
    <3> QED BY <3>1 DEF Promise!NoticeIsTrue
  <2>6. CASE UNCHANGED Promise!vars
    BY <2>6 DEF Promise!NoticeIsTrue, Promise!vars
  <2>7. CASE Promise!Live
    BY <2>1, <2>3, <2>4, <2>5, <2>7
    DEF Promise!Live, Promise!Ask, Promise!Begin, Promise!OverhearLog,
        Promise!FirstRecord, Promise!Pass
  <2>8. CASE Promise!Forget
    BY <2>1, <2>8 DEF Promise!Forget
  <2>9. CASE UNCHANGED <<ModeOf, logmode, control \cap Requests,
                         "MESSAGE_SRC" \in control, CompletionOf>>
    BY <2>9 DEF Promise!NoticeIsTrue
  <2> QED BY <2>6, <2>7, <2>8, <2>9 DEF Promise!Next
<1> QED BY <1>1, <1>2, Implements, PTL DEF KeepsPromise, Promise!Spec, CompletionIsTrue

\* Log mode comes back behind every report or history that interrupted it, with
\* its bit never dropped in between, unless the process dies.
THEOREM LogModeComesBack == Spec => LogModeResumes
<1>1. [Promise!Next]_(Promise!vars) =>
         [Promise!LeavesDump /\ (loop # "down")' => Promise!Resumes]_(Promise!vars)
  <2> SUFFICES ASSUME Promise!Next, Promise!LeavesDump, (loop # "down")'
               PROVE  Promise!Resumes
    OBVIOUS
  <2>1. Promise!Live
    BY DEF Promise!Next, Promise!LeavesDump
  <2>2. Promise!Finish
    BY <2>1 DEF Promise!Live, Promise!LeavesDump, Promise!Ask, Promise!Begin,
       Promise!StartLog, Promise!OverhearLog, Promise!FirstRecord, Promise!StopLog,
       Promise!Pass
  <2> QED BY <2>2 DEF Promise!Finish, Promise!Resumes
<1> QED BY <1>1, Implements, PTL DEF KeepsPromise, Promise!Spec, LogModeResumes,
           Promise!LogModeResumes
=============================================================================
