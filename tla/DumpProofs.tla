----------------------------- MODULE DumpProofs ------------------------------
(***************************************************************************)
(* What the engine makes of the frames of the 1022: they fit its buffer,   *)
(* and the data files hold the records sent.                               *)
(***************************************************************************)
EXTENDS LinkProofs

-----------------------------------------------------------------------------
(* The shape of a frame *)

Has(s, c) == \E i \in 1..Len(s) : s[i] = c

\* There is a 0x91 in s, and room behind it for the rest of a display record.
Shows(s) == \E i \in 1..Len(s) : s[i] = DISPLAY /\ i + Len(Display) <= Len(s)

\* What is left of a frame ends with 98 90, and behind every 0x98 in front of
\* that a display record is still to come.
Proper(s) ==
  /\ Len(s) > 0 => s[Len(s)] = PRINTER
  /\ Len(s) > 1 => s[Len(s) - 1] = DELIM
  /\ \A i \in 1..Len(s) - 2 : s[i] = DELIM => \E j \in i+1..Len(s) : s[j] = DISPLAY

\* ... the same without the 0x90
Follows(s) ==
  /\ s \in Seq(Byte) /\ Len(s) > 0 /\ s[Len(s)] = DELIM
  /\ Shows(s)
  /\ \A i \in 1..Len(s) - 1 : s[i] = DELIM => \E j \in i+1..Len(s) : s[j] = DISPLAY

LEMMA BlockFollows == Follows(Block) /\ Block[1] = DISPLAY
<1> DEFINE n == Len(Display)
<1>1. /\ Block \in Seq(Byte) /\ n \in Nat \ {0} /\ Len(Block) = n + 1
      /\ \A i \in 1..n : Block[i] = Display[i]
      /\ Block[n + 1] = DELIM /\ Display[1] = DISPLAY
  BY BlockType
<1>2. \A i \in 2..n : Display[i] # DELIM
  BY DisplayAssumption
<1>a. Block[1] = DISPLAY /\ 1 \in 1..Len(Block) /\ 1 + n <= Len(Block)
  BY <1>1
<1> HIDE DEF n
<1>3. Block[1] = DISPLAY /\ Shows(Block)
  BY <1>a DEF Shows, n
<1>4. \A i \in 1..n : Block[i] # DELIM
  <2> SUFFICES ASSUME NEW i \in 1..n PROVE Block[i] # DELIM
    OBVIOUS
  <2>1. CASE i = 1
    BY <1>3, <2>1, CodesDiffer
  <2>2. CASE i # 1
    BY <1>1, <1>2, <2>2
  <2> QED BY <2>1, <2>2
<1> QED BY <1>1, <1>3, <1>4 DEF Follows

\* Anything may stand in front of a burst.
LEMMA FollowsBehind ==
  ASSUME NEW s \in Seq(Byte), NEW t, Follows(t), t[1] = DISPLAY
  PROVE  Follows(s \o t)
<1> DEFINE u == s \o t
           m == Len(s)
           n == Len(t)
<1>1. /\ t \in Seq(Byte) /\ n > 0 /\ t[n] = DELIM
      /\ \A i \in 1..n-1 : t[i] = DELIM => \E j \in i+1..n : t[j] = DISPLAY
  BY DEF Follows
<1>a. PICK k \in 1..n : t[k] = DISPLAY /\ k + Len(Display) <= n
  BY DEF Follows, Shows
<1>b. Len(Display) \in Nat
  BY DisplayAssumption, LenProperties
<1>2. /\ u \in Seq(Byte) /\ m \in Nat /\ n \in Nat /\ Len(u) = m + n
      /\ \A i \in 1..m : u[i] = s[i]
      /\ \A i \in 1..n : u[m + i] = t[i]
  BY <1>1, JoinAt
<1> HIDE DEF u, m, n
<1>3. m + 1 \in 1..Len(u) /\ u[m + 1] = DISPLAY /\ u[Len(u)] = DELIM /\ Len(u) > 0
  BY <1>1, <1>2
<1>4. ASSUME NEW i \in 1..Len(u)-1, u[i] = DELIM
      PROVE  \E j \in i+1..Len(u) : u[j] = DISPLAY
  <2>1. CASE i <= m
    <3>1. m + 1 \in i+1..Len(u)
      BY <1>2, <1>3, <2>1
    <3> QED BY <1>3, <3>1
  <2>2. CASE i > m
    <3>1. i - m \in 1..n-1 /\ i - m \in 1..n /\ m + (i - m) = i
      BY <1>2, <2>2
    <3>2. t[i - m] = DELIM
      BY <1>2, <1>4, <3>1
    <3>3. PICK j \in (i - m)+1..n : t[j] = DISPLAY
      BY <1>1, <3>1, <3>2
    <3>4. m + j \in i+1..Len(u) /\ j \in 1..n
      BY <1>2, <2>2, <3>1, <3>3
    <3> QED BY <1>2, <3>3, <3>4
  <2> QED BY <1>2, <2>1, <2>2
<1>5. Shows(u)
  <2>1. m + k \in 1..Len(u) /\ (m + k) + Len(Display) <= Len(u) /\ u[m + k] = DISPLAY
    BY <1>2, <1>a, <1>b
  <2> QED BY <2>1 DEF Shows
<1> QED BY <1>2, <1>3, <1>4, <1>5 DEF Follows, u

LEMMA BurstFollows ==
  ASSUME NEW n \in Nat \ {0}
  PROVE  Follows(Burst(n)) /\ Burst(n)[1] = DISPLAY
<1>1. n - 1 \in Nat /\ (n - 1) + 1 = n
  OBVIOUS
<1>2. Burst(n - 1) \in Seq(Byte) /\ Burst((n - 1) + 1) = Burst(n - 1) \o Block
  BY <1>1, BurstGrows, Zenon
<1>3. Follows(Burst(n - 1) \o Block)
  BY <1>2, BlockFollows, FollowsBehind
<1>4. Follows(Burst(n))
  BY <1>1, <1>2, <1>3
<1>5. Burst(n) # <<>>
  BY <1>4 DEF Follows
<1> QED BY <1>4, <1>5, BurstShapes DEF BurstShape

LEMMA FollowsProper ==
  ASSUME NEW s, Follows(s)
  PROVE  LET f == s \o <<PRINTER>> IN
         /\ Proper(f) /\ Has(f, DISPLAY) /\ f \in Seq(Byte) /\ Len(f) = Len(s) + 1
         /\ \E i \in 1..Len(f) : f[i] = DISPLAY /\ Len(Display) + 1 + i <= Len(f)
<1> DEFINE p == <<PRINTER>>
           f == s \o p
           n == Len(s)
<1>1. p \in Seq(Byte) /\ Len(p) = 1 /\ p[1] = PRINTER
  BY Codes
<1> HIDE DEF p
<1>2. /\ s \in Seq(Byte) /\ n > 0 /\ s[n] = DELIM
      /\ \A i \in 1..n-1 : s[i] = DELIM => \E j \in i+1..n : s[j] = DISPLAY
  BY DEF Follows
<1>3. PICK k \in 1..n : s[k] = DISPLAY /\ k + Len(Display) <= n
  BY DEF Follows, Shows
<1>0. Len(Display) \in Nat
  BY DisplayAssumption, LenProperties
<1>4. /\ f \in Seq(Byte) /\ n \in Nat /\ Len(f) = n + 1
      /\ \A i \in 1..n : f[i] = s[i]
      /\ f[n + 1] = PRINTER
  <2>1. /\ f \in Seq(Byte) /\ n \in Nat /\ Len(f) = n + Len(p)
        /\ \A i \in 1..n : f[i] = s[i]
        /\ \A i \in 1..Len(p) : f[n + i] = p[i]
    BY <1>1, <1>2, JoinAt, Zenon
  <2>2. 1 \in 1..Len(p)
    BY <1>1
  <2> QED BY <1>1, <2>1, <2>2
<1> HIDE DEF f, n
<1>5. f[n] = DELIM /\ n + 1 - 1 = n /\ n + 1 - 2 = n - 1
  BY <1>2, <1>4
<1>6. ASSUME NEW i \in 1..n-1, f[i] = DELIM
      PROVE  \E j \in i+1..n+1 : f[j] = DISPLAY
  <2>1. s[i] = DELIM
    BY <1>4, <1>6
  <2>2. PICK j \in i+1..n : s[j] = DISPLAY
    BY <1>2, <2>1
  <2>3. j \in i+1..n+1 /\ j \in 1..n
    BY <1>4, <2>2
  <2> QED BY <1>4, <2>2, <2>3
<1>a. k \in 1..Len(f) /\ f[k] = DISPLAY /\ Len(Display) + 1 + k <= Len(f)
  BY <1>0, <1>3, <1>4
<1>7. Has(f, DISPLAY)
  BY <1>a DEF Has
<1>8. f[Len(f)] = PRINTER /\ Len(f) - 1 = n /\ Len(f) - 2 = n - 1 /\ Len(f) = n + 1
  BY <1>4
<1>9. Proper(f)
  BY <1>4, <1>5, <1>6, <1>8 DEF Proper
<1> QED BY <1>4, <1>7, <1>9, <1>a DEF f, p, n

LEMMA PayloadText == Payloads \subseteq Text
<1>1. \A dump \in {ReportRecords, HistoryRecords} : Range(dump) \subseteq Text
  BY Dumps, ElementOfSeq DEF Range
<1>2. <<>> \in Text
  BY DEF Text
<1>3. Wait \in Text /\ \A letter \in PanelLetters : Press(letter) \in Text /\ Press(letter) \o Wait \in Text
  BY WaitIsText, PressText
<1>4. LogRecords \subseteq Text
  BY LinkAssumption
<1> HIDE DEF Wait, Press, Text
<1> QED BY <1>1, <1>2, <1>3, <1>4 DEF Payloads

LEMMA FrameSet ==
  /\ \A t \in Payloads : \A n \in CountsOf(t) : Frame(t, n) \in Frames
  /\ \A n \in LateCounts : LateWait(n) \in Frames
  /\ Frame(<<>>, 1) \in Frames
  /\ \A f \in Frames :
       \/ \E t \in Payloads : \E n \in CountsOf(t) : f = Frame(t, n)
       \/ \E n \in LateCounts : f = LateWait(n)
       \/ f = Frame(<<>>, 1)
<1> DEFINE P(t) == {Frame(t, n) : n \in CountsOf(t)}
           Q == UNION {P(t) : t \in Payloads}
           R == {LateWait(n) : n \in LateCounts}
           h == Frame(<<>>, 1)
<1>1. \A f : f \in Q <=> \E t \in Payloads : f \in P(t)
  <2> HIDE DEF P
  <2> QED OBVIOUS
<1>2. \A f : f \in R <=> \E n \in LateCounts : f = LateWait(n)
  OBVIOUS
<1>3. \A t, f : f \in P(t) <=> \E n \in CountsOf(t) : f = Frame(t, n)
  OBVIOUS
<1>4. Frames = R \cup {h} \cup Q
  BY DEF Frames
<1>5. \A t \in Payloads : \A n \in CountsOf(t) : Frame(t, n) \in P(t)
  BY <1>3
<1> HIDE DEF P, Q, R, h
<1>6. \A f : f \in Frames <=> f \in Q \/ f \in R \/ f = h
  BY <1>4
<1>7. \A t \in Payloads : \A n \in CountsOf(t) : Frame(t, n) \in Frames
  BY <1>1, <1>5, <1>6
<1>8. \A n \in LateCounts : LateWait(n) \in Frames
  BY <1>2, <1>6
<1>9. \A f \in Q : \E t \in Payloads : \E n \in CountsOf(t) : f = Frame(t, n)
  BY <1>1, <1>3
<1> QED BY <1>2, <1>6, <1>7, <1>8, <1>9 DEF h

\* What every frame of the 1022 looks like
WellFormed(f) ==
  /\ f \in Seq(Byte) /\ Proper(f) /\ Has(f, DISPLAY)
  /\ \E i \in 1..Len(f) : f[i] = DISPLAY /\ Len(Display) + 1 + i <= Len(f)

LEMMA FrameProper ==
  ASSUME NEW f \in Frames
  PROVE  WellFormed(f) /\ (Len(f) + 5 <= BufSize \/ ~FramesFit)
<1> DEFINE d == <<DELIM>>
           p == <<PRINTER>>
<1>0. d \in Seq(Byte)
  BY Codes
<1>1. Len(f) + 5 <= BufSize \/ ~FramesFit
  BY DEF FramesFit
<1>2. \A s : Follows(s) => WellFormed(s \o p)
  BY FollowsProper DEF WellFormed
<1> HIDE DEF d, p
<1>3. ASSUME NEW t \in Text, NEW n \in Nat \ {0}
      PROVE  WellFormed(Frame(t, n))
  <2>1. t \in Seq(Byte) /\ d \o t \in Seq(Byte)
    BY <1>0, TextIsBytes, JoinAt
  <2>2. Follows((d \o t) \o Burst(n))
    BY <2>1, BurstFollows, FollowsBehind
  <2> DEFINE s == (d \o t) \o Burst(n)
  <2> HIDE DEF s
  <2>3. WellFormed(s \o p)
    BY <1>2, <2>2 DEF s
  <2> QED BY <2>3 DEF Frame, s, d, p
<1>4. ASSUME NEW n \in Nat \ {0}
      PROVE  WellFormed(LateWait(n))
  <2>1. Wait \in Seq(Byte) /\ Burst(n) \in Seq(Byte)
    BY WaitIsText, TextIsBytes, BurstFollows DEF Follows
  <2>2. (d \o Burst(n)) \o Wait \in Seq(Byte)
    BY <1>0, <2>1, JoinAt, Zenon
  <2> DEFINE r == (d \o Burst(n)) \o Wait
             s == r \o Burst(1)
  <2>3. Follows(s)
    <3>1. Follows(Burst(1)) /\ Burst(1)[1] = DISPLAY
      BY BurstFollows
    <3> HIDE DEF r
    <3> QED BY <2>2, <3>1, FollowsBehind DEF r
  <2> HIDE DEF r, s
  <2>4. WellFormed(s \o p)
    BY <1>2, <2>3
  <2> QED BY <2>4 DEF LateWait, r, s, d, p
<1>5. \A t \in Payloads : \A n \in CountsOf(t) : t \in Text /\ n \in Nat \ {0}
  BY PayloadText, FrameCounts
<1>6. <<>> \in Text
  BY DEF Text
<1>7. \A n \in LateCounts : n \in Nat \ {0}
  BY FrameCounts
<1>8. \/ \E t \in Payloads : \E n \in CountsOf(t) : f = Frame(t, n)
      \/ \E n \in LateCounts : f = LateWait(n)
      \/ f = Frame(<<>>, 1)
  BY FrameSet
<1>9. WellFormed(Frame(<<>>, 1))
  <2>1. 1 \in Nat \ {0}
    OBVIOUS
  <2> QED BY <1>3, <1>6, <2>1
<1> QED BY <1>1, <1>3, <1>4, <1>5, <1>7, <1>8, <1>9

\* Whatever the 1022 hears, it sends one of its frames.
LEMMA HearFrame ==
  ASSUME LinkInv, ModeInv, NEW st, NEW request, Hear(st, request)
  PROVE  m_out' \in Frames
<1>1. \A t \in Payloads : SendFrame(t) => m_out' \in Frames
  BY FrameSet DEF SendFrame
<1>2. /\ <<>> \in Payloads /\ Wait \in Payloads /\ LogRecords \subseteq Payloads
      /\ \A letter \in PanelLetters : Press(letter) \in Payloads /\ Press(letter) \o Wait \in Payloads
      /\ \A dump \in {ReportRecords, HistoryRecords} : Range(dump) \subseteq Payloads
  BY DEF Payloads
<1>3. \A dump \in {ReportRecords, HistoryRecords} : \A t \in Rest(dump) : Head(t) \in Range(dump)
  <2> SUFFICES ASSUME NEW dump \in {ReportRecords, HistoryRecords}, NEW t \in Rest(dump)
               PROVE  Head(t) \in Range(dump)
    OBVIOUS
  <2>1. dump \in Seq(Text) /\ Len(dump) \in Nat
    BY Dumps
  <2>2. PICK k \in 1..Len(dump) : t = SubSeq(dump, k, Len(dump))
    BY DEF Rest
  <2>3. Len(dump) \in k..Len(dump)
    BY <2>1
  <2>4. Head(t) = dump[k]
    BY <2>1, <2>2, <2>3, HeadTailOfSubSeq
  <2> QED BY <2>1, <2>4 DEF Range
<1>4. ASSUME NextRecord, m_mode \in {"report", "history"}
      PROVE  m_out' \in Frames
  <2>1. \E dump \in {ReportRecords, HistoryRecords} : m_todo \in Rest(dump)
    BY <1>4 DEF ModeInv, DumpRuns
  <2>2. Head(m_todo) \in Payloads
    BY <1>2, <1>3, <2>1
  <2> QED BY <1>1, <1>4, <2>2 DEF NextRecord
<1>5. ASSUME HearReport \/ HearHistory
      PROVE  m_out' \in Frames
  <2>1. Head(ReportRecords) \in Payloads
    BY <1>2, <1>3, RestFirst
  <2> QED BY <1>1, <1>2, <1>5, <2>1 DEF HearReport, HearHistory
<1>6. ASSUME Silence \/ Ignore \/ HearNoLogBit \/ HearLogStart
      PROVE  m_out' \in Frames
  BY <1>1, <1>2, <1>6 DEF Silence, Ignore, IdleFrame, HearNoLogBit, HearLogStart
<1>7. ASSUME HearLogRecord
      PROVE  m_out' \in Frames
  BY <1>1, <1>2, <1>7, FrameSet DEF HearLogRecord
<1> QED BY <1>4, <1>5, <1>6, <1>7 DEF Hear

\* A frame goes out only when all of the last one has been read.
LEMMA FrameSent ==
  ASSUME LinkInv, LinkInv', EarInv, ModeInv, TakeReply \/ SlotOver
  PROVE  /\ Stream = <<>> /\ Stream' = m_out' /\ m_out' \in Frames /\ IsFrame(m_out')
         /\ UNCHANGED engineVars
<1>1. TakeReply => Stream = <<>>
  BY DEF TakeReply, EarInv
<1>2. Stream' = m_out' /\ IsFrame(m_out') /\ Stream = <<>>
  BY <1>1, FrameFirst
<1>3. m_out' \in Frames
  <2>1. Silence => m_out' \in Frames
    <3>1. <<>> \in Payloads
      BY DEF Payloads
    <3> QED BY <3>1, FrameSet DEF Silence, SendFrame
  <2> QED BY <2>1, HearFrame DEF TakeReply, SlotOver
<1> QED BY <1>2, <1>3 DEF TakeReply, SlotOver

-----------------------------------------------------------------------------
(* Where a record ends *)

AnswerStates == {"SS_PRINTER", "RPT_START", "RPT_PRINTER", "HST_START",
                 "HST_PRINTER_ACTIVE", "LOG_START", "LOG_PRINTER_ACTIVE"}

\* The byte that ends the record, by state
DelimEnds   == AnswerStates \cup {"SS_DISPLAY"}
DisplayEnds == {"SS_UNKNOWN", "RPT_DATA", "HST_DATA", "LOG_DATA"}
PollEnds    == {"RPT_DISPLAY", "HST_DISPLAY", "LOG_DISPLAY"}

Ends(b) ==
  \/ header_state \in DelimEnds /\ b = DELIM
  \/ header_state \in DisplayEnds /\ b = DISPLAY
  \/ header_state = "SS_PAUSE" /\ b = PRINTER
  \/ header_state \in PollEnds /\ PollSeen(b)

\* What the next record begins with
Begins(b) ==
  \/ /\ b = DELIM /\ buffer_len' = 1 /\ buffer'[0] = DELIM
     /\ header_state' \in {"SS_PAUSE", "RPT_DATA", "HST_DATA", "LOG_DATA", "HST_DISPLAY"}
  \/ /\ b = DISPLAY /\ buffer_len' \in 1..2
     /\ header_state' \in {"SS_DISPLAY", "RPT_DISPLAY", "HST_DISPLAY", "LOG_DISPLAY"}
  \/ /\ b = PRINTER /\ buffer_len' \in 2..5
     /\ header_state' \in AnswerStates
  \/ /\ b = SEMI /\ buffer_len' = 2 /\ LastByte = DELIM
     /\ header_state = "LOG_DISPLAY" /\ header_state' = "LOG_DATA"
  \/ b = CR /\ buffer_len' = 0 /\ header_state' = "SS_PAUSE"

\* A byte joins the record or ends it.
ReadOn(b) ==
  \/ Accumulate(b) /\ ~Ends(b)
  \/ Begins(b) /\ fault' = "none"

LEMMA GotoBegins ==
  ASSUME NEW state, NEW b, NEW rec \in {<<b>>, <<DELIM, b>>}, Goto(state, rec)
  PROVE  /\ header_state' = state /\ buffer_len' \in 1..2
         /\ rec = <<b>> => buffer_len' = 1 /\ buffer'[0] = b
         /\ rec = <<DELIM, b>> => buffer_len' = 2
<1>1. 0 \in 0..BufSize-1
  BY ParserAssumption
<1> QED BY <1>1 DEF Goto, Fill

LEMMA AnswerBegins ==
  ASSUME NEW state, NEW b \in Byte, NEW lm, NEW prefix \in {<<b>>, <<DELIM, b>>},
         NEW request \in {<<>>, <<RCh, CR>>, <<ICh, CR>>, <<TCh, CR>>, <<HCh, CR>>, <<LCh, CR>>},
         Answer(state, prefix, lm, request)
  PROVE  header_state' = state /\ buffer_len' \in 2..5
<1> DEFINE st == <<StatusOf(lm)>>
           rec == (prefix \o st) \o request
           m == Len(prefix)
           n == Len(request)
<1>1. st \in Seq(Byte) /\ Len(st) = 1
  BY Codes
<1>2. request \in Seq(Byte) /\ n \in 0..2
  <2>1. CASE request = <<>>
    BY <2>1
  <2>2. CASE \E letter \in {RCh, ICh, TCh, HCh, LCh} : request = <<letter, CR>>
    <3>1. PICK letter \in {RCh, ICh, TCh, HCh, LCh} : request = <<letter, CR>>
      BY <2>2
    <3>2. letter \in Byte
      BY Codes
    <3> QED BY <3>1, <3>2, RequestTexts
  <2> QED BY <2>1, <2>2
<1>3. prefix \in Seq(Byte) /\ m \in 1..2
  <2>1. DELIM \in Byte
    BY Codes
  <2>2. CASE prefix = <<b>>
    BY <2>2
  <2>3. CASE prefix = <<DELIM, b>>
    BY <2>1, <2>3
  <2> QED BY <2>2, <2>3
<1>4. header_state' = state /\ buffer_len' = Len(rec)
  BY DEF Answer, Goto, Fill
<1> HIDE DEF st
<1>5. Len(rec) = (m + Len(st)) + n
  BY <1>1, <1>2, <1>3, JoinedThree, Zenon
<1> HIDE DEF rec, m, n
<1> QED BY <1>1, <1>2, <1>3, <1>4, <1>5

LEMMA SteadyReadsOn ==
  ASSUME Active, NEW b \in Byte, fault = "none", fault' # "null",
         header_state = "SS_PRINTER" => header_state' \in {"SS_PRINTER", "SS_PAUSE"},
         SS_Unknown(b) \/ SS_Pause(b) \/ SS_Display(b) \/ SS_Printer(b)
  PROVE  ReadOn(b)
<1>1. CASE SS_Unknown(b)
  BY <1>1, GotoBegins, CodesDiffer DEF SS_Unknown, Enter, ReadOn, Ends, Begins, DelimEnds,
     DisplayEnds, PollEnds, AnswerStates
<1>2. CASE SS_Pause(b)
  <2>1. CASE b = PRINTER /\ SS_Pause_Active(b)
    <3>1. \E state \in AnswerStates, lm \in BOOLEAN \cup {logmode},
             request \in {<<>>, <<RCh, CR>>, <<ICh, CR>>, <<TCh, CR>>} :
               Answer(state, <<b>>, lm, request)
      BY <2>1 DEF SS_Pause_Active, StartSession, StartLog, AnswerStates
    <3>2. fault' = fault
      BY <2>1 DEF SS_Pause_Active, StartSession, StartLog
    <3>3. header_state' \in AnswerStates /\ buffer_len' \in 2..5
      <4>1. PICK state \in AnswerStates, lm \in BOOLEAN \cup {logmode},
                 request \in {<<>>, <<RCh, CR>>, <<ICh, CR>>, <<TCh, CR>>} :
                   Answer(state, <<b>>, lm, request)
        BY <3>1
      <4>2. request \in {<<>>, <<RCh, CR>>, <<ICh, CR>>, <<TCh, CR>>, <<HCh, CR>>, <<LCh, CR>>}
            /\ <<b>> \in {<<b>>, <<DELIM, b>>}
        OBVIOUS
      <4>3. header_state' = state /\ buffer_len' \in 2..5
        BY <4>1, <4>2, AnswerBegins, Zenon
      <4> QED BY <4>3
    <3> QED BY <2>1, <3>2, <3>3 DEF ReadOn, Begins
  <2>2. CASE b # PRINTER /\ IsDirective(b) /\ SS_Pause_Directive
    BY <1>2, <2>2 DEF SS_Pause, IsDirective, SS_Pause_Directive, ReadOn, Begins
  <2>3. CASE b # PRINTER /\ Accumulate(b)
    BY <1>2, <2>3 DEF SS_Pause, ReadOn, Ends, DelimEnds, DisplayEnds, PollEnds, AnswerStates
  <2> QED BY <1>2, <2>1, <2>2, <2>3 DEF SS_Pause
<1>3. CASE SS_Display(b)
  BY <1>3, GotoBegins, CodesDiffer DEF SS_Display, ReadOn, Ends, Begins, DelimEnds,
     DisplayEnds, PollEnds, AnswerStates, NullStream, Dies
<1>4. CASE SS_Printer(b)
  <2>1. CASE b = DELIM /\ Enter("SS_PAUSE", <<b>>)
    BY <2>1, GotoBegins DEF Enter, ReadOn, Begins
  <2>2. ~(b = CR /\ Overheard(LastByte) # "none" /\ PushTo(Overheard(LastByte), b))
    BY <1>4 DEF SS_Printer, Overheard, PushTo
  <2>3. CASE b # DELIM /\ Accumulate(b)
    BY <1>4, <2>3 DEF SS_Printer, ReadOn, Ends, DelimEnds, DisplayEnds, PollEnds, AnswerStates
  <2> QED BY <1>4, <2>1, <2>2, <2>3 DEF SS_Printer
<1> QED BY <1>1, <1>2, <1>3, <1>4

LEMMA ReportReadsOn ==
  ASSUME Active, NEW b \in Byte, fault = "none", fault' # "null",
         RPT_Start(b) \/ RPT_Data(b) \/ RPT_Display(b) \/ RPT_Printer(b)
  PROVE  ReadOn(b)
<1>1. CASE RPT_Start(b) \/ RPT_Printer(b)
  BY <1>1, GotoBegins, CodesDiffer DEF RPT_Start, RPT_Printer, Enter, ReadOn, Ends, Begins,
     DelimEnds, DisplayEnds, PollEnds, AnswerStates, NullStream, Dies
<1>2. CASE RPT_Data(b)
  BY <1>2, GotoBegins, CodesDiffer DEF RPT_Data, AfterSession, ReadOn, Ends, Begins,
     DelimEnds, DisplayEnds, PollEnds, AnswerStates
<1>3. CASE RPT_Display(b)
  <2>1. CASE PollSeen(b) /\ Answer("RPT_PRINTER", <<DELIM, b>>, logmode, <<>>) /\ fault' = fault
    BY <2>1, AnswerBegins DEF ReadOn, Begins, AnswerStates, PollSeen
  <2>2. CASE ~PollSeen(b) /\ Accumulate(b)
    BY <1>3, <2>2 DEF RPT_Display, ReadOn, Ends, DelimEnds, DisplayEnds, PollEnds, AnswerStates
  <2> QED BY <1>3, <2>1, <2>2 DEF RPT_Display, NullStream, Dies
<1> QED BY <1>1, <1>2, <1>3

LEMMA HistoryReadsOn ==
  ASSUME Active, ListensOnly, NEW b \in Byte, fault = "none", fault' # "null",
         HST_Start(b) \/ HST_Display(b) \/ HST_Printer(b) \/ HST_Printer_Active(b) \/ HST_Data(b)
  PROVE  ReadOn(b)
<1>1. CASE HST_Start(b) \/ HST_Printer_Active(b)
  BY <1>1, GotoBegins, CodesDiffer DEF HST_Start, HST_Printer_Active, Enter, ReadOn, Ends,
     Begins, DelimEnds, DisplayEnds, PollEnds, AnswerStates, NullStream, Dies
<1>2. CASE HST_Data(b)
  BY <1>2, GotoBegins, CodesDiffer DEF HST_Data, AfterSession, ReadOn, Ends, Begins,
     DelimEnds, DisplayEnds, PollEnds, AnswerStates, NullStream, Dies
<1>3. CASE HST_Display(b)
  <2>1. CASE /\ PollSeen(b) /\ fault' = fault
             /\ \E request \in {<<TCh, CR>>, <<HCh, CR>>} :
                  Answer("HST_PRINTER_ACTIVE", <<DELIM, b>>, logmode, request)
    BY <2>1, AnswerBegins DEF ReadOn, Begins, AnswerStates, PollSeen
  <2>2. CASE ~PollSeen(b) /\ Accumulate(b)
    BY <1>3, <2>2 DEF HST_Display, ReadOn, Ends, DelimEnds, DisplayEnds, PollEnds, AnswerStates
  <2> QED BY <1>3, <2>1, <2>2 DEF HST_Display, NullStream, Dies
<1>4. ~HST_Printer(b)
  BY DEF ListensOnly, HST_Printer
<1> QED BY <1>1, <1>2, <1>3, <1>4

LEMMA LogReadsOn ==
  ASSUME Active, ListensOnly, NEW b \in Byte, fault = "none", fault' # "null",
         header_state = "LOG_DATA" => buffer_len > 0,
         LOG_Start(b) \/ LOG_Data(b) \/ LOG_Display(b) \/ LOG_Printer(b) \/ LOG_Printer_Active(b)
  PROVE  ReadOn(b)
<1>1. CASE LOG_Start(b) \/ LOG_Printer_Active(b)
  BY <1>1, GotoBegins, CodesDiffer DEF LOG_Start, LOG_Printer_Active, Enter, ReadOn, Ends,
     Begins, DelimEnds, DisplayEnds, PollEnds, AnswerStates
<1>2. CASE LOG_Data(b)
  <2>1. ~LogLengthWraps
    BY <1>2 DEF LOG_Data, LogLengthWraps
  <2> QED BY <1>2, <2>1, GotoBegins, CodesDiffer DEF LOG_Data, ReadOn, Ends, Begins,
        DelimEnds, DisplayEnds, PollEnds, AnswerStates
<1>3. CASE LOG_Display(b)
  <2>1. CASE PollSeen(b) /\ LOG_Display_Active(b) /\ fault' = fault
    <3>1. \E state \in AnswerStates, lm \in BOOLEAN \cup {logmode},
             request \in {<<>>, <<RCh, CR>>, <<ICh, CR>>, <<LCh, CR>>} :
               Answer(state, <<DELIM, b>>, lm, request)
      BY <2>1 DEF LOG_Display_Active, StartSession, StopLog, AnswerStates
    <3>2. header_state' \in AnswerStates /\ buffer_len' \in 2..5
      <4>1. PICK state \in AnswerStates, lm \in BOOLEAN \cup {logmode},
                 request \in {<<>>, <<RCh, CR>>, <<ICh, CR>>, <<LCh, CR>>} :
                   Answer(state, <<DELIM, b>>, lm, request)
        BY <3>1
      <4>2. request \in {<<>>, <<RCh, CR>>, <<ICh, CR>>, <<TCh, CR>>, <<HCh, CR>>, <<LCh, CR>>}
            /\ <<DELIM, b>> \in {<<b>>, <<DELIM, b>>}
        OBVIOUS
      <4>3. header_state' = state /\ buffer_len' \in 2..5
        BY <4>1, <4>2, AnswerBegins, Zenon
      <4> QED BY <4>3
    <3> QED BY <2>1, <3>2 DEF ReadOn, Begins, PollSeen
  <2>2. CASE LastByte = DELIM /\ b = DISPLAY /\ Enter("LOG_DISPLAY", <<DELIM, b>>)
    BY <2>2, GotoBegins DEF Enter, ReadOn, Begins
  <2>3. CASE LastByte = DELIM /\ b = SEMI /\ Enter("LOG_DATA", <<DELIM, b>>)
    BY <1>3, <2>3, GotoBegins DEF LOG_Display, Enter, ReadOn, Begins
  <2>4. CASE ~(LastByte = DELIM /\ b \in {PRINTER, DISPLAY, SEMI}) /\ Accumulate(b)
    BY <1>3, <2>4 DEF LOG_Display, ReadOn, Ends, DelimEnds, DisplayEnds, PollEnds,
       AnswerStates, PollSeen
  <2>5. LOG_Display_Active(b) => fault' = fault
    BY DEF LOG_Display_Active, StopLog, StartSession
  <2> QED BY <1>3, <2>1, <2>2, <2>3, <2>4, <2>5 DEF LOG_Display, NullStream, Dies
<1>4. ~LOG_Printer(b)
  BY DEF ListensOnly, LOG_Printer
<1> QED BY <1>1, <1>2, <1>3, <1>4

LEMMA EveryByteReads ==
  ASSUME Active, ListensOnly, NEW b \in Byte, ParseByte(b), fault' # "null",
         header_state = "SS_PRINTER" => header_state' \in {"SS_PRINTER", "SS_PAUSE"},
         header_state = "LOG_DATA" => buffer_len > 0
  PROVE  ReadOn(b)
BY SteadyReadsOn, ReportReadsOn, HistoryReadsOn, LogReadsOn DEF ParseByte

\* What a byte at the head of the stream says of the bytes behind it
LEMMA ProperNext ==
  ASSUME NEW s, NEW t, Behind(s, 1, t), s \in Seq(Byte), Proper(s)
  PROVE  /\ Proper(t) /\ Len(s) = Len(t) + 1 /\ Len(t) \in Nat
         /\ s[1] # PRINTER => Len(t) >= 1
         /\ s[1] = DISPLAY => Len(t) > 1
         /\ s[1] \in {DISPLAY, PRINTER} => Len(t) = 0 \/ Has(t, DELIM)
         /\ s[1] = DELIM => Has(t, DISPLAY) \/ Len(t) <= 1
         /\ Len(t) = 1 => s[1] = DELIM
         /\ \A c : Has(s, c) /\ s[1] # c => Has(t, c)
<1> DEFINE n == Len(t)
<1>1. /\ n \in Nat /\ Len(s) = n + 1
      /\ \A i \in 1..n : t[i] = s[i + 1]
  BY LenProperties DEF Behind
<1> HIDE DEF n
<1>2. s[n + 1] = PRINTER /\ (n > 0 => s[n] = DELIM)
  BY <1>1 DEF Proper
<1>3. ASSUME NEW i \in 1..n-1, s[i] = DELIM
      PROVE  \E j \in i+1..n+1 : s[j] = DISPLAY
  BY <1>1, <1>3 DEF Proper
<1>4. \A j \in 2..n+1 : j - 1 \in 1..n /\ t[j - 1] = s[j]
  BY <1>1
<1>5. n > 0 => t[n] = PRINTER
  BY <1>1, <1>2
<1>6. n > 1 => t[n - 1] = DELIM
  <2> SUFFICES ASSUME n > 1 PROVE t[n - 1] = DELIM
    OBVIOUS
  <2>1. n - 1 \in 1..n /\ (n - 1) + 1 = n
    BY <1>1
  <2> QED BY <1>1, <1>2, <2>1
<1>7. ASSUME NEW i \in 1..n-2, t[i] = DELIM
      PROVE  \E j \in i+1..n : t[j] = DISPLAY
  <2>1. i + 1 \in 1..n-1 /\ s[i + 1] = DELIM
    BY <1>1, <1>7
  <2>2. PICK j \in (i+1)+1..n+1 : s[j] = DISPLAY
    BY <1>3, <2>1
  <2>3. j \in 2..n+1 /\ j - 1 \in i+1..n
    BY <1>1, <2>2
  <2> QED BY <1>4, <2>2, <2>3
<1>8. Proper(t)
  BY <1>5, <1>6, <1>7 DEF Proper, n
<1>9. s[1] # PRINTER => n >= 1
  BY <1>1, <1>2
<1>10. n = 1 => s[1] = DELIM
  BY <1>2
<1>11. s[1] = DISPLAY => n > 1
  BY <1>1, <1>9, <1>10, CodesDiffer
<1>12. ASSUME s[1] # DELIM, n > 0
       PROVE  Has(t, DELIM)
  <2>1. n > 1
    BY <1>1, <1>10, <1>12
  <2>2. n - 1 \in 1..Len(t)
    BY <1>1, <2>1 DEF n
  <2> QED BY <1>6, <2>1, <2>2 DEF Has
<1>13. ASSUME s[1] = DELIM, n > 1
       PROVE  Has(t, DISPLAY)
  <2>1. 1 \in 1..n-1
    BY <1>1, <1>13
  <2>2. PICK j \in 1+1..n+1 : s[j] = DISPLAY
    BY <1>3, <1>13, <2>1
  <2>3. j \in 2..n+1
    BY <1>1, <2>2
  <2>4. j - 1 \in 1..Len(t) /\ t[j - 1] = DISPLAY
    BY <1>4, <2>2, <2>3 DEF n
  <2> QED BY <2>4 DEF Has
<1>14. ASSUME NEW c, Has(s, c), s[1] # c
       PROVE  Has(t, c)
  <2>1. PICK j \in 1..Len(s) : s[j] = c
    BY <1>14 DEF Has
  <2>2. j \in 2..n+1
    BY <1>1, <1>14, <2>1
  <2>3. j - 1 \in 1..Len(t) /\ t[j - 1] = c
    BY <1>4, <2>1, <2>2 DEF n
  <2> QED BY <2>3 DEF Has
<1>15. s[1] \in {DISPLAY, PRINTER} => n = 0 \/ Has(t, DELIM)
  BY <1>1, <1>12, CodesDiffer
<1>16. s[1] = DELIM => Has(t, DISPLAY) \/ n <= 1
  BY <1>1, <1>13
<1> QED BY <1>1, <1>8, <1>9, <1>10, <1>11, <1>14, <1>15, <1>16 DEF n

-----------------------------------------------------------------------------
(* Room in the buffer *)

LastDelim == buffer_len > 0 /\ LastByte = DELIM

\* The record ends before the frame does.
Due ==
  \/ header_state \in DelimEnds /\ Has(Stream, DELIM)
  \/ header_state \in DisplayEnds /\ Has(Stream, DISPLAY)
  \/ header_state = "SS_PAUSE" /\ Len(Stream) > 0
  \/ header_state \in PollEnds /\ (Len(Stream) > 1 \/ (Len(Stream) = 1 /\ LastDelim))

\* The engine reads on to the next display record, which is near enough.
Waiting ==
  /\ header_state = "SS_UNKNOWN"
  /\ \E i \in 1..Len(Stream) : Stream[i] = DISPLAY /\ buffer_len + i <= BufSize

\* What may be left when a frame has been read: an answer, or the end of the
\* display record during which the engine came up.
Little(n) == n <= 5 \/ (header_state = "SS_UNKNOWN" /\ n <= Len(Display) + 1)

\* What is left of the frame has room behind what is left in the buffer.
RoomInv ==
  /\ fault = "none"
  /\ Proper(Stream)
  /\ 5 + Len(Stream) <= BufSize
  /\ buffer_len + Len(Stream) <= BufSize \/ Waiting
  /\ Due \/ Little(buffer_len + Len(Stream))
  /\ LastDelim => Has(Stream, DISPLAY) \/ Len(Stream) <= 1
  /\ header_state = "LOG_DATA" => buffer_len > 0

\* A frame that arrives finds room, and ends what is in the buffer.
LEMMA RoomForFrame ==
  ASSUME FramesFit, LinkInv, EngineInv, RoomInv, Stream = <<>>, Stream' \in Frames,
         UNCHANGED engineVars
  PROVE  RoomInv'
<1> DEFINE f == Stream'
           n == Len(f)
           m == buffer_len
<1>1. WellFormed(f) /\ n + 5 <= BufSize
  BY FrameProper
<1>2. n \in Nat /\ BufSize \in Nat /\ Len(Display) \in Nat
  BY <1>1, LenProperties, DisplayAssumption, ParserAssumption DEF WellFormed
<1>3. Len(Stream) = 0
  BY EmptySeq
<1>4. m \in Nat /\ header_state \in HeaderStates
  BY DEF LinkInv, TypeOK, ParserTypeOK
<1>5. ~Due
  BY <1>3 DEF Due, Has
<1>6. Little(m)
  BY <1>3, <1>4, <1>5 DEF RoomInv
<1>7. n > 1 /\ Has(f, DELIM)
  <2>1. PICK i \in 1..n : f[i] = DISPLAY
    BY <1>1 DEF WellFormed, Has
  <2>2. n > 0 /\ f[n] = PRINTER
    BY <1>1, <1>2 DEF WellFormed, Proper
  <2>3. n > 1
    BY <1>2, <2>1, <2>2, CodesDiffer
  <2>4. n - 1 \in 1..n /\ f[n - 1] = DELIM
    BY <1>1, <1>2, <2>3 DEF WellFormed, Proper
  <2> QED BY <2>3, <2>4 DEF Has
<1>8. header_state \in DelimEnds \cup DisplayEnds \cup PollEnds \cup {"SS_PAUSE"}
  BY <1>4, LinkAssumption DEF EngineInv, IInv, ControlInv, ListensOnly, HeaderStates, SteadyStates,
     ReportStates, HistoryStates, LogStates, DelimEnds, DisplayEnds, PollEnds, AnswerStates
<1>9. UNCHANGED <<fault, header_state, buffer_len, buffer>>
  BY DEF engineVars, parserVars
<1>10. Due' /\ LastDelim' = LastDelim
  BY <1>1, <1>2, <1>7, <1>8, <1>9 DEF Due, LastDelim, LastByte, WellFormed
<1>11. m + n <= BufSize \/ Waiting'
  <2>1. CASE m <= 5
    BY <1>1, <1>2, <1>4, <2>1
  <2>2. CASE header_state = "SS_UNKNOWN" /\ m <= Len(Display) + 1
    <3>1. PICK i \in 1..n : f[i] = DISPLAY /\ Len(Display) + 1 + i <= n
      BY <1>1 DEF WellFormed
    <3>2. m + i <= BufSize
      BY <1>1, <1>2, <1>4, <2>2, <3>1
    <3> QED BY <1>9, <2>2, <3>1, <3>2 DEF Waiting
  <2> QED BY <1>6, <2>1, <2>2 DEF Little
<1>12. 5 + n <= BufSize
  BY <1>1, <1>2
<1> HIDE DEF f
<1> QED BY <1>1, <1>9, <1>10, <1>11, <1>12 DEF RoomInv, WellFormed, f

LEMMA RoomForByte ==
  ASSUME FALSE \notin FopenResult, LinkInv, LinkInv', EngineInv, LineInv, RoomInv,
         "rdg" \in f_open, Deliver
  PROVE  RoomInv'
<1> DEFINE b == Head(line)
           s == Stream
           t == Stream'
           n == Len(t)
           m == buffer_len
<1>1. /\ Behind(s, 1, t) /\ s \in Seq(Byte) /\ b \in Byte /\ s[1] = b
  BY DeliveredFirst, StreamType DEF LinkInv
<1>2. /\ ParseByte(b) /\ HandlerStep(b) /\ ParserTypeOK /\ ParserTypeOK'
      /\ Active /\ ControlInv /\ ListensOnly
  BY DeliverHandled DEF ControlInv
<1>3. fault' # "null"
  BY <1>2, ParseByteNullFree DEF RoomInv
<1>4. header_state = "SS_PRINTER" => header_state' \in {"SS_PRINTER", "SS_PAUSE"}
  BY SlotStep DEF LinkNext
<1>5. ReadOn(b)
  <2>1. header_state = "LOG_DATA" => buffer_len > 0
    BY DEF RoomInv
  <2> HIDE DEF b
  <2> QED BY <1>1, <1>2, <1>3, <1>4, <2>1, EveryByteReads
<1> HIDE DEF b, s, t, n
<1>6. /\ Proper(t) /\ Len(s) = n + 1 /\ n \in Nat
      /\ b # PRINTER => n >= 1
      /\ b = DISPLAY => n > 1
      /\ b \in {DISPLAY, PRINTER} => n = 0 \/ Has(t, DELIM)
      /\ b = DELIM => Has(t, DISPLAY) \/ n <= 1
      /\ n = 1 => b = DELIM
      /\ \A c : Has(s, c) /\ b # c => Has(t, c)
  <2>1. Proper(s)
    BY DEF RoomInv, s
  <2> QED BY <1>1, <2>1, ProperNext, Zenon DEF n
<1>7. /\ 5 + (n + 1) <= BufSize
      /\ m + (n + 1) <= BufSize \/ Waiting
      /\ Due \/ Little(m + (n + 1))
      /\ LastDelim => Has(s, DISPLAY) \/ n + 1 <= 1
  BY <1>6 DEF RoomInv, s
<1>8. m \in Nat /\ BufSize \in Nat
  BY <1>2, ParserAssumption DEF ParserTypeOK
<1>a. ASSUME Waiting, b # DISPLAY
      PROVE  \E i \in 1..n : t[i] = DISPLAY /\ (m + 1) + i <= BufSize
  <2>1. PICK i \in 1..n+1 : s[i] = DISPLAY /\ m + i <= BufSize
    BY <1>6, <1>a DEF Waiting, s, m
  <2>2. i # 1
    BY <1>1, <1>a, <2>1
  <2>3. i - 1 \in 1..n /\ (i - 1) + 1 = i /\ (m + 1) + (i - 1) <= BufSize
    BY <1>6, <1>8, <2>1, <2>2
  <2>4. t[i - 1] = s[(i - 1) + 1]
    BY <1>1, <2>3 DEF Behind, n
  <2> QED BY <2>1, <2>3, <2>4
<1>b. Accumulate(b) /\ ~Ends(b) => m < BufSize
  <2>1. Waiting /\ ~Ends(b) => b # DISPLAY
    BY DEF Waiting, Ends, DisplayEnds
  <2> QED BY <1>6, <1>7, <1>8, <1>a, <2>1
<1>9. LastDelim' => Has(t, DISPLAY) \/ n <= 1
  <2> SUFFICES ASSUME LastDelim' PROVE Has(t, DISPLAY) \/ n <= 1
    OBVIOUS
  <2>1. ASSUME fault' = "none" PROVE b = DELIM
    <3>1. Contents' # <<>> /\ Contents'[Len(Contents')] = LastByte'
      <4>1. buffer_len' \in Nat \ {0}
        BY <1>2 DEF LastDelim, ParserTypeOK
      <4>2. Len(Contents') = buffer_len' /\ buffer_len' \in 1..buffer_len'
        BY <4>1 DEF Contents
      <4>3. Contents'[buffer_len'] = buffer'[buffer_len' - 1] /\ Contents' # <<>>
        BY <4>1, <4>2 DEF Contents
      <4> QED BY <4>2, <4>3 DEF LastByte
    <3>2. Polled'
      BY <2>1, <3>1 DEF LastDelim, Polled
    <3> QED BY <1>1, <1>2, <3>2, DelimRead
  <2>2. fault' = "none"
    BY <1>5, <1>8, <1>b DEF ReadOn, Accumulate, Push, RoomInv, m
  <2> QED BY <1>6, <2>1, <2>2
<1>10. CASE Accumulate(b) /\ ~Ends(b)
  <2>1. /\ fault' = "none" /\ buffer_len' = m + 1 /\ header_state' = header_state
        /\ buffer' = [buffer EXCEPT ![m] = b] /\ m \in 0..BufSize-1
    BY <1>8, <1>b, <1>10 DEF Accumulate, Push, RoomInv, m
  <2>2. LastByte' = b /\ buffer_len' > 0
    <3>1. (m + 1) - 1 = m /\ m + 1 > 0
      BY <1>8
    <3>2. buffer'[m] = b
      BY <1>2, <2>1 DEF ParserTypeOK
    <3> QED BY <2>1, <3>1, <3>2 DEF LastByte
  <2>3. ASSUME Due PROVE Due'
    <3>1. CASE header_state \in DelimEnds /\ Has(s, DELIM)
      BY <1>6, <1>10, <2>1, <3>1 DEF Due, Ends, t
    <3>2. CASE header_state \in DisplayEnds /\ Has(s, DISPLAY)
      BY <1>6, <1>10, <2>1, <3>2 DEF Due, Ends, t
    <3>3. CASE header_state = "SS_PAUSE"
      BY <1>6, <1>10, <2>1, <3>3 DEF Due, Ends, t, n
    <3>4. CASE header_state \in PollEnds /\ (n + 1 > 1 \/ (n + 1 = 1 /\ LastDelim))
      <4>1. n # 0
        <5> SUFFICES ASSUME n = 0 PROVE FALSE
          OBVIOUS
        <5>1. b = PRINTER /\ LastDelim
          BY <1>6, <3>4
        <5> QED BY <1>10, <3>4, <5>1 DEF Ends, PollSeen, LastDelim
      <4>2. n > 1 \/ (n = 1 /\ LastDelim')
        BY <1>6, <2>2, <4>1 DEF LastDelim
      <4> QED BY <2>1, <3>4, <4>2 DEF Due, n, t
    <3> QED BY <1>6, <2>3, <3>1, <3>2, <3>3, <3>4 DEF Due, s
  <2>6. buffer_len' + n = m + (n + 1)
    BY <1>6, <1>8, <2>1
  <2>4. Due' \/ Little(buffer_len' + n)
    BY <1>7, <2>1, <2>3, <2>6 DEF Little, n
  <2>5. 5 + n <= BufSize /\ (buffer_len' + n <= BufSize \/ Waiting')
    <3>1. CASE Waiting
      <4>1. b # DISPLAY
        BY <1>10, <3>1 DEF Waiting, Ends, DisplayEnds
      <4>2. Waiting'
        <5>1. header_state' = "SS_UNKNOWN" /\ buffer_len' = m + 1
          BY <2>1, <3>1 DEF Waiting
        <5>2. PICK i \in 1..n : t[i] = DISPLAY /\ (m + 1) + i <= BufSize
          BY <1>a, <3>1, <4>1
        <5> QED BY <5>1, <5>2 DEF Waiting, t, n
      <4> QED BY <1>6, <1>7, <1>8, <4>2
    <3>2. CASE m + (n + 1) <= BufSize
      BY <1>6, <1>7, <1>8, <2>6, <3>2
    <3> QED BY <1>7, <3>1, <3>2
  <2>7. Proper(t)
    BY <1>6
  <2> QED BY <1>9, <2>1, <2>2, <2>4, <2>5, <2>7 DEF RoomInv, Little, t, n
<1> DEFINE Room == Due' \/ buffer_len' + n <= 5
<1>11. CASE Begins(b) /\ fault' = "none"
  <2>1. buffer_len' \in 0..5 /\ (header_state' = "LOG_DATA" => buffer_len' > 0)
    BY <1>11 DEF Begins, AnswerStates
  <2>2. 5 + n <= BufSize /\ buffer_len' + n <= BufSize
    <3>1. n \in Nat /\ 5 + (n + 1) <= BufSize
      BY <1>6, <1>7
    <3> DEFINE k == buffer_len'
    <3> HIDE DEF k
    <3>2. k \in 0..5
      BY <2>1 DEF k
    <3>3. 5 + n <= BufSize /\ k + n <= BufSize
      BY <1>8, <3>1, <3>2
    <3> QED BY <3>3 DEF k
  <2>3. ASSUME b = DELIM, buffer_len' = 1, buffer'[0] = DELIM,
               header_state' \in {"SS_PAUSE", "RPT_DATA", "HST_DATA", "LOG_DATA", "HST_DISPLAY"}
        PROVE  Room
    <3>1. n >= 1 /\ (Has(t, DISPLAY) \/ n <= 1)
      BY <1>6, <2>3, CodesDiffer
    <3>2. LastDelim'
      BY <2>3 DEF LastDelim, LastByte
    <3>3. CASE header_state' \in {"SS_PAUSE", "HST_DISPLAY"}
      <4>1. CASE header_state' = "SS_PAUSE"
        BY <3>1, <4>1 DEF Due, t, n
      <4>2. CASE header_state' = "HST_DISPLAY"
        <5>1. n > 1 \/ n = 1
          BY <1>6, <3>1
        <5>2. header_state' \in PollEnds
          BY <4>2 DEF PollEnds
        <5> QED BY <3>2, <5>1, <5>2 DEF Due, t, n
      <4> QED BY <3>3, <4>1, <4>2
    <3>4. CASE header_state' \in {"RPT_DATA", "HST_DATA", "LOG_DATA"}
      BY <1>6, <1>8, <2>3, <3>1, <3>4 DEF Due, DisplayEnds, t
    <3> QED BY <2>3, <3>3, <3>4
  <2>4. ASSUME b = DISPLAY,
               header_state' \in {"SS_DISPLAY", "RPT_DISPLAY", "HST_DISPLAY", "LOG_DISPLAY"}
        PROVE  Room
    BY <1>6, <2>4 DEF Due, DelimEnds, PollEnds, t, n
  <2>5. ASSUME b = PRINTER, buffer_len' \in 2..5, header_state' \in AnswerStates
        PROVE  Room
    <3>1. CASE n = 0
      <4>1. PICK k \in 2..5 : buffer_len' = k
        BY <2>5
      <4>2. k + 0 <= 5
        BY <4>1
      <4>3. buffer_len' + n <= 5
        BY <3>1, <4>1, <4>2
      <4> QED BY <4>3
    <3>2. CASE n # 0
      <4>1. Has(t, DELIM) /\ header_state' \in DelimEnds
        BY <1>6, <2>5, <3>2 DEF DelimEnds
      <4>2. Due'
        BY <4>1 DEF Due, t
      <4> QED BY <4>2
    <3> QED BY <3>1, <3>2
  <2>6. ASSUME b = SEMI, LastByte = DELIM,
               header_state = "LOG_DISPLAY", header_state' = "LOG_DATA"
        PROVE  Room
    <3>1. LastDelim
      BY <1>8, <2>6 DEF LastDelim, EngineInv, RecordBegun
    <3>2. n >= 1
      BY <1>6, <2>6, CodesDiffer
    <3>3. Has(t, DISPLAY)
      BY <1>6, <1>7, <2>6, <3>1, <3>2, CodesDiffer
    <3> QED BY <2>6, <3>3 DEF Due, DisplayEnds, t
  <2>7. ASSUME b = CR, header_state' = "SS_PAUSE"
        PROVE  Room
    BY <1>6, <2>7, CodesDiffer DEF Due, t, n
  <2>8. Room
    <3> HIDE DEF Room
    <3> QED BY <1>11, <2>3, <2>4, <2>5, <2>6, <2>7 DEF Begins
  <2> QED BY <1>6, <1>9, <1>11, <2>1, <2>2, <2>8 DEF RoomInv, Little, t, n
<1> QED BY <1>5, <1>10, <1>11 DEF ReadOn

LEMMA ProperBehind ==
  ASSUME NEW s \in Seq(Byte), NEW d, NEW t, Behind(s, d, t), Proper(s)
  PROVE  Proper(t)
<1> DEFINE n == Len(t)
<1>1. /\ n \in Nat /\ d \in Nat /\ Len(s) = n + d
      /\ \A i \in 1..n : t[i] = s[i + d]
  BY LenProperties DEF Behind
<1> HIDE DEF n
<1>2. n > 0 => t[n] = PRINTER
  BY <1>1 DEF Proper
<1>3. ASSUME n > 1
      PROVE  t[n - 1] = DELIM
  <2>1. n - 1 \in 1..n /\ (n - 1) + d = (n + d) - 1 /\ n + d > 1
    BY <1>1, <1>3
  <2>2. s[(n + d) - 1] = DELIM
    <3>1. Len(s) > 1 => s[Len(s) - 1] = DELIM
      BY DEF Proper
    <3> QED BY <1>1, <2>1, <3>1
  <2>3. t[n - 1] = s[(n - 1) + d]
    BY <1>1, <2>1
  <2> QED BY <2>1, <2>2, <2>3
<1>4. ASSUME NEW i \in 1..n-2, t[i] = DELIM
      PROVE  \E j \in i+1..n : t[j] = DISPLAY
  <2>1. i + d \in 1..Len(s)-2 /\ i \in 1..n
    BY <1>1, <1>4
  <2>0. s[i + d] = DELIM
    BY <1>1, <1>4, <2>1
  <2>2. PICK j \in (i + d)+1..Len(s) : s[j] = DISPLAY
    BY <2>0, <2>1 DEF Proper
  <2>a. j \in Int /\ (i + d) + 1 <= j /\ j <= n + d
    BY <1>1, <2>1
  <2>3. j - d \in i+1..n /\ j - d \in 1..n /\ (j - d) + d = j
    BY <1>1, <2>1, <2>a
  <2>4. t[j - d] = s[(j - d) + d]
    BY <1>1, <2>3
  <2> QED BY <2>2, <2>3, <2>4
<1> QED BY <1>2, <1>3, <1>4 DEF Proper, n

\* The frame with nothing asked of it: 98, one display record, 98 90
LEMMA ShortFrame == LET f == Frame(<<>>, 1) IN Len(f) = Len(Display) + 3 /\ f[2] = DISPLAY
<1> DEFINE d == <<DELIM>>
           p == <<PRINTER>>
           n == Len(Display)
<1>1. d \in Seq(Byte) /\ p \in Seq(Byte) /\ Len(d) = 1 /\ Len(p) = 1
  BY Codes
<1>2. d \o <<>> = d
  BY <1>1, ConcatEmptySeq
<1> HIDE DEF d, p
<1>3. Burst(1) = Block
  <2>1. Burst(0 + 1) = Burst(0) \o Block /\ Burst(0) = <<>> /\ 0 + 1 = 1
    <3>1. 0 \in Nat /\ 0 + 1 = 1
      OBVIOUS
    <3>2. Burst(0 + 1) = Burst(0) \o Block /\ Burst(0) = <<>>
      BY <3>1, BurstGrows, Zenon
    <3> QED BY <3>1, <3>2
  <2>2. Block \in Seq(Byte)
    BY BlockType
  <2> QED BY <2>1, <2>2, ConcatEmptySeq
<1>4. /\ Block \in Seq(Byte) /\ n \in Nat \ {0} /\ Len(Block) = n + 1 /\ Block[1] = DISPLAY
  BY BlockType, BlockFollows
<1> DEFINE e == d \o Block
<1>5. e \in Seq(Byte) /\ Len(e) = 1 + Len(Block) /\ e[1 + 1] = Block[1]
  <2>1. /\ e \in Seq(Byte) /\ Len(e) = Len(d) + Len(Block)
        /\ \A i \in 1..Len(Block) : e[Len(d) + i] = Block[i]
    BY <1>1, <1>4, JoinAt, Zenon
  <2>2. 1 \in 1..Len(Block)
    BY <1>4
  <2> QED BY <1>1, <2>1, <2>2
<1> HIDE DEF e, n
<1>6. Len(e \o p) = Len(e) + 1 /\ (e \o p)[2] = e[2]
  <2>1. Len(e \o p) = Len(e) + Len(p) /\ \A i \in 1..Len(e) : (e \o p)[i] = e[i]
    BY <1>1, <1>5, JoinAt, Zenon
  <2>2. 2 \in 1..Len(e)
    BY <1>4, <1>5
  <2> QED BY <1>1, <2>1, <2>2
<1>7. Frame(<<>>, 1) = e \o p
  BY <1>2, <1>3 DEF Frame, d, p, e
<1>8. Len(e \o p) = n + 3 /\ (e \o p)[2] = DISPLAY
  BY <1>4, <1>5, <1>6
<1> QED BY <1>7, <1>8 DEF n

\* The engine comes up in the middle of a frame with nothing asked of it.
LEMMA InitRoom == FramesFit /\ LinkInit => RoomInv
<1> SUFFICES ASSUME FramesFit, LinkInit
             PROVE  RoomInv
  OBVIOUS
<1> DEFINE f == Frame(<<>>, 1)
           n == Len(f)
           s == Stream
           m == Len(s)
<1>1. f \in Seq(Byte) /\ Proper(f) /\ n + 5 <= BufSize
  <2>1. f \in Frames
    BY FrameSet
  <2> QED BY <2>1, FrameProper DEF WellFormed
<1>2. PICK k \in 1..n : m_out = SubSeq(f, k, n)
  BY DEF LinkInit
<1>3. s = m_out
  <2>1. LinkTypeOK
    BY InitLinkInv DEF LinkInv
  <2>2. line = <<>>
    BY DEF LinkInit
  <2> QED BY <2>1, <2>2, StreamType
<1>4. Behind(f, k - 1, s)
  BY <1>1, <1>2, <1>3, SubSeqBehind
<1>5. n = Len(Display) + 3 /\ f[2] = DISPLAY
  BY ShortFrame
<1> HIDE DEF f, s, m, n
<1>6. Proper(s)
  BY <1>1, <1>4, ProperBehind
<1>7. m \in Nat /\ n = m + (k - 1) /\ \A i \in 1..m : s[i] = f[i + (k - 1)]
  BY <1>4, LenProperties DEF Behind, m, n
<1>8. Len(Display) \in Nat /\ BufSize \in Nat
  BY DisplayAssumption, LenProperties, ParserAssumption
<1>9. header_state = "SS_UNKNOWN" /\ buffer_len = 0 /\ fault = "none"
  BY DEF LinkInit, Init, ParseOpen
<1>10. Has(s, DISPLAY) \/ m <= Len(Display) + 1
  <2>1. CASE k <= 2
    <3>1. 3 - k \in 1..m /\ (3 - k) + (k - 1) = 2
      BY <1>2, <1>5, <1>7, <1>8, <2>1
    <3> QED BY <1>5, <1>7, <3>1 DEF Has, m
  <2>2. CASE k > 2
    BY <1>2, <1>5, <1>7, <1>8, <2>2
  <2> QED BY <1>2, <2>1, <2>2
<1>11. 5 + m <= BufSize /\ 0 + m <= BufSize
  <2>1. k \in Nat \ {0}
    BY <1>2, <1>7
  <2>2. m <= n
    BY <1>7, <2>1
  <2> QED BY <1>1, <1>7, <1>8, <2>1, <2>2
<1>12. Due \/ Little(0 + m)
  BY <1>7, <1>9, <1>10 DEF Due, Little, DisplayEnds, s
<1> QED BY <1>6, <1>9, <1>11, <1>12 DEF RoomInv, LastDelim, s, m

\* As long as no fopen fails the engine neither overruns its buffer nor meets a
\* stream that is missing, for every display record, dump, log record and frame
\* length that fits the buffer, and every lag, request and schedule.  The room
\* needed is that of the longest frame behind an answer.
THEOREM FramesFitBuffer ==
  FramesFit /\ FALSE \notin FopenResult => (LinkSpec => []NoFault)
<1> SUFFICES ASSUME FramesFit, FALSE \notin FopenResult
             PROVE  LinkSpec => []NoFault
  OBVIOUS
<1> DEFINE Inv == RoomInv /\ "rdg" \in f_open
           Known == LinkInv /\ EngineInv /\ LineInv
<1>1. LinkInit => Inv
  <2>1. LinkInit => "rdg" \in f_open
    BY ParserAssumption DEF LinkInit, Init, ParseOpen
  <2> QED BY <2>1, InitRoom
<1>2. Known /\ LinkInv' /\ Inv /\ [LinkNext]_linkVars => Inv'
  <2> SUFFICES ASSUME Known, LinkInv', Inv, [LinkNext]_linkVars
               PROVE  Inv'
    OBVIOUS
  <2>1. CASE Deliver
    <3>1. "rdg" \in f_open'
      BY <2>1, DeliverHandled, ParseByteNullFree DEF RoomInv
    <3> QED BY <2>1, <3>1, RoomForByte
  <2>2. CASE TakeReply \/ SlotOver
    <3>1. Stream = <<>> /\ Stream' \in Frames /\ UNCHANGED engineVars
      BY <2>2, FrameSent DEF LineInv
    <3> QED BY <3>1, RoomForFrame DEF engineVars, parserVars
  <2>3. CASE \/ SendByte \/ UNCHANGED linkVars
             \/ \E m \in Messages \cup {NoRequest} : Loop(m)
    <3>1. Stream' = Stream
      BY <2>3, SentStays DEF LinkInv, Loop, linkVars, masterVars, Stream
    <3>2. UNCHANGED <<fault, buffer, buffer_len, header_state, f_open>>
      BY <2>3 DEF SendByte, Loop, LoopHead, linkVars, engineVars, parserVars
    <3> QED BY <3>1, <3>2 DEF RoomInv, Waiting, Due, Little, LastDelim, LastByte
  <2> QED BY <2>1, <2>2, <2>3 DEF LinkNext
<1>3. Inv => NoFault
  BY DEF RoomInv, NoFault
<1>4. LinkSpec => []Known
  BY LineInvariant, PTL
<1> QED BY <1>1, <1>2, <1>3, <1>4, PTL DEF LinkSpec

-----------------------------------------------------------------------------
(* The frame that carries a record *)

\* What follows the payload of a frame
Rear(n) == Burst(n) \o <<PRINTER>>

LEMMA RearShape ==
  ASSUME NEW n \in Nat \ {0}
  PROVE  /\ Rear(n) \in Seq(Byte) /\ Len(Rear(n)) > 0 /\ Rear(n) # <<>>
         /\ Rear(n)[1] = DISPLAY /\ Unmarked(Rear(n))
<1> DEFINE p == <<PRINTER>>
           s == Burst(n)
<1>1. /\ s \in Seq(Byte) /\ Unmarked(s) /\ s # <<>> /\ Len(s) > 0 /\ s[1] = DISPLAY
  BY BurstFollows, BurstShapes DEF BurstShape, Follows
<1>2. p \in Seq(Byte)
  BY Codes
<1>3. Unmarked(s \o p)
  BY <1>1, PrinterBehind
<1> HIDE DEF p, s
<1>4. /\ s \o p \in Seq(Byte) /\ Len(s) \in Nat /\ Len(p) \in Nat /\ Len(s \o p) = Len(s) + Len(p)
      /\ \A i \in 1..Len(s) : (s \o p)[i] = s[i]
  BY <1>1, <1>2, JoinAt
<1>5. 1 \in 1..Len(s) /\ Len(s \o p) > 0
  BY <1>1, <1>4
<1>6. s \o p # <<>>
  BY <1>4, <1>5, EmptySeq
<1> QED BY <1>1, <1>3, <1>4, <1>5, <1>6 DEF Rear, p, s

LEMMA FrameParts ==
  ASSUME NEW t \in Text, NEW n \in Nat \ {0}
  PROVE  /\ Frame(t, n) = <<DELIM>> \o (t \o Rear(n))
         /\ t \o Rear(n) \in Seq(Byte)
<1> DEFINE p == <<PRINTER>>
           d == <<DELIM>>
           s == Burst(n)
<1>1. /\ p \in Seq(Byte) /\ d \in Seq(Byte) /\ s \in Seq(Byte) /\ t \in Seq(Byte)
  BY Codes, BurstGrows, TextIsBytes
<1> HIDE DEF p, d, s
<1>2. /\ Join(Join(Join(d, t), s), p) = Join(d, Join(t, Join(s, p)))
      /\ Join(t, Join(s, p)) \in Seq(Byte)
  BY <1>1, Regroup
<1> QED BY <1>2 DEF Join, Frame, Rear, p, d, s

\* The 0x98 in front of the payload
LEMMA FrameOpens ==
  ASSUME LinkInv, Deliver, NEW t \in Text, NEW n \in Nat \ {0}, Stream = Frame(t, n)
  PROVE  Head(line) = DELIM /\ Stream' = t \o Rear(n)
<1>1. Stream = <<Head(line)>> \o Stream' /\ Head(line) \in Byte /\ Stream' \in Seq(Byte)
  BY DeliveredFirst DEF LinkInv, Behind
<1>2. Stream = <<DELIM>> \o (t \o Rear(n)) /\ t \o Rear(n) \in Seq(Byte) /\ DELIM \in Byte
  BY FrameParts, Codes
<1> DEFINE a == Head(line)
           y == Stream'
           b == DELIM
           z == t \o Rear(n)
<1>3. a \in Byte /\ b \in Byte /\ y \in Seq(Byte) /\ z \in Seq(Byte) /\ <<a>> \o y = <<b>> \o z
  BY <1>1, <1>2, Zenon
<1> HIDE DEF a, y, b, z
<1>4. a = b /\ y = z
  BY <1>3, SameHead, Zenon
<1> QED BY <1>4 DEF a, y, b, z

\* A byte of the payload
LEMMA PayloadRead ==
  ASSUME LinkInv, Deliver, NEW v \in Text, NEW n \in Nat \ {0}, Stream = v \o Rear(n),
         v # <<>>
  PROVE  /\ Head(line) = Head(v) /\ Head(v) \in Byte \ LineCodes /\ Stream' = Tail(v) \o Rear(n)
         /\ Tail(v) \in Text /\ v = <<Head(v)>> \o Tail(v)
<1> DEFINE h == Head(v)
           w == Tail(v)
           r == Rear(n)
           q == <<h>>
<1>1. Stream = <<Head(line)>> \o Stream' /\ Head(line) \in Byte /\ Stream' \in Seq(Byte)
  BY DeliveredFirst DEF LinkInv, Behind
<1>2. h \in Byte \ LineCodes /\ w \in Text
  BY HeadTailProperties DEF Text
<1>3. v \in Seq(Byte) /\ w \in Seq(Byte) /\ r \in Seq(Byte)
  BY <1>2, TextIsBytes, RearShape
<1>4. v = q \o w
  BY <1>3, HeadFirst
<1>5. q \in Seq(Byte)
  BY <1>2
<1> HIDE DEF r, w, h
<1>6. (q \o w) \o r = q \o (w \o r) /\ w \o r \in Seq(Byte)
  <2> HIDE DEF q
  <2>1. w \o r \in Seq(Byte)
    BY <1>3, JoinAt, Zenon
  <2>2. Join(Join(q, w), r) = Join(q, Join(w, r))
    BY <1>3, <1>5, Regroup
  <2> QED BY <2>1, <2>2 DEF Join
<1>7. Stream = <<h>> \o (w \o r)
  BY <1>4, <1>6 DEF r
<1>8. Head(line) = h /\ Stream' = w \o r
  <2>1. h \in Byte
    BY <1>2 DEF h
  <2> DEFINE z == w \o r
  <2>2. z \in Seq(Byte) /\ <<Head(line)>> \o Stream' = <<h>> \o z
    BY <1>1, <1>6, <1>7
  <2> HIDE DEF z
  <2>3. Head(line) = h /\ Stream' = z
    <3> DEFINE a == Head(line)
               y == Stream'
    <3>1. a \in Byte /\ y \in Seq(Byte) /\ <<a>> \o y = <<h>> \o z
      BY <1>1, <2>2
    <3> HIDE DEF a, y, h
    <3>2. a = h /\ y = z
      <4>1. a \in Byte /\ h \in Byte /\ y \in Seq(Byte) /\ z \in Seq(Byte) /\ <<a>> \o y = <<h>> \o z
        BY <2>1, <2>2, <3>1
      <4> QED BY ONLY <4>1, SameHead, Zenon
    <3> QED BY <3>2 DEF a, y
  <2> QED BY <2>3 DEF z
<1> QED BY <1>2, <1>4, <1>8 DEF h, w, r, q

\* The 0x91 behind it
LEMMA PayloadOver ==
  ASSUME LinkInv, Deliver, NEW v, NEW n \in Nat \ {0}, Stream = v \o Rear(n), v = <<>>
  PROVE  Head(line) = DISPLAY /\ Stream = Rear(n)
<1>1. Stream[1] = Head(line)
  BY DeliveredFirst DEF LinkInv
<1>2. Rear(n) \in Seq(Byte) /\ Rear(n)[1] = DISPLAY
  BY RearShape
<1>3. <<>> \o Rear(n) = Rear(n)
  BY <1>2, ConcatEmptySeq
<1> QED BY <1>1, <1>2, <1>3
-----------------------------------------------------------------------------
(* What is written when, and where the dump stands *)

\* The handlers of the session behind data file f
StartOf(f) == IF f = "rpt" THEN "RPT_START" ELSE "HST_START"
AsksIn(f) ==
  IF f = "rpt" THEN {"RPT_START", "RPT_PRINTER"} ELSE {"HST_START", "HST_PRINTER_ACTIVE"}
DataOf(f) == IF f = "rpt" THEN "RPT_DATA" ELSE "HST_DATA"
ShowsIn(f) == IF f = "rpt" THEN "RPT_DISPLAY" ELSE "HST_DISPLAY"
DumpOf(f) == IF f = "rpt" THEN ReportRecords ELSE HistoryRecords

\* A frame with payload t is still to be read, or there is none.
AtFrame(t) ==
  \/ Stream = <<>> /\ t = <<>>
  \/ \E n \in Nat \ {0} : Stream = Frame(t, n)

\* Part of payload t has been read.
InPayload(t) ==
  \E u \in Text, v \in Text, n \in Nat \ {0} :
    Contents = <<DELIM>> \o u /\ t = u \o v /\ Stream = v \o Rear(n)

\* t is on its way and will be read as a record of f; <<>> when there is none.
Ahead(f, t) ==
  \/ header_state \in AsksIn(f) /\ AtFrame(t) /\ (header_state = "HST_START" => t = <<>>)
  \/ header_state = DataOf(f) /\ InPayload(t)
  \/ header_state = ShowsIn(f) /\ t = <<>>

\* The file with t behind it holds the first k records.
First(f, k) == FlattenSeq(SubSeq(DumpOf(f), 1, k))
WrittenUp(f, k, t) ==
  f \in f_open \/ header_state = StartOf(f)
    => (IF header_state = StartOf(f) THEN <<>> ELSE saved) \o t = First(f, k)

\* k records are sent, the others are still to come.
Running(f) ==
  \E k \in 0..Len(DumpOf(f))-1, t \in Text :
    m_todo = SubSeq(DumpOf(f), k + 1, Len(DumpOf(f))) /\ Ahead(f, t) /\ WrittenUp(f, k, t)

\* The last record is on its way.
Ending(f) == \E t \in Text : EndsDump(t) /\ Ahead(f, t) /\ WrittenUp(f, Len(DumpOf(f)), t)

DumpInv ==
  fault = "none" =>
    /\ m_mode = "report" => Running("rpt")
    /\ m_mode = "history" => Running("hst")
    /\ Quiet \/ Ending("rpt") \/ Ending("hst")

LEMMA HandlerOf ==
  ASSUME NEW b, ParseByte(b)
  PROVE  /\ header_state = "RPT_START" => RPT_Start(b)
         /\ header_state = "RPT_PRINTER" => RPT_Printer(b)
         /\ header_state = "RPT_DATA" => RPT_Data(b)
         /\ header_state = "RPT_DISPLAY" => RPT_Display(b)
         /\ header_state = "HST_START" => HST_Start(b)
         /\ header_state = "HST_PRINTER_ACTIVE" => HST_Printer_Active(b)
         /\ header_state = "HST_DATA" => HST_Data(b)
         /\ header_state = "HST_DISPLAY" => HST_Display(b)
BY DEF ParseByte, SS_Unknown, SS_Pause, SS_Display, SS_Printer, RPT_Start, RPT_Data,
       RPT_Display, RPT_Printer, HST_Start, HST_Display, HST_Printer, HST_Printer_Active,
       HST_Data, LOG_Start, LOG_Data, LOG_Display, LOG_Printer, LOG_Printer_Active

LEMMA SavedNot ==
  ASSUME Save, f_open' \subseteq f_open, wrote'.file \notin {"rpt", "hst"}
  PROVE  saved' = saved
<1>1. {"rpt", "hst"} \cap (f_open' \ f_open) = {}
  OBVIOUS
<1> QED BY <1>1 DEF Save

LEMMA SavedAnew ==
  ASSUME Save, NEW f \in {"rpt", "hst"}, f \in f_open', f \notin f_open
  PROVE  saved' = <<>>
<1>1. {"rpt", "hst"} \cap (f_open' \ f_open) # {}
  OBVIOUS
<1> QED BY <1>1 DEF Save

LEMMA DelimFirst ==
  ASSUME NEW u \in Text, NEW c, c = <<DELIM>> \o u
  PROVE  /\ c \in Seq(Byte) /\ Len(c) = 1 + Len(u) /\ Len(u) \in Nat
         /\ \A i \in 1..Len(u) : c[1 + i] = u[i]
         /\ SubSeq(c, 2, Len(c)) = u
<1> DEFINE d == <<DELIM>>
<1>1. d \in Seq(Byte) /\ Len(d) = 1 /\ u \in Seq(Byte) /\ DELIM \in Byte
  BY Codes, TextIsBytes
<1>2. c = d \o u
  OBVIOUS
<1> HIDE DEF d
<1>3. /\ c \in Seq(Byte) /\ Len(c) = Len(d) + Len(u) /\ Len(u) \in Nat
      /\ \A i \in 1..Len(u) : c[Len(d) + i] = u[i]
  BY <1>1, <1>2, JoinAt
<1>4. c # <<>>
  BY <1>1, <1>3, EmptySeq
<1>5. /\ c = <<Head(c)>> \o Tail(c) /\ Head(c) \in Byte /\ Tail(c) \in Seq(Byte)
      /\ Tail(c) = SubSeq(c, 2, Len(c))
  BY <1>3, <1>4, HeadFirst, HeadTailProperties, TailIsSubSeq
<1> DEFINE w == Tail(c)
<1>6. 1 \in 1..Len(d) /\ d[1] = DELIM /\ c[1] = Head(c)
  BY <1>3, <1>4 DEF d
<1>7. Head(c) = DELIM
  <2>1. c[1] = d[1]
    BY <1>1, <1>2, <1>6, JoinAt
  <2> QED BY <1>6, <2>1
<1>8. w = u
  <2>1. c = d \o w /\ w \in Seq(Byte)
    BY <1>5, <1>7 DEF d
  <2> HIDE DEF w
  <2> QED BY <1>1, <1>2, <2>1, ConcatSimplifications
<1> QED BY <1>1, <1>3, <1>5, <1>8 DEF w

\* The 0x98 in front of the payload is not among what is saved.
LEMMA SavedRecord ==
  ASSUME Save, f_open' \subseteq f_open, NEW f \in {"rpt", "hst"}, NEW u \in Text,
         Contents = <<DELIM>> \o u, wrote' = [file |-> f, data |-> Contents]
  PROVE  saved' = saved \o u
<1> DEFINE c == Contents
<1>1. SubSeq(c, 2, Len(c)) = u
  BY DelimFirst
<1>2. {"rpt", "hst"} \cap (f_open' \ f_open) = {}
  OBVIOUS
<1>3. wrote'.file = f /\ wrote'.data = c
  OBVIOUS
<1> HIDE DEF c
<1>4. saved' = saved \o SubSeq(c, 2, Len(c))
  BY <1>2, <1>3 DEF Save
<1> QED BY <1>1, <1>4

LEMMA MarkRead ==
  ASSUME ParserTypeOK, NEW t \in Text, EndsDump(t), Contents = <<DELIM>> \o t, NEW oob
  PROVE  MarkAt(oob)
<1> DEFINE c == Contents
           m == Len(t)
<1>1. t \in Seq(Byte)
  BY TextIsBytes
<1>2. Len(c) = buffer_len /\ buffer_len \in Nat
  BY ContentsType DEF ParserTypeOK
<1>a. \A i \in 1..buffer_len : c[i] = buffer[i - 1]
  BY DEF Contents
<1>b. /\ Len(c) = 1 + m /\ m \in Nat
      /\ \A i \in 1..m : c[1 + i] = t[i]
  BY DelimFirst
<1> HIDE DEF c
<1>3. /\ buffer_len = 1 + m /\ m \in Nat
      /\ \A i \in 1..m : c[1 + i] = t[i]
  BY <1>2, <1>b
<1> HIDE DEF m
<1>4. m >= 5 /\ SubSeq(t, m - 4, m) = EndMark
  BY DEF EndsDump, m
<1>5. \A i \in 1..5 : EndMark[i] = t[(m - 4) + i - 1]
  <2>1. m - 4 \in Int /\ m \in Int /\ \A i \in (m - 4)..m : t[i] \in Byte
    BY <1>1, <1>3, <1>4, ElementOfSeq DEF m
  <2>2. \A i \in 1..(m - (m - 4) + 1) : SubSeq(t, m - 4, m)[i] = t[(m - 4) + i - 1]
    BY <2>1, SubSeqProperties
  <2>3. m - (m - 4) + 1 = 5
    BY <1>3
  <2> QED BY <1>4, <2>2, <2>3
<1>6. ASSUME NEW k \in 1..5
      PROVE  buffer[buffer_len - k] = EndMark[6 - k]
  <2>1. 6 - k \in 1..5 /\ (m - 4) + (6 - k) - 1 = (m + 1) - k
    BY <1>3
  <2>2. (m + 1) - k \in 1..m /\ 1 + ((m + 1) - k) = (buffer_len - k) + 1
    BY <1>3, <1>4
  <2>3. (buffer_len - k) + 1 \in 1..buffer_len /\ ((buffer_len - k) + 1) - 1 = buffer_len - k
    BY <1>3, <1>4
  <2>4. c[(buffer_len - k) + 1] = buffer[buffer_len - k]
    BY <1>a, <2>3
  <2>5. c[(buffer_len - k) + 1] = t[(m + 1) - k]
    BY <1>3, <2>2
  <2> QED BY <1>5, <2>1, <2>4, <2>5
<1> QED BY <1>3, <1>4, <1>6 DEF MarkAt

-----------------------------------------------------------------------------
(* One byte of a dump *)

Sessions == {"rpt", "hst"}

LEMMA DumpNames ==
  ASSUME NEW f \in Sessions
  PROVE  /\ StartOf(f) \in AsksIn(f) /\ DataOf(f) \notin AsksIn(f) /\ ShowsIn(f) \notin AsksIn(f)
         /\ DataOf(f) # ShowsIn(f) /\ StartOf(f) # DataOf(f) /\ StartOf(f) # ShowsIn(f)
         /\ DumpOf(f) \in {ReportRecords, HistoryRecords}
BY DEF Sessions, StartOf, AsksIn, DataOf, ShowsIn, DumpOf

LEMMA FirstStays ==
  ASSUME NEW f, NEW k
  PROVE  First(f, k)' = First(f, k)
BY DEF First, DumpOf

\* The session goes on: what is saved, with t behind it, is what it was.
LEMMA StillWritten ==
  ASSUME LinkInv, EngineInv, Deliver, NEW f \in Sessions, NEW k, NEW t, NEW u, WrittenUp(f, k, t),
         header_state' # StartOf(f),
         \/ /\ header_state # StartOf(f) /\ f_open' = f_open
            /\ saved' \o u = saved \o t \/ f \notin f_open
         \/ /\ header_state = StartOf(f) /\ u = t
  PROVE  WrittenUp(f, k, u)'
<1>1. First(f, k)' = First(f, k)
  BY FirstStays
<1> SUFFICES ASSUME f \in f_open'
             PROVE  saved' \o u = First(f, k)
  BY <1>1 DEF WrittenUp
<1>2. CASE header_state # StartOf(f)
  BY <1>2 DEF WrittenUp
<1>3. CASE header_state = StartOf(f)
  <2>1. f \notin f_open
    BY <1>3 DEF EngineInv, IInv, ControlInv, FilesFollowSessions, SessionHas, Sessions, StartOf,
       ReportStates, HistoryStates
  <2>2. saved' = <<>>
    BY <2>1, SavedAnew DEF Deliver, Sessions
  <2> QED BY <1>3, <2>2 DEF WrittenUp
<1> QED BY <1>2, <1>3

\* A record begins: its 0x98 is in the buffer, its payload still in the stream.
LEMMA PayloadBegins ==
  ASSUME LinkInv, EngineInv, Deliver, NEW t \in Text, NEW n \in Nat \ {0}, Stream' = t \o Rear(n),
         NEW state, Goto(state, <<DELIM>>)
  PROVE  InPayload(t)'
<1>1. ParserTypeOK
  BY DeliverHandled
<1>2. Record(<<DELIM>>)
  BY Codes DEF Record
<1>3. Contents' = <<DELIM>>
  BY <1>1, <1>2, FilledContents DEF Goto
<1>4. <<>> \in Text /\ <<DELIM>> \o <<>> = <<DELIM>> /\ <<>> \o t = t
  <2>1. <<DELIM>> \in Seq(Byte) /\ t \in Seq(Byte) /\ <<>> \in Text
    BY Codes, TextIsBytes DEF Text
  <2> QED BY <2>1, ConcatEmptySeq
<1> QED BY <1>3, <1>4 DEF InPayload

LEMMA AskedStep ==
  ASSUME LinkInv, EngineInv, Deliver, fault' = "none", NEW f \in Sessions, NEW k, NEW t \in Text,
         header_state \in AsksIn(f), Ahead(f, t), WrittenUp(f, k, t)
  PROVE  Ahead(f, t)' /\ WrittenUp(f, k, t)'
<1> DEFINE b == Head(line)
<1>1. ParseByte(b) /\ Stream # <<>> /\ Save
  BY DeliverHandled, DeliveredFirst DEF LinkInv, Deliver
<1>2. AtFrame(t) /\ (header_state = "HST_START" => t = <<>>)
  BY DumpNames DEF Ahead
<1>3. PICK n \in Nat \ {0} : Stream = Frame(t, n)
  BY <1>1, <1>2 DEF AtFrame
<1>4. b = DELIM /\ Stream' = t \o Rear(n)
  BY <1>3, FrameOpens
<1> HIDE DEF b
<1>5. CASE header_state = "HST_START"
  <2>1. HST_Start(b)
    BY <1>1, <1>5, HandlerOf
  <2>2. header_state' = "HST_DISPLAY" /\ f = "hst"
    BY <1>4, <1>5, <2>1 DEF HST_Start, NullStream, Dies, Goto, Sessions, AsksIn
  <2>3. Ahead(f, t)'
    BY <1>2, <1>5, <2>2 DEF Ahead, ShowsIn
  <2>4. WrittenUp(f, k, t)'
    BY <1>5, <2>2, StillWritten DEF StartOf
  <2> QED BY <2>3, <2>4
<1>6. CASE header_state # "HST_START"
  <2>1. /\ Goto(DataOf(f), <<DELIM>>)
        /\ header_state # StartOf(f) => f_open' = f_open /\ wrote' = Nothing
    <3>1. CASE header_state = "RPT_START"
      <4>1. RPT_Start(b) /\ f = "rpt"
        BY <1>1, <3>1, HandlerOf DEF Sessions, AsksIn
      <4> QED BY <1>4, <3>1, <4>1 DEF RPT_Start, NullStream, Dies, DataOf, StartOf
    <3>2. CASE header_state = "RPT_PRINTER"
      <4>1. RPT_Printer(b) /\ f = "rpt"
        BY <1>1, <3>2, HandlerOf DEF Sessions, AsksIn
      <4> QED BY <1>4, <4>1 DEF RPT_Printer, Enter, DataOf, Silent, NoWrite
    <3>3. CASE header_state = "HST_PRINTER_ACTIVE"
      <4>1. HST_Printer_Active(b) /\ f = "hst"
        BY <1>1, <3>3, HandlerOf DEF Sessions, AsksIn
      <4> QED BY <1>4, <4>1 DEF HST_Printer_Active, Enter, DataOf, Silent, NoWrite
    <3> QED BY <1>6, <3>1, <3>2, <3>3 DEF Sessions, AsksIn
  <2>2. header_state' = DataOf(f)
    BY <2>1 DEF Goto
  <2>3. InPayload(t)'
    BY <1>4, <2>1, PayloadBegins
  <2>4. Ahead(f, t)'
    BY <2>2, <2>3 DEF Ahead, DataOf
  <2>5. CASE header_state # StartOf(f)
    <3>1. saved' = saved
      BY <1>1, <2>1, <2>5, SavedNot DEF Nothing
    <3> QED BY <2>1, <2>2, <2>4, <2>5, <3>1, StillWritten, DumpNames
  <2>6. CASE header_state = StartOf(f)
    BY <2>2, <2>4, <2>6, StillWritten, DumpNames
  <2> QED BY <2>5, <2>6
<1> QED BY <1>5, <1>6

LEMMA PayloadGrows ==
  ASSUME NEW u \in Text, NEW v \in Text, v # <<>>
  PROVE  /\ Append(u, Head(v)) \in Text
         /\ Append(<<DELIM>> \o u, Head(v)) = <<DELIM>> \o Append(u, Head(v))
         /\ u \o v = Append(u, Head(v)) \o Tail(v)
<1> DEFINE h == Head(v)
           w == Tail(v)
           q == <<h>>
           d == <<DELIM>>
<1>1. h \in Byte \ LineCodes /\ v \in Seq(Byte) /\ u \in Seq(Byte)
  BY HeadTailProperties, TextIsBytes DEF Text
<1>2. v = q \o w /\ w \in Seq(Byte)
  BY <1>1, HeadFirst, HeadTailProperties
<1>3. q \in Seq(Byte) /\ d \in Seq(Byte) /\ h \in Byte
  BY <1>1, Codes
<1>4. Append(u, h) \in Text
  BY <1>1, AppendProperties DEF Text
<1> HIDE DEF h
<1>5. Append(u, h) = u \o q
  BY <1>1, <1>3, AppendIsConcat
<1> HIDE DEF q, w, d
<1>6. Join(Join(u, q), w) = Join(u, Join(q, w))
  BY <1>1, <1>2, <1>3, Regroup
<1>7. Join(Join(d, u), q) = Join(d, Join(u, q))
  BY <1>1, <1>3, Regroup
<1>8. d \o u \in Seq(Byte)
  BY <1>1, <1>3, JoinAt
<1>9. Append(d \o u, h) = (d \o u) \o q
  BY <1>3, <1>8, AppendIsConcat DEF q
<1> QED BY <1>2, <1>4, <1>5, <1>6, <1>7, <1>9 DEF Join, h, w, d

LEMMA RecordWritten ==
  ASSUME Save, f_open' \subseteq f_open, NEW f \in Sessions, NEW t \in Text,
         Contents = <<DELIM>> \o t, WriteIfOpen(f, Contents), f \in f_open
  PROVE  saved' = saved \o t
<1>1. wrote' = [file |-> f, data |-> Contents]
  BY DEF WriteIfOpen
<1> QED BY <1>1, SavedRecord DEF Sessions

\* What becomes of a payload: more of it is read, it is written and its session
\* goes on, or it is written and its session is over.
Turns(f, k, t) == Ahead(f, <<>>)' /\ WrittenUp(f, k, <<>>)' /\ ~EndsDump(t)
Leaves(f, k) ==
  header_state' \in {"LOG_DISPLAY", "SS_DISPLAY"} /\ Quiet' /\ (f \in f_open => saved' = First(f, k))

LEMMA PayloadStep ==
  ASSUME LinkInv, EngineInv, Deliver, fault' = "none", NEW f \in Sessions, NEW k,
         NEW u \in Text, NEW v \in Text, NEW n \in Nat \ {0}, v # <<>>,
         Contents = <<DELIM>> \o u, Stream = v \o Rear(n),
         header_state = DataOf(f), WrittenUp(f, k, u \o v)
  PROVE  Ahead(f, u \o v)' /\ WrittenUp(f, k, u \o v)'
<1> DEFINE b == Head(line)
           t == u \o v
<1>1. ParseByte(b) /\ Save /\ ParserTypeOK
  BY DeliverHandled DEF Deliver
<1>2. /\ b = Head(v) /\ Head(v) \in Byte \ LineCodes /\ Stream' = Tail(v) \o Rear(n)
      /\ Tail(v) \in Text
  BY PayloadRead
<1>3. b \in Byte /\ b # DISPLAY
  BY <1>2 DEF LineCodes
<1> HIDE DEF b
<1>4. Accumulate(b)
  <2>1. f = "rpt" => RPT_Data(b)
    BY <1>1, HandlerOf DEF DataOf
  <2>2. f = "hst" => HST_Data(b)
    BY <1>1, HandlerOf DEF DataOf, Sessions
  <2> QED BY <1>3, <2>1, <2>2 DEF RPT_Data, HST_Data, Sessions
<1>5. Contents' = Append(Contents, b)
  BY <1>1, <1>3, <1>4, PushedContents DEF Accumulate
<1>6. InPayload(t)'
  <2>1. /\ Contents' = <<DELIM>> \o Append(u, Head(v)) /\ Append(u, Head(v)) \in Text
        /\ t = Append(u, Head(v)) \o Tail(v)
    BY <1>2, <1>5, PayloadGrows
  <2> QED BY <1>2, <2>1 DEF InPayload
<1>7. header_state' = header_state /\ f_open' = f_open /\ wrote' = Nothing
  BY <1>4 DEF Accumulate, Silent, NoWrite
<1>8. Ahead(f, t)'
  BY <1>6, <1>7 DEF Ahead, DataOf
<1>9. saved' = saved
  BY <1>1, <1>7, SavedNot DEF Nothing
<1>10. WrittenUp(f, k, t)'
  BY <1>7, <1>9, StillWritten, DumpNames
<1> QED BY <1>8, <1>10

\* The 0x91 is in the buffer by itself, and what follows it holds no mark.
LEMMA QuietEnds ==
  ASSUME LinkInv, EngineInv, Deliver, NEW n \in Nat \ {0}, Stream = Rear(n),
         NEW state, Goto(state, <<DISPLAY>>), Head(line) = DISPLAY
  PROVE  Quiet'
<1>1. ParserTypeOK
  BY DeliverHandled
<1>2. Record(<<DISPLAY>>)
  BY Codes DEF Record
<1>3. Contents' = <<DISPLAY>>
  BY <1>1, <1>2, FilledContents DEF Goto
<1>4. Stream = <<DISPLAY>> \o Stream'
  BY DeliveredFirst DEF LinkInv
<1>5. Unmarked(Stream)
  BY RearShape
<1>6. Unmarked(Contents' \o Stream')
  BY <1>3, <1>4, <1>5
<1> QED BY <1>6 DEF Quiet, Unmarked, Marked

LEMMA PayloadEnds ==
  ASSUME LinkInv, EngineInv, Deliver, fault' = "none", NEW f \in Sessions, NEW k,
         NEW t \in Text, NEW n \in Nat \ {0},
         Contents = <<DELIM>> \o t, Stream = Rear(n), Head(line) = DISPLAY,
         header_state = DataOf(f), WrittenUp(f, k, t)
  PROVE  Turns(f, k, t) \/ Leaves(f, k)
<1>1. ParseByte(DISPLAY) /\ Save /\ ParserTypeOK
  BY DeliverHandled DEF Deliver
<1>2. \/ /\ WriteIfOpen(f, Contents) /\ f_open' = f_open /\ header_state' = ShowsIn(f)
         /\ \E oob \in BOOLEAN : ~MarkAt(oob)
      \/ /\ WriteIfOpen(f, Contents) /\ f_open' \subseteq f_open
         /\ Goto(AfterSession, <<DISPLAY>>)
  <2>1. PICK down \in BOOLEAN : down = FALSE
    OBVIOUS
  <2>2. CASE f = "rpt"
    <3>1. RPT_Data(DISPLAY)
      BY <1>1, <2>2, HandlerOf DEF DataOf
    <3>2. CASE MarkAt(FALSE)
      BY <2>2, <3>1, <3>2 DEF RPT_Data, CloseFile
    <3>3. CASE ~MarkAt(down)
      <4>1. \E oob \in BOOLEAN : ~MarkAt(oob)
        BY <3>3
      <4> QED BY <2>1, <2>2, <3>1, <3>3, <4>1 DEF RPT_Data, Goto, ShowsIn
    <3> QED BY <2>1, <3>2, <3>3
  <2>3. CASE f = "hst"
    <3>1. HST_Data(DISPLAY)
      BY <1>1, <2>3, HandlerOf DEF DataOf
    <3> QED BY <2>3, <3>1 DEF HST_Data, CloseFile, NullStream, Dies, Goto, ShowsIn
  <2> QED BY <2>2, <2>3 DEF Sessions
<1>3. f_open' \subseteq f_open /\ WriteIfOpen(f, Contents)
  BY <1>2
<1>4. f \in f_open => saved' = saved \o t
  BY <1>1, <1>3, RecordWritten
<1>5. f \in f_open => saved \o t = First(f, k)
  BY DumpNames DEF WrittenUp
<1>6. CASE f_open' = f_open /\ header_state' = ShowsIn(f) /\ \E oob \in BOOLEAN : ~MarkAt(oob)
  <2>1. ~EndsDump(t)
    BY <1>1, <1>6, MarkRead
  <2>2. Ahead(f, <<>>)'
    BY <1>6 DEF Ahead, ShowsIn
  <2>3. saved' \o <<>> = saved'
    <3>1. saved' \in Seq(Byte)
      BY NextLinkInv DEF LinkInv, LinkTypeOK, LinkNext
    <3> QED BY <3>1, ConcatEmptySeq
  <2>4. WrittenUp(f, k, <<>>)'
    <3>1. header_state' # StartOf(f) /\ header_state # StartOf(f)
      BY <1>6, DumpNames
    <3>2. saved' \o <<>> = saved \o t \/ f \notin f_open
      BY <1>4, <2>3
    <3> QED BY <1>6, <3>1, <3>2, StillWritten
  <2> QED BY <2>1, <2>2, <2>4 DEF Turns
<1>7. CASE Goto(AfterSession, <<DISPLAY>>)
  <2>1. Quiet'
    BY <1>7, QuietEnds
  <2>2. header_state' \in {"LOG_DISPLAY", "SS_DISPLAY"}
    BY <1>7 DEF Goto, AfterSession
  <2> QED BY <1>4, <1>5, <2>1, <2>2 DEF Leaves
<1> QED BY <1>2, <1>6, <1>7

\* Between two records: the display, then the poll, which is the last byte sent.
LEMMA ShownStep ==
  ASSUME LinkInv, EngineInv, LineInv, Deliver, fault' = "none", NEW f \in Sessions, NEW k,
         header_state = ShowsIn(f), WrittenUp(f, k, <<>>)
  PROVE  Ahead(f, <<>>)' /\ WrittenUp(f, k, <<>>)'
<1> DEFINE b == Head(line)
<1>1. ParseByte(b) /\ Save /\ ParserTypeOK /\ Active /\ RecordBegun
  BY DeliverHandled DEF Deliver, EngineInv
<1>2. Stream' = <<>> \/ ~PollSeen(b)
  <2> SUFFICES ASSUME PollSeen(b)
               PROVE  Stream' = <<>>
    OBVIOUS
  <2>1. buffer_len > 0
    BY <1>1 DEF RecordBegun, ShowsIn, ParserTypeOK
  <2>2. Polled
    BY <1>1, <2>1, LastOfContents, DeliverHandled DEF Polled, PollSeen
  <2>3. Stream # <<>> /\ Stream[1] = b /\ Behind(Stream, 1, Stream')
    BY DeliveredFirst DEF LinkInv
  <2>4. Len(Stream) = 1
    BY <2>2, <2>3 DEF LineInv, StreamInv, PollSeen
  <2>5. Stream' \in Seq(Byte) /\ Len(Stream') = 0
    <3>1. Stream' \in Seq(Byte) /\ Len(Stream) = Len(Stream') + 1
      BY <2>3 DEF Behind
    <3> DEFINE m == Len(Stream')
    <3>2. m \in Nat /\ 1 = m + 1
      BY <2>4, <3>1, LenProperties
    <3> HIDE DEF m
    <3>3. m = 0
      BY <3>2
    <3> QED BY <3>1, <3>3 DEF m
  <2> QED BY <2>5, EmptySeq
<1>3. /\ f_open' = f_open /\ wrote'.file \notin {"rpt", "hst"}
      /\ \/ header_state' = ShowsIn(f)
         \/ PollSeen(b) /\ header_state' \in AsksIn(f) \ {StartOf(f)}
  <2> HIDE DEF b
  <2>1. CASE f = "rpt"
    <3>1. RPT_Display(b)
      BY <1>1, <2>1, HandlerOf DEF ShowsIn
    <3> QED BY <1>1, <2>1, <3>1 DEF RPT_Display, NullStream, Dies, SaveReading, Nothing, Accumulate,
         Silent, NoWrite, Answer, Goto, ShowsIn, AsksIn, StartOf
  <2>2. CASE f = "hst"
    <3>1. HST_Display(b)
      BY <1>1, <2>2, HandlerOf DEF ShowsIn
    <3> QED BY <1>1, <2>2, <3>1 DEF HST_Display, NullStream, Dies, SaveReading, Nothing, Accumulate,
         Silent, NoWrite, Answer, Goto, ShowsIn, AsksIn, StartOf
  <2> QED BY <2>1, <2>2 DEF Sessions
<1>4. saved' = saved
  BY <1>1, <1>3, SavedNot
<1>5. header_state # StartOf(f) /\ header_state' # StartOf(f)
  BY <1>3, DumpNames
<1>6. WrittenUp(f, k, <<>>)'
  BY <1>3, <1>4, <1>5, StillWritten
<1>7. Ahead(f, <<>>)'
  <2>1. CASE header_state' = ShowsIn(f)
    BY <2>1 DEF Ahead, ShowsIn
  <2>2. CASE PollSeen(b) /\ header_state' \in AsksIn(f)
    BY <1>2, <2>2 DEF Ahead, AtFrame, AsksIn
  <2> QED BY <1>3, <2>1, <2>2
<1> QED BY <1>6, <1>7

LEMMA DumpStep ==
  ASSUME LinkInv, EngineInv, LineInv, Deliver, fault' = "none", NEW f \in Sessions, NEW k,
         NEW t \in Text, Ahead(f, t), WrittenUp(f, k, t)
  PROVE  \/ Ahead(f, t)' /\ WrittenUp(f, k, t)'
         \/ Turns(f, k, t)
         \/ Leaves(f, k)
<1>1. CASE header_state \in AsksIn(f)
  BY <1>1, AskedStep
<1>2. CASE header_state = DataOf(f) /\ InPayload(t)
  <2>1. PICK u \in Text, v \in Text, n \in Nat \ {0} :
          Contents = <<DELIM>> \o u /\ t = u \o v /\ Stream = v \o Rear(n)
    BY <1>2 DEF InPayload
  <2>2. CASE v # <<>>
    BY <1>2, <2>1, <2>2, PayloadStep
  <2>3. CASE v = <<>>
    <3>1. t = u
      <4>1. u \in Seq(Byte)
        BY TextIsBytes
      <4> QED BY <2>1, <2>3, <4>1, ConcatEmptySeq
    <3>2. Head(line) = DISPLAY /\ Stream = Rear(n)
      BY <2>1, <2>3, PayloadOver
    <3> QED BY <1>2, <2>1, <3>1, <3>2, PayloadEnds
  <2> QED BY <2>2, <2>3
<1>3. CASE header_state = ShowsIn(f) /\ t = <<>>
  BY <1>3, ShownStep
<1> QED BY <1>1, <1>2, <1>3 DEF Ahead

-----------------------------------------------------------------------------
(* The next record of a dump *)

LEMMA FirstGrows ==
  ASSUME NEW f \in Sessions
  PROVE  LET d == DumpOf(f)
         IN  /\ First(f, 0) = <<>> /\ First(f, Len(d)) = FlattenSeq(d)
             /\ \A k \in 0..Len(d) : First(f, k) \in Seq(Byte)
             /\ \A k \in 0..Len(d)-1 :
                  /\ First(f, k + 1) = First(f, k) \o d[k + 1]
                  /\ d[k + 1] \in Text
                  /\ Head(SubSeq(d, k + 1, Len(d))) = d[k + 1]
                  /\ Tail(SubSeq(d, k + 1, Len(d))) = SubSeq(d, k + 2, Len(d))
<1> DEFINE d == DumpOf(f)
           n == Len(d)
           B == Seq(Byte)
<1>1. d \in Seq(Text) /\ n \in Nat /\ d \in Seq(B)
  <2>1. d \in Seq(Text) /\ n \in Nat
    BY Dumps, DumpNames
  <2>2. \A i \in 1..Len(d) : d[i] \in B
    BY <2>1, TextIsBytes, ElementOfSeq
  <2> HIDE DEF d, B
  <2>3. d \in Seq(B)
    BY <2>1, <2>2, SeqDef
  <2> QED BY <2>1, <2>3
<1> HIDE DEF d
<1>2. \A k \in 0..n : SubSeq(d, 1, k) \in Seq(B)
  <2> HIDE DEF B
  <2> QED BY <1>1
<1>3. \A k \in 0..n : FlattenSeq(SubSeq(d, 1, k)) \in B
  <2> SUFFICES ASSUME NEW k \in 0..n
               PROVE  FlattenSeq(SubSeq(d, 1, k)) \in B
    OBVIOUS
  <2>1. SubSeq(d, 1, k) \in Seq(Seq(Byte))
    BY <1>2
  <2> QED BY <2>1, FlattenType
<1>4. First(f, 0) = <<>>
  <2>1. SubSeq(d, 1, 0) = <<>>
    BY SubSeqEmpty
  <2> QED BY <2>1, FlattenEmpty DEF First, d
<1>5. First(f, n) = FlattenSeq(d)
  <2>1. SubSeq(d, 1, Len(d)) = d
    BY <1>1, SubSeqFull
  <2> QED BY <2>1 DEF First, d
<1>6. ASSUME NEW k \in 0..n-1
      PROVE  /\ First(f, k + 1) = First(f, k) \o d[k + 1]
             /\ d[k + 1] \in Text
             /\ Head(SubSeq(d, k + 1, n)) = d[k + 1]
             /\ Tail(SubSeq(d, k + 1, n)) = SubSeq(d, k + 2, n)
  <2>1. k + 1 \in 1..n /\ k \in 0..n /\ (k + 1) - 1 = k /\ (k + 1) + 1 = k + 2 /\ n \in k+1..n
        /\ 1 \in 1..n /\ k + 1 \in 1..(k + 1)
    BY <1>1
  <2>2. d[k + 1] \in Text /\ d[k + 1] \in B
    BY <1>1, <2>1, ElementOfSeq
  <2> HIDE DEF n, B
  <2>3. SubSeq(d, 1, k + 1) = SubSeq(d, 1, (k + 1) - 1) \o <<d[k + 1]>>
    BY <1>1, <2>1, SubSeqRecursiveSecond DEF n
  <2> DEFINE s == SubSeq(d, 1, k)
             e == d[k + 1]
  <2>4. s \in Seq(B) /\ e \in B
    BY <1>2, <2>1, <2>2
  <2>5. SubSeq(d, 1, k + 1) = s \o <<e>>
    BY <2>1, <2>3
  <2> HIDE DEF s, e
  <2>6. SubSeq(d, 1, k + 1) = Append(s, e)
    BY <2>4, <2>5, AppendIsConcat
  <2>7. FlattenSeq(Append(s, e)) = FlattenSeq(s) \o e
    BY <2>4, FlattenAppend DEF B
  <2>8. First(f, k + 1) = First(f, k) \o d[k + 1]
    BY <2>6, <2>7 DEF First, d, s, e
  <2>9. Head(SubSeq(d, k + 1, n)) = d[k + 1] /\ Tail(SubSeq(d, k + 1, n)) = SubSeq(d, (k + 1) + 1, n)
    BY <1>1, <2>1, HeadTailOfSubSeq DEF n
  <2> QED BY <2>1, <2>2, <2>8, <2>9
<1>7. \A k \in 0..n : First(f, k) \in Seq(Byte)
  BY <1>3 DEF First, d
<1> QED BY <1>4, <1>5, <1>6, <1>7 DEF d

\* With nothing under way there is no record ahead.
LEMMA NothingAhead ==
  ASSUME Stream = <<>>, NEW f \in Sessions, NEW t \in Text, Ahead(f, t)
  PROVE  t = <<>> /\ header_state \in AsksIn(f) \cup {ShowsIn(f)}
<1>1. ASSUME NEW n \in Nat \ {0}
      PROVE  Frame(t, n) # <<>> /\ \A v \in Text : v \o Rear(n) # <<>>
  <2>1. Rear(n) \in Seq(Byte) /\ Rear(n) # <<>>
    BY RearShape
  <2>2. \A x, y \in Seq(Byte) : y # <<>> => x \o y # <<>>
    BY ConcatSimplifications
  <2>3. ASSUME NEW v \in Text
        PROVE  v \o Rear(n) # <<>>
    BY <2>1, <2>2, TextIsBytes
  <2>4. <<DELIM>> \in Seq(Byte) /\ t \o Rear(n) \in Seq(Byte)
    BY Codes, FrameParts
  <2>5. <<DELIM>> \o (t \o Rear(n)) # <<>>
    BY <2>2, <2>3, <2>4
  <2> QED BY <2>3, <2>5, FrameParts
<1> QED BY <1>1 DEF Ahead, AtFrame, InPayload

\* A frame is sent with payload t, which the engine has asked for or is empty.
LEMMA SentAhead ==
  ASSUME LinkInv, Stream = <<>>, Stream' = m_out', UNCHANGED engineVars, UNCHANGED saved,
         NEW f \in Sessions, NEW t \in Text, NEW n \in Nat \ {0}, m_out' = Frame(t, n),
         NEW k \in 0..Len(DumpOf(f)), NEW j, First(f, j) = First(f, k) \o t,
         Ahead(f, <<>>), WrittenUp(f, k, <<>>),
         t = <<>> \/ header_state \in AsksIn(f) \ {"HST_START"}
  PROVE  Ahead(f, t)' /\ WrittenUp(f, j, t)'
<1>1. n \in Nat \ {0} /\ <<>> \in Text
  BY DisplayAssumption DEF Text
<1>2. AtFrame(t)'
  BY <1>1 DEF AtFrame
<1>3. header_state' = header_state /\ f_open' = f_open /\ saved' = saved
  BY DEF engineVars, parserVars
<1>4. header_state \in AsksIn(f) \cup {ShowsIn(f)}
  BY <1>1, NothingAhead
<1>5. Ahead(f, t)'
  <2>1. CASE header_state \in AsksIn(f)
    BY <1>2, <1>3, <2>1 DEF Ahead, AsksIn
  <2>2. CASE header_state = ShowsIn(f)
    <3>1. t = <<>>
      BY <2>2, DumpNames
    <3> QED BY <1>3, <2>2, <3>1 DEF Ahead, ShowsIn
  <2> QED BY <1>4, <2>1, <2>2
<1>6. WrittenUp(f, j, t)'
  <2> DEFINE base == IF header_state = StartOf(f) THEN <<>> ELSE saved
  <2>1. base \in Seq(Byte)
    BY DEF LinkInv, LinkTypeOK
  <2>2. base \o <<>> = base
    <3> HIDE DEF base
    <3> QED BY <2>1, ConcatEmptySeq
  <2>3. f \in f_open \/ header_state = StartOf(f) => base \o t = First(f, j)
    BY <2>2 DEF WrittenUp
  <2>4. First(f, j)' = First(f, j)
    BY FirstStays
  <2> QED BY <1>3, <2>3, <2>4 DEF WrittenUp, StartOf
<1> QED BY <1>5, <1>6

LEMMA SentKeeps ==
  ASSUME LinkInv, Stream = <<>>, Stream' = m_out', UNCHANGED engineVars, UNCHANGED saved,
         NEW f \in Sessions, NEW n \in Nat \ {0}, m_out' = Frame(<<>>, n),
         NEW k \in 0..Len(DumpOf(f)), Ahead(f, <<>>), WrittenUp(f, k, <<>>)
  PROVE  Ahead(f, <<>>)' /\ WrittenUp(f, k, <<>>)'
<1>1. <<>> \in Text
  BY DEF Text
<1>2. First(f, k) = First(f, k) \o <<>>
  <2>1. First(f, k) \in Seq(Byte)
    BY FirstGrows
  <2> QED BY <2>1, ConcatEmptySeq
<1> QED BY <1>1, <1>2, SentAhead

LEMMA RunningNext ==
  ASSUME NEW f \in Sessions, NEW k \in 0..Len(DumpOf(f))-1, NEW t \in Text,
         m_todo' = SubSeq(DumpOf(f), k + 1, Len(DumpOf(f))),
         Ahead(f, t)', WrittenUp(f, k, t)'
  PROVE  Running(f)'
BY DEF Running, DumpOf

LEMMA EndingNext ==
  ASSUME NEW f \in Sessions, NEW t \in Text, EndsDump(t), NEW n, n = Len(DumpOf(f)),
         Ahead(f, t)', WrittenUp(f, n, t)'
  PROVE  Ending(f)'
<1>1. WrittenUp(f, Len(DumpOf(f)), t)'
  BY DEF WrittenUp, First, DumpOf
<1> QED BY <1>1 DEF Ending, EndsDump, DumpOf

\* In between two frames a dump has nothing ahead, and no mark is about to be read.
LEMMA Between ==
  ASSUME LinkInv, Stream = <<>>, DumpInv, fault = "none"
  PROVE  /\ Unmarked(Contents)
         /\ \A f \in Sessions : Running(f) =>
              \E k \in 0..Len(DumpOf(f))-1 :
                /\ m_todo = SubSeq(DumpOf(f), k + 1, Len(DumpOf(f)))
                /\ Ahead(f, <<>>) /\ WrittenUp(f, k, <<>>)
<1>1. ASSUME NEW f \in Sessions, Ending(f)
      PROVE  FALSE
  <2>1. PICK t \in Text : EndsDump(t) /\ Ahead(f, t)
    BY <1>1 DEF Ending
  <2>2. t = <<>>
    BY <2>1, NothingAhead
  <2>3. Len(t) = 0
    BY <2>2
  <2> QED BY <2>1, <2>3 DEF EndsDump
<1>2. Quiet
  BY <1>1 DEF DumpInv, Sessions
<1>3. Contents \o Stream = Contents
  <2>1. Contents \in Seq(Byte)
    BY ContentsType DEF LinkInv, TypeOK
  <2> QED BY <2>1, ConcatEmptySeq
<1>4. Unmarked(Contents)
  BY <1>2, <1>3 DEF Quiet
<1>5. ASSUME NEW f \in Sessions, Running(f)
      PROVE  \E k \in 0..Len(DumpOf(f))-1 :
                /\ m_todo = SubSeq(DumpOf(f), k + 1, Len(DumpOf(f)))
                /\ Ahead(f, <<>>) /\ WrittenUp(f, k, <<>>)
  <2>1. PICK k \in 0..Len(DumpOf(f))-1, t \in Text :
          /\ m_todo = SubSeq(DumpOf(f), k + 1, Len(DumpOf(f)))
          /\ Ahead(f, t) /\ WrittenUp(f, k, t)
    BY <1>5 DEF Running
  <2>2. t = <<>>
    BY <2>1, NothingAhead
  <2> QED BY <2>1, <2>2
<1> QED BY <1>4, <1>5

\* A frame with nothing in it goes out and the session stays as it is.
LEMMA RunningKept ==
  ASSUME LinkInv, Stream = <<>>, Stream' = m_out', UNCHANGED engineVars, UNCHANGED saved,
         DumpInv, fault = "none", Silence, NEW f \in Sessions, Running(f)
  PROVE  Running(f)'
<1>1. PICK k \in 0..Len(DumpOf(f))-1 :
        /\ m_todo = SubSeq(DumpOf(f), k + 1, Len(DumpOf(f)))
        /\ Ahead(f, <<>>) /\ WrittenUp(f, k, <<>>)
  BY Between
<1>2. PICK n \in Nat \ {0} : m_out' = Frame(<<>>, n)
  BY FrameCounts DEF Silence
<1>3. m_todo' = m_todo /\ <<>> \in Text
  BY DEF Silence, Text
<1>4. k \in 0..Len(DumpOf(f))
  <2>1. Len(DumpOf(f)) \in Nat
    BY Dumps, DumpNames
  <2> QED BY <2>1
<1>5. Ahead(f, <<>>)' /\ WrittenUp(f, k, <<>>)'
  BY <1>1, <1>2, <1>4, SentKeeps
<1> QED BY <1>1, <1>3, <1>5, RunningNext

\* The next record goes out: the dump goes on, or ends with this one.
LEMMA RunningOn ==
  ASSUME LinkInv, Stream = <<>>, Stream' = m_out', UNCHANGED engineVars, UNCHANGED saved,
         DumpInv, fault = "none", NextRecord, NEW f \in Sessions, Running(f),
         header_state \in AsksIn(f) \ {"HST_START"}
  PROVE  \/ Running(f)' /\ m_mode' = m_mode
         \/ Ending(f)' /\ m_mode' \notin {"report", "history"}
<1> DEFINE d == DumpOf(f)
           n == Len(d)
<1>1. PICK k \in 0..n-1 :
        m_todo = SubSeq(d, k + 1, n) /\ Ahead(f, <<>>) /\ WrittenUp(f, k, <<>>)
  BY Between
<1>2. n \in Nat /\ \A i \in 1..n : EndsDump(d[i]) <=> i = n
  BY Dumps, DumpNames
<1>3. /\ First(f, k + 1) = First(f, k) \o d[k + 1] /\ d[k + 1] \in Text
      /\ Head(m_todo) = d[k + 1] /\ Tail(m_todo) = SubSeq(d, k + 2, n)
  BY <1>1, FirstGrows
<1> HIDE DEF d, n
<1>4. k + 1 \in 1..n /\ k \in 0..n
  BY <1>2
<1>5. PICK c \in Nat \ {0} : m_out' = Frame(d[k + 1], c)
  BY <1>3, FrameCounts DEF NextRecord
<1>6. Ahead(f, d[k + 1])' /\ WrittenUp(f, k + 1, d[k + 1])'
  <2> DEFINE t == d[k + 1]
             j == k + 1
  <2>1. /\ t \in Text /\ m_out' = Frame(t, c) /\ First(f, j) = First(f, k) \o t
        /\ k \in 0..Len(DumpOf(f))
    BY <1>3, <1>4, <1>5 DEF n, d
  <2> HIDE DEF t, j
  <2>2. Ahead(f, t)' /\ WrittenUp(f, j, t)'
    BY <1>1, <2>1, SentAhead
  <2> QED BY <2>2 DEF t, j
<1>7. CASE k + 1 = n
  <2>1. EndsDump(d[k + 1])
    BY <1>2, <1>4, <1>7
  <2>2. Ending(f)'
    BY <1>3, <1>6, <1>7, <2>1, EndingNext DEF n, d
  <2>3. Tail(m_todo) = <<>>
    <3>1. n < k + 2 /\ n \in Int /\ k + 2 \in Int
      BY <1>2, <1>7
    <3> QED BY <1>3, <3>1, SubSeqEmpty
  <2> QED BY <2>2, <2>3 DEF NextRecord
<1>8. CASE k + 1 # n
  <2>1. k + 1 \in 0..n-1 /\ (k + 1) + 1 = k + 2
    BY <1>2, <1>4, <1>8
  <2>2. Tail(m_todo) # <<>>
    <3>1. k + 2 \in Int /\ n \in Int /\ k + 2 <= n
      BY <1>2, <2>1
    <3>2. \A i \in (k + 2)..n : d[i] \in Text
      <4>1. d \in Seq(Text)
        BY Dumps, DumpNames DEF d
      <4>2. \A i \in (k + 2)..n : i \in 1..Len(d)
        BY <1>2, <2>1 DEF n
      <4> QED BY <4>1, <4>2, ElementOfSeq
    <3>3. Len(Tail(m_todo)) = n - (k + 2) + 1
      BY <1>3, <3>1, <3>2, SubSeqProperties
    <3>4. n - (k + 2) + 1 # 0
      BY <1>2, <1>4, <3>1
    <3>5. Len(Tail(m_todo)) # 0
      <4> DEFINE m == Len(Tail(m_todo))
      <4>1. m = n - (k + 2) + 1
        BY <3>3
      <4> HIDE DEF m
      <4>2. m # 0
        BY <3>4, <4>1
      <4> QED BY <4>2 DEF m
    <3>6. Len(<<>>) = 0
      OBVIOUS
    <3> QED BY <3>5, <3>6
  <2>3. m_todo' = SubSeq(d, (k + 1) + 1, n) /\ m_mode' = m_mode
    BY <1>3, <2>1, <2>2 DEF NextRecord
  <2>4. Running(f)'
    <3> DEFINE j == k + 1
    <3>1. /\ j \in 0..Len(DumpOf(f))-1 /\ m_todo' = SubSeq(DumpOf(f), j + 1, Len(DumpOf(f)))
          /\ Ahead(f, d[k + 1])' /\ WrittenUp(f, j, d[k + 1])' /\ d[k + 1] \in Text
      BY <1>3, <1>6, <2>1, <2>3 DEF n, d
    <3> HIDE DEF j
    <3> QED BY <3>1, RunningNext
  <2> QED BY <2>3, <2>4
<1> QED BY <1>7, <1>8

LEMMA ReportSent ==
  ASSUME LinkInv, Stream = <<>>, Stream' = m_out', UNCHANGED engineVars, UNCHANGED saved,
         HearReport, header_state = "RPT_START"
  PROVE  Running("rpt")'
<1> DEFINE d == DumpOf("rpt")
           n == Len(d)
           t == d[1]
<1>1. "rpt" \in Sessions /\ d = ReportRecords
  BY DEF Sessions, DumpOf
<1>2. n \in Nat /\ n > 1 /\ First("rpt", 0) = <<>> /\ First("rpt", 0) \in Seq(Byte)
  <2>1. Len(d) \in Nat /\ Len(d) > 1
    BY <1>1, Dumps
  <2>2. 0 \in 0..Len(d)
    BY <2>1
  <2>3. First("rpt", 0) = <<>> /\ First("rpt", 0) \in Seq(Byte)
    BY <1>1, <2>2, FirstGrows
  <2> QED BY <2>1, <2>3
<1>3. 0 \in 0..n-1 /\ 0 \in 0..n /\ 1 \in 0..n-1
  BY <1>2
<1>4. /\ First("rpt", 1) = First("rpt", 0) \o t /\ t \in Text
  <2>1. First("rpt", 0 + 1) = First("rpt", 0) \o d[0 + 1] /\ d[0 + 1] \in Text
    BY <1>1, <1>3, FirstGrows
  <2>2. 0 + 1 = 1
    OBVIOUS
  <2> QED BY <2>1, <2>2
<1>5. Head(ReportRecords) = t /\ Tail(ReportRecords) = SubSeq(d, 2, n)
  <2>1. d \in Seq(Text) /\ d # <<>>
    BY <1>1, Dumps
  <2> HIDE DEF d
  <2> QED BY <1>1, <2>1, TailIsSubSeq
<1>6. PICK c \in Nat \ {0} : m_out' = Frame(t, c)
  BY <1>5, FrameCounts DEF HearReport
<1>7. Ahead("rpt", <<>>) /\ WrittenUp("rpt", 0, <<>>)
  <2>1. Ahead("rpt", <<>>)
    BY DEF Ahead, AtFrame, AsksIn
  <2>2. <<>> \o <<>> = <<>>
    BY EmptyText, ConcatEmptySeq
  <2> QED BY <1>2, <2>1, <2>2 DEF WrittenUp, StartOf
<1> HIDE DEF t, n
<1>8. Ahead("rpt", t)' /\ WrittenUp("rpt", 1, t)'
  <2>1. 0 \in 0..Len(DumpOf("rpt"))
    BY <1>3 DEF n
  <2>2. t = <<>> \/ header_state \in AsksIn("rpt") \ {"HST_START"}
    BY DEF AsksIn
  <2> QED BY <1>1, <1>4, <1>6, <1>7, <2>1, <2>2, SentAhead
<1>9. m_todo' = SubSeq(d, 1 + 1, n)
  <2>1. m_todo' = SubSeq(d, 2, n)
    BY <1>5 DEF HearReport
  <2>2. 1 + 1 = 2
    OBVIOUS
  <2> QED BY <2>1, <2>2
<1> QED BY <1>1, <1>3, <1>4, <1>8, <1>9, RunningNext DEF n

LEMMA HistoryBegun ==
  ASSUME LinkInv, Stream = <<>>, Stream' = m_out', UNCHANGED engineVars, UNCHANGED saved,
         HearHistory, header_state = "HST_START"
  PROVE  Running("hst")'
<1> DEFINE d == DumpOf("hst")
           n == Len(d)
<1>1. "hst" \in Sessions /\ d = HistoryRecords /\ <<>> \in Text
  BY DEF Sessions, DumpOf, Text
<1>2. n \in Nat /\ n > 1 /\ First("hst", 0) = <<>> /\ d \in Seq(Text)
  <2>1. Len(d) \in Nat /\ Len(d) > 1 /\ d \in Seq(Text)
    BY <1>1, Dumps
  <2> QED BY <1>1, <2>1, FirstGrows
<1>3. 0 \in 0..n-1 /\ 0 \in 0..n
  BY <1>2
<1>4. HistoryRecords = SubSeq(d, 0 + 1, n)
  <2>1. SubSeq(d, 1, Len(d)) = d
    BY <1>2, SubSeqFull
  <2> QED BY <1>1, <2>1
<1>5. PICK c \in Nat \ {0} : m_out' = Frame(<<>>, c)
  BY FrameCounts DEF HearHistory
<1>6. Ahead("hst", <<>>) /\ WrittenUp("hst", 0, <<>>)
  <2>1. Ahead("hst", <<>>)
    BY DEF Ahead, AtFrame, AsksIn
  <2>2. <<>> \o <<>> = <<>>
    BY EmptyText, ConcatEmptySeq
  <2> QED BY <1>2, <2>1, <2>2 DEF WrittenUp, StartOf
<1>7. Ahead("hst", <<>>)' /\ WrittenUp("hst", 0, <<>>)'
  BY <1>1, <1>3, <1>5, <1>6, SentKeeps
<1>8. m_todo' = SubSeq(d, 0 + 1, n)
  BY <1>4 DEF HearHistory
<1> QED BY <1>1, <1>3, <1>7, <1>8, RunningNext

\* What the 1022 sends upon an answer keeps the dumps in step.
LEMMA HeardDump ==
  ASSUME LinkInv, ModeInv, ModeInv', DumpInv, fault = "none", UNCHANGED engineVars,
         UNCHANGED saved, Stream = <<>>, Stream' = m_out', Unmarked(Contents),
         NEW request \in Asked(header_state), Hear(StatusOf(logmode), request)
  PROVE  DumpInv'
<1> DEFINE st == StatusOf(logmode)
<1> HIDE DEF st
<1>1. PlainFrame(m_out') => Quiet'
  BY QuietFrame
<1>2. m_mode' \in {"report", "history"} => Quiet'
  BY DEF ModeInv, DumpRuns
<1>3. <<>> \in Text /\ ~EndsDump(<<>>)
  BY DEF Text, EndsDump
<1>4. CASE HearReport /\ request = <<RCh, CR>>
  <2>1. Running("rpt")' /\ m_mode' = "report"
    BY <1>4, AskedOnly, ReportSent DEF HearReport
  <2> QED BY <1>2, <2>1 DEF DumpInv
<1>5. CASE HearHistory /\ request = <<ICh, CR>>
  <2>1. Running("hst")' /\ m_mode' = "history"
    BY <1>5, AskedOnly, HistoryBegun DEF HearHistory
  <2> QED BY <1>2, <2>1 DEF DumpInv
<1>6. CASE HearLogStart
  <2>1. PICK rec \in LogRecords : SendFrame(rec)
    BY <1>6 DEF HearLogStart
  <2>2. rec \in Text /\ ~EndsDump(rec)
    BY LinkAssumption
  <2>3. Quiet'
    BY <1>1, <2>1, <2>2, PlainSent
  <2> QED BY <1>6, <2>3 DEF HearLogStart, DumpInv
<1>7. CASE Ignore /\ m_mode = "steady"
  <2>1. PlainFrame(m_out')
    BY <1>3, <1>7, PressText, PlainSent DEF Ignore, IdleFrame
  <2> QED BY <1>1, <1>7, <2>1 DEF Ignore, DumpInv
<1>8. CASE NextRecord /\ m_mode = "report" /\ request = <<>>
  <2>1. header_state \in AsksIn("rpt") \ {"HST_START"} /\ "rpt" \in Sessions /\ Running("rpt")
    <3>1. header_state \in ReportStates /\ Running("rpt")
      BY <1>8 DEF ModeInv, DumpInv
    <3>2. header_state \in {"RPT_START", "RPT_PRINTER"}
      BY <1>8, <3>1 DEF Asked, ReportStates
    <3> QED BY <3>1, <3>2 DEF AsksIn, Sessions
  <2>2. \/ Running("rpt")' /\ m_mode' = m_mode
        \/ Ending("rpt")' /\ m_mode' \notin {"report", "history"}
    BY <1>8, <2>1, RunningOn
  <2> QED BY <1>2, <1>8, <2>2 DEF DumpInv
<1>9. CASE NextRecord /\ m_mode = "history" /\ request \in {<<TCh, CR>>, <<HCh, CR>>}
  <2>1. header_state \in AsksIn("hst") \ {"HST_START"} /\ "hst" \in Sessions /\ Running("hst")
    <3>1. header_state \in HistoryStates /\ Running("hst")
      BY <1>9 DEF ModeInv, DumpInv
    <3>2. header_state \in {"LOG_START", "HST_PRINTER_ACTIVE"}
      BY <1>9, <3>1 DEF Asked, HistoryStates, TCh, HCh, ICh
    <3> QED BY <3>1, <3>2 DEF AsksIn, Sessions, HistoryStates
  <2>2. \/ Running("hst")' /\ m_mode' = m_mode
        \/ Ending("hst")' /\ m_mode' \notin {"report", "history"}
    BY <1>9, <2>1, RunningOn
  <2> QED BY <1>2, <1>9, <2>2 DEF DumpInv
<1>10. CASE HearNoLogBit
  <2>1. PlainFrame(m_out')
    BY <1>3, <1>10, PlainSent DEF HearNoLogBit
  <2> QED BY <1>1, <1>10, <2>1 DEF HearNoLogBit, DumpInv
<1>11. CASE HearLogRecord /\ m_mode = "log"
  <2>1. PlainFrame(m_out')
    BY <1>11, PlainSent
  <2> QED BY <1>1, <1>11, <2>1 DEF HearLogRecord, DumpInv
<1>12. CASE Silence
  <2>1. Quiet' /\ m_mode' = m_mode
    BY <1>1, <1>12, PlainSent DEF Silence
  <2>2. \A f \in Sessions : Running(f) => Running(f)'
    BY <1>12, RunningKept
  <2> QED BY <2>1, <2>2 DEF DumpInv, Sessions
<1>13. \/ HearReport /\ request = <<RCh, CR>>
       \/ HearHistory /\ request = <<ICh, CR>>
       \/ HearLogStart
       \/ Ignore /\ m_mode = "steady"
       \/ NextRecord /\ m_mode = "report" /\ request = <<>>
       \/ NextRecord /\ m_mode = "history" /\ request \in {<<TCh, CR>>, <<HCh, CR>>}
       \/ HearNoLogBit
       \/ HearLogRecord /\ m_mode = "log"
       \/ Silence
  BY DEF Hear, st
<1> QED BY <1>4, <1>5, <1>6, <1>7, <1>8, <1>9, <1>10, <1>11, <1>12, <1>13

LEMMA DumpSent ==
  ASSUME LinkInv, LinkInv', EngineInv, LineInv, LineInv', DumpInv, TakeReply \/ SlotOver
  PROVE  DumpInv'
<1>1. /\ Stream = <<>> /\ Stream' = m_out' /\ UNCHANGED engineVars /\ UNCHANGED saved
  BY FrameSent DEF LineInv, TakeReply, SlotOver
<1>2. fault' = fault
  BY <1>1 DEF engineVars, parserVars
<1>3. CASE fault # "none"
  BY <1>2, <1>3 DEF DumpInv
<1>4. CASE fault = "none" /\ TakeReply
  <2>1. PICK a : m_ear = <<a>> /\ Answered(a)
    BY <1>4 DEF TakeReply, EarInv, LineInv
  <2>2. Hear(Head(a), Tail(a))
    BY <1>4, <2>1 DEF TakeReply
  <2>3. PICK request \in Asked(header_state) : a = <<StatusOf(logmode)>> \o request
    BY <2>1 DEF Answered
  <2>4. logmode \in BOOLEAN
    BY DEF LinkInv, TypeOK, ParserTypeOK
  <2>5. Hear(StatusOf(logmode), request)
    BY <2>2, <2>3, <2>4, AnswerParts
  <2>6. Unmarked(Contents)
    BY <1>1, <1>4, Between
  <2> QED BY <1>1, <1>4, <2>5, <2>6, HeardDump DEF LineInv
<1>5. CASE fault = "none" /\ SlotOver
  <2>1. Silence
    BY <1>5 DEF SlotOver
  <2>2. Unmarked(Contents)
    BY <1>1, <1>5, Between
  <2>3. Quiet' /\ m_mode' = m_mode
    BY <1>1, <2>1, <2>2, QuietFrame, PlainSent DEF Silence
  <2>4. \A f \in Sessions : Running(f) => Running(f)'
    BY <1>1, <1>5, <2>1, RunningKept
  <2> QED BY <1>5, <2>3, <2>4 DEF DumpInv, Sessions
<1> QED BY <1>3, <1>4, <1>5

-----------------------------------------------------------------------------
(* Whole dumps *)

\* A byte is read: a dump goes on, turns to the next record or is left.
LEMMA DumpDelivered ==
  ASSUME LinkInv, EngineInv, LineInv, LineInv', DumpInv, Deliver
  PROVE  DumpInv'
<1> SUFFICES ASSUME fault' = "none"
             PROVE  /\ m_mode' = "report" => Running("rpt")'
                    /\ m_mode' = "history" => Running("hst")'
                    /\ Quiet' \/ Ending("rpt")' \/ Ending("hst")'
  BY DEF DumpInv
<1>1. fault = "none" /\ m_mode' = m_mode /\ m_todo' = m_todo
  BY DeliverHandled DEF Deliver
<1>2. <<>> \in Text /\ ~EndsDump(<<>>)
  BY DEF Text, EndsDump
<1>3. ASSUME NEW f \in Sessions, Running(f),
             header_state' \in (IF f = "rpt" THEN ReportStates ELSE HistoryStates)
      PROVE  Running(f)'
  <2>1. PICK k \in 0..Len(DumpOf(f))-1, t \in Text :
          m_todo = SubSeq(DumpOf(f), k + 1, Len(DumpOf(f))) /\ Ahead(f, t) /\ WrittenUp(f, k, t)
    BY <1>3 DEF Running
  <2>2. ~Leaves(f, k)
    BY <1>3 DEF Leaves, Sessions, ReportStates, HistoryStates
  <2>3. \E u \in Text : Ahead(f, u)' /\ WrittenUp(f, k, u)'
    BY <1>2, <2>1, <2>2, DumpStep DEF Turns
  <2> QED BY <1>1, <2>1, <2>3, RunningNext
<1>4. m_mode' = "report" => Running("rpt")'
  <2> SUFFICES ASSUME m_mode = "report"
               PROVE  Running("rpt")'
    BY <1>1
  <2>1. header_state' \in ReportStates
    BY <1>1 DEF LineInv, ModeInv
  <2> QED BY <1>1, <1>3, <2>1 DEF DumpInv, Sessions
<1>5. m_mode' = "history" => Running("hst")'
  <2> SUFFICES ASSUME m_mode = "history"
               PROVE  Running("hst")'
    BY <1>1
  <2>1. header_state' \in HistoryStates
    BY <1>1 DEF LineInv, ModeInv
  <2> QED BY <1>1, <1>3, <2>1 DEF DumpInv, Sessions
<1>6. ASSUME NEW f \in Sessions, Ending(f)
      PROVE  Quiet' \/ Ending(f)'
  <2> DEFINE n == Len(DumpOf(f))
  <2>1. PICK t \in Text : EndsDump(t) /\ Ahead(f, t) /\ WrittenUp(f, n, t)
    BY <1>6 DEF Ending
  <2> HIDE DEF n
  <2>2. \/ Ahead(f, t)' /\ WrittenUp(f, n, t)'
        \/ Turns(f, n, t)
        \/ Leaves(f, n)
    BY <2>1, DumpStep
  <2>3. ~Turns(f, n, t)
    BY <2>1 DEF Turns
  <2>4. Leaves(f, n) => Quiet'
    BY DEF Leaves
  <2> QED BY <2>1, <2>2, <2>3, <2>4, EndingNext DEF n
<1>7. Quiet' \/ Ending("rpt")' \/ Ending("hst")'
  BY <1>1, <1>6, QuietDelivered DEF DumpInv, Sessions
<1> QED BY <1>4, <1>5, <1>7

\* What goes on beside the line does not touch a dump.
LEMMA DumpStays ==
  ASSUME LinkInv, DumpInv,
         \/ SendByte \/ UNCHANGED linkVars
         \/ \E m \in Messages \cup {NoRequest} : Loop(m)
  PROVE  DumpInv'
<1>1. Stream' = Stream
  BY SentStays DEF LinkInv, Loop, linkVars, masterVars, Stream
<1>2. UNCHANGED <<fault, buffer, buffer_len, header_state, f_open, saved, m_mode, m_todo>>
  BY DEF SendByte, Loop, LoopHead, masterVars, linkVars, engineVars, parserVars
<1>3. Quiet' = Quiet
  BY <1>1, <1>2 DEF Quiet, Contents
<1>4. \A f, t : Ahead(f, t)' = Ahead(f, t)
  BY <1>1, <1>2 DEF Ahead, AtFrame, InPayload, Contents, AsksIn, DataOf, ShowsIn
<1>5. \A f, k, t : WrittenUp(f, k, t)' = WrittenUp(f, k, t)
  BY <1>2 DEF WrittenUp, StartOf, First, DumpOf
<1>6. \A f : Running(f)' = Running(f) /\ Ending(f)' = Ending(f)
  BY <1>2, <1>4, <1>5 DEF Running, Ending, DumpOf, EndsDump
<1> QED BY <1>2, <1>3, <1>6 DEF DumpInv

\* The engine comes up with no end of a dump in sight.
LEMMA InitDump == LinkInit => DumpInv
<1> SUFFICES ASSUME LinkInit
             PROVE  Unmarked(Contents \o Stream)
  BY DEF LinkInit, DumpInv, Quiet
<1> DEFINE f == Frame(<<>>, 1)
           d == <<DELIM>>
           r == Rear(1)
<1>1. <<>> \in Text /\ 1 \in Nat \ {0}
  BY DEF Text
<1>2. r \in Seq(Byte) /\ Unmarked(r) /\ f = d \o (<<>> \o r)
  BY <1>1, RearShape, FrameParts
<1>3. f = d \o r
  BY <1>2, ConcatEmptySeq
<1>4. d \in Seq(Byte) /\ Len(d) > 0 /\ d[Len(d)] = DELIM /\ Unmarked(d)
  BY Codes DEF Unmarked
<1> HIDE DEF d, r, f
<1>5. Unmarked(f) /\ f \in Seq(Byte)
  BY <1>2, <1>3, <1>4, UnmarkedBehindDelim, JoinAt
<1>6. PICK k \in 1..Len(f) : m_out = SubSeq(f, k, Len(f))
  BY DEF LinkInit, f
<1>7. Unmarked(m_out) /\ m_out \in Seq(Byte)
  <2>1. Behind(f, k - 1, m_out)
    BY <1>5, <1>6, SubSeqBehind
  <2> QED BY <1>5, <2>1, UnmarkedBehind DEF Behind
<1>8. Contents = <<>>
  BY DEF LinkInit, Init, ParseOpen, Contents
<1>9. line = <<>>
  BY DEF LinkInit
<1>10. Stream = m_out /\ <<>> \o m_out = m_out
  BY <1>7, <1>9, ConcatEmptySeq DEF Stream
<1> QED BY <1>7, <1>8, <1>10

\* A file is closed behind the record that ends its dump, and nowhere else.
LEMMA ClosedAtEnd ==
  ASSUME LinkInv, EngineInv, Deliver, NEW f \in Sessions, f \in f_open, f \notin f_open'
  PROVE  /\ header_state = DataOf(f) /\ header_state' \in {"LOG_DISPLAY", "SS_DISPLAY"}
         /\ fault' = "none"
<1> DEFINE b == Head(line)
<1>1. ParseByte(b) /\ fault = "none" /\ FilesFollowSessions
  BY DeliverHandled DEF EngineInv, IInv, ControlInv
<1> HIDE DEF b
<1>2. CASE f = "rpt"
  <2>1. header_state \in {"RPT_DATA", "RPT_DISPLAY", "RPT_PRINTER"}
    BY <1>1, <1>2 DEF FilesFollowSessions, SessionHas, ReportStates
  <2>2. ~RPT_Display(b) /\ ~RPT_Printer(b)
    BY DEF RPT_Display, RPT_Printer, NullStream, Dies, Enter, Accumulate
  <2>3. RPT_Data(b)
    BY <1>1, <2>1, <2>2, HandlerOf
  <2> QED BY <1>1, <1>2, <2>3 DEF RPT_Data, Goto, AfterSession, Accumulate, DataOf
<1>3. CASE f = "hst"
  <2>1. header_state \in {"HST_DATA", "HST_DISPLAY", "HST_PRINTER_ACTIVE"}
    <3>1. header_state # "HST_PRINTER"
      BY DeliverHandled DEF ControlInv, ListensOnly
    <3>2. header_state \in HistoryStates \ {"HST_START"}
      BY <1>1, <1>3 DEF FilesFollowSessions, SessionHas, ReportStates
    <3> QED BY <3>1, <3>2 DEF HistoryStates
  <2>2. ~HST_Display(b) /\ ~HST_Printer_Active(b)
    BY DEF HST_Display, HST_Printer_Active, NullStream, Dies, Enter, Accumulate
  <2>3. HST_Data(b)
    BY <1>1, <2>1, <2>2, HandlerOf
  <2> QED BY <1>1, <1>3, <2>3 DEF HST_Data, NullStream, Dies, Goto, AfterSession, Accumulate, DataOf
<1> QED BY <1>2, <1>3 DEF Sessions

LEMMA ClosedIsWhole ==
  ASSUME LinkInv, EngineInv, LineInv, DumpInv, Deliver,
         NEW f \in Sessions, f \in f_open, f \notin f_open'
  PROVE  saved' = FlattenSeq(DumpOf(f))
<1>1. /\ header_state = DataOf(f) /\ header_state' \in {"LOG_DISPLAY", "SS_DISPLAY"}
      /\ fault' = "none"
  BY ClosedAtEnd
<1>2. ~Quiet
  <2> DEFINE states == IF f = "rpt" THEN ReportStates ELSE HistoryStates
  <2>1. /\ states \in {ReportStates, HistoryStates} /\ header_state \in states
        /\ header_state' \notin states
    BY <1>1 DEF Sessions, DataOf, ReportStates, HistoryStates
  <2> HIDE DEF states
  <2> QED BY <2>1, DumpGoesOn
<1>3. Ending(f)
  <2>1. fault = "none"
    BY DeliverHandled
  <2>2. PICK g \in Sessions : Ending(g)
    BY <1>2, <2>1 DEF DumpInv, Sessions
  <2>3. header_state \in AsksIn(g) \cup {DataOf(g), ShowsIn(g)}
    BY <2>2 DEF Ending, Ahead
  <2>4. g = f
    BY <1>1, <2>3 DEF Sessions, AsksIn, DataOf, ShowsIn
  <2> QED BY <2>2, <2>4
<1> DEFINE n == Len(DumpOf(f))
<1>4. PICK t \in Text : EndsDump(t) /\ Ahead(f, t) /\ WrittenUp(f, n, t)
  BY <1>3 DEF Ending
<1>5. First(f, n) = FlattenSeq(DumpOf(f))
  BY FirstGrows
<1> HIDE DEF n
<1>6. \/ Ahead(f, t)' /\ WrittenUp(f, n, t)'
      \/ Turns(f, n, t)
      \/ Leaves(f, n)
  BY <1>1, <1>4, DumpStep
<1>7. ~Ahead(f, t)'
  BY <1>1 DEF Ahead, AsksIn, DataOf, ShowsIn, Sessions
<1>8. ~Turns(f, n, t)
  BY <1>4 DEF Turns
<1> QED BY <1>5, <1>6, <1>7, <1>8 DEF Leaves

\* Whenever the engine closes the file of a report or a history while it runs,
\* the file holds what the 1022 sent as that report or history: each record
\* once, in order, none left out.  It does so whatever the records are, however
\* the frames are cut and whoever asks for something else in the meantime.
THEOREM DumpsAreWhole == LinkSpec => DumpIsWhole
<1> DEFINE Known == LinkInv /\ EngineInv /\ LineInv
           Whole == /\ Closed("rpt") => saved' = FlattenSeq(ReportRecords)
                    /\ Closed("hst") => saved' = FlattenSeq(HistoryRecords)
<1>1. Known /\ Known' /\ DumpInv /\ [LinkNext]_linkVars => DumpInv'
  BY DumpSent, DumpDelivered, DumpStays DEF LinkNext
<1>2. Known /\ DumpInv /\ [LinkNext]_linkVars => [Whole]_linkVars
  <2> SUFFICES ASSUME Known, DumpInv, LinkNext, NEW f \in Sessions, Closed(f)
               PROVE  saved' = FlattenSeq(DumpOf(f))
    BY DEF Sessions, DumpOf
  <2>1. Deliver
    BY DEF Closed, LinkNext, SendByte, TakeReply, SlotOver, Loop, LoopHead, engineVars, parserVars
  <2> QED BY <2>1, ClosedIsWhole DEF Closed
<1>3. LinkSpec => []Known
  BY LineInvariant, PTL
<1> QED BY <1>1, <1>2, <1>3, InitDump, PTL DEF LinkSpec, DumpIsWhole
=============================================================================
