----------------------------- MODULE LinkProofs ------------------------------
(***************************************************************************)
(* The engine on the line of the 1022: what was proved of the engine for   *)
(* any bytes holds there, and what it takes the line for agrees with what  *)
(* the 1022 does, for every record, frame, request and schedule.           *)
(***************************************************************************)
EXTENDS Link, PromiseProofs, SequenceFacts

-----------------------------------------------------------------------------
(* Frames are byte sequences *)

LEMMA TextIsBytes ==
  ASSUME NEW t \in Text
  PROVE  t \in Seq(Byte)
<1>1. Byte \ LineCodes \subseteq Byte
  OBVIOUS
<1> QED BY <1>1, SeqMonotonic DEF Text

\* One display record and the 0x98 behind it
Block == Display \o <<DELIM>>

LEMMA BlockType ==
  /\ Block \in Seq(Byte) /\ Len(Block) = Len(Display) + 1
  /\ \A i \in 1..Len(Display) : Block[i] = Display[i]
  /\ Block[Len(Display) + 1] = DELIM
  /\ Display \in Seq(Byte) /\ Len(Display) \in Nat \ {0} /\ Display[1] = DISPLAY
<1>1. Display \in Seq(Byte) /\ Len(Display) \in Nat \ {0} /\ Display[1] = DISPLAY
  BY DisplayAssumption
<1> DEFINE d == <<DELIM>>
<1>2. d \in Seq(Byte) /\ Len(d) = 1 /\ d[1] = DELIM
  BY Codes
<1> HIDE DEF d
<1>3. Display \o d \in Seq(Byte) /\ Len(Display \o d) = Len(Display) + 1
      /\ \A i \in 1..Len(Display) + 1 :
           (Display \o d)[i] = IF i <= Len(Display) THEN Display[i] ELSE d[i - Len(Display)]
  BY <1>1, <1>2, ConcatProperties
<1> QED BY <1>1, <1>2, <1>3 DEF Block, d

Blocks(n) == [i \in 1..n |-> Block]

LEMMA BurstGrows ==
  /\ Burst(0) = <<>>
  /\ \A n \in Nat : Burst(n) \in Seq(Byte) /\ Burst(n + 1) = Burst(n) \o Block
<1>1. \A n \in Nat : Burst(n) = FlattenSeq(Blocks(n))
  BY DEF Burst, Blocks, Block
<1>2. Blocks(0) = <<>>
  BY DEF Blocks
<1>3. ASSUME NEW n \in Nat
      PROVE  Blocks(n) \in Seq(Seq(Byte)) /\ Blocks(n + 1) = Append(Blocks(n), Block)
  <2> HIDE DEF Block
  <2> QED BY BlockType DEF Blocks
<1>4. ASSUME NEW n \in Nat
      PROVE  Burst(n) \in Seq(Byte) /\ Burst(n + 1) = Burst(n) \o Block
  <2>1. FlattenSeq(Blocks(n)) \in Seq(Byte)
    BY <1>3, FlattenType
  <2>2. FlattenSeq(Append(Blocks(n), Block)) = FlattenSeq(Blocks(n)) \o Block
    BY <1>3, BlockType, FlattenAppend
  <2>3. n + 1 \in Nat
    OBVIOUS
  <2>4. Burst(n + 1) = FlattenSeq(Blocks(n + 1)) /\ Burst(n) = FlattenSeq(Blocks(n))
    BY <1>1, <2>3, Zenon
  <2> QED BY <1>3, <2>1, <2>2, <2>4, Zenon
<1> QED BY <1>1, <1>2, <1>4, FlattenEmpty

LEMMA FrameType ==
  ASSUME NEW t \in Text, NEW n \in Nat
  PROVE  Frame(t, n) \in Seq(Byte)
<1>1. t \in Seq(Byte) /\ Burst(n) \in Seq(Byte)
  BY TextIsBytes, BurstGrows
<1> DEFINE d == <<DELIM>>
           p == <<PRINTER>>
<1>2. d \in Seq(Byte) /\ p \in Seq(Byte)
  BY Codes
<1> HIDE DEF d, p
<1>3. ((d \o t) \o Burst(n)) \o p \in Seq(Byte)
  BY <1>1, <1>2, JoinedThree, Joined, Zenon
<1> QED BY <1>3 DEF Frame, d, p

-----------------------------------------------------------------------------
(* Where a frame holds 0x90, and what stands around it *)

\* Behind each 0x90 a 0x98 comes without a CR in between
ClosedAt(s, i) == \E k \in i..Len(s) : s[k] = DELIM /\ \A j \in i..k : s[j] # CR

\* A stretch of a frame in front of the closing 0x90: a 0x90 in it is no poll,
\* and so many bytes follow it that the answer to it comes too early.
Tame(s) ==
  /\ s \in Seq(Byte)
  /\ \A i \in 1..Len(s) : s[i] = PRINTER =>
       i > 1 /\ s[i - 1] # DELIM /\ Len(s) - i + 1 >= Lag /\ ClosedAt(s, i)

\* The rest of a frame, the closing 0x90 included
Orderly(s) ==
  \A i \in 1..Len(s) : s[i] = PRINTER =>
    \/ i = Len(s)
    \/ (i > 1 => s[i - 1] # DELIM) /\ Len(s) - i >= Lag /\ ClosedAt(s, i)

LEMMA CodesDiffer ==
  /\ DELIM # PRINTER /\ DELIM # DISPLAY /\ DELIM # CR /\ DELIM # SEMI
  /\ PRINTER # DISPLAY /\ PRINTER # CR /\ PRINTER # SEMI
  /\ DISPLAY # CR /\ DISPLAY # SEMI /\ SEMI # CR
BY DEF DELIM, PRINTER, DISPLAY, CR, SEMI

LEMMA LagIs == Lag \in Nat /\ Lag >= 1
BY LinkAssumption

LEMMA JoinAt ==
  ASSUME NEW s \in Seq(Byte), NEW t \in Seq(Byte)
  PROVE  /\ s \o t \in Seq(Byte) /\ Len(s) \in Nat /\ Len(t) \in Nat
         /\ Len(s \o t) = Len(s) + Len(t)
         /\ \A i \in 1..Len(s) : (s \o t)[i] = s[i]
         /\ \A i \in 1..Len(t) : (s \o t)[Len(s) + i] = t[i]
<1>1. /\ s \o t \in Seq(Byte) /\ Len(s) \in Nat /\ Len(t) \in Nat
      /\ Len(s \o t) = Len(s) + Len(t)
      /\ \A i \in 1..Len(s) + Len(t) :
           (s \o t)[i] = IF i <= Len(s) THEN s[i] ELSE t[i - Len(s)]
  BY ConcatProperties, LenProperties
<1> QED BY <1>1

LEMMA TameJoin ==
  ASSUME NEW s, NEW t, Tame(s), Tame(t)
  PROVE  Tame(s \o t)
<1>0. s \in Seq(Byte) /\ t \in Seq(Byte)
  BY DEF Tame
<1> DEFINE u == s \o t
           m == Len(s)
           n == Len(t)
<1>1. /\ u \in Seq(Byte) /\ m \in Nat /\ n \in Nat /\ Len(u) = m + n
      /\ \A i \in 1..m : u[i] = s[i]
      /\ \A i \in 1..n : u[m + i] = t[i]
  BY <1>0, JoinAt
<1> HIDE DEF u
<1> SUFFICES ASSUME NEW i \in 1..Len(u), u[i] = PRINTER
             PROVE  i > 1 /\ u[i - 1] # DELIM /\ Len(u) - i + 1 >= Lag /\ ClosedAt(u, i)
  BY <1>1 DEF Tame, u
<1>2. CASE i <= m
  <2>1. i \in 1..m /\ s[i] = PRINTER
    BY <1>1, <1>2
  <2>2. i > 1 /\ s[i - 1] # DELIM /\ m - i + 1 >= Lag /\ ClosedAt(s, i)
    BY <2>1 DEF Tame
  <2>3. u[i - 1] = s[i - 1]
    BY <1>1, <2>1, <2>2
  <2>4. PICK k \in i..m : s[k] = DELIM /\ \A j \in i..k : s[j] # CR
    BY <2>2 DEF ClosedAt
  <2> HIDE DEF m, n
  <2>5. k \in i..Len(u) /\ u[k] = DELIM /\ \A j \in i..k : u[j] # CR
    BY <1>1, <2>1, <2>4
  <2>6. Len(u) - i + 1 >= Lag
    BY <1>1, <2>1, <2>2, LagIs
  <2> QED BY <2>2, <2>3, <2>5, <2>6 DEF ClosedAt
<1>3. CASE i > m
  <2> DEFINE h == i - m
  <2>1. h \in 1..n /\ i = m + h /\ t[h] = PRINTER
    BY <1>1, <1>3
  <2>2. h > 1 /\ t[h - 1] # DELIM /\ n - h + 1 >= Lag /\ ClosedAt(t, h)
    BY <2>1 DEF Tame
  <2>3. PICK k \in h..n : t[k] = DELIM /\ \A j \in h..k : t[j] # CR
    BY <2>2 DEF ClosedAt
  <2> HIDE DEF h, m, n
  <2>4. u[i - 1] = t[h - 1]
    BY <1>1, <2>1, <2>2
  <2>5. m + k \in i..Len(u) /\ u[m + k] = DELIM
    BY <1>1, <2>1, <2>3
  <2>6. ASSUME NEW j \in i..m+k
        PROVE  u[j] # CR
    <3>1. j - m \in h..k /\ j - m \in 1..n /\ j = m + (j - m)
      BY <1>1, <2>1, <2>3
    <3> QED BY <1>1, <2>3, <3>1
  <2>7. i > 1 /\ Len(u) - i + 1 >= Lag
    BY <1>1, <2>1, <2>2, LagIs
  <2> QED BY <2>2, <2>4, <2>5, <2>6, <2>7 DEF ClosedAt
<1> QED BY <1>1, <1>2, <1>3

\* The closing 0x90 is the only poll of the frame.
LEMMA TameCloses ==
  ASSUME NEW s, Tame(s)
  PROVE  s \o <<PRINTER>> \in Seq(Byte) /\ Orderly(s \o <<PRINTER>>)
<1>0. s \in Seq(Byte) /\ <<PRINTER>> \in Seq(Byte) /\ Len(<<PRINTER>>) = 1
  BY Codes DEF Tame
<1> DEFINE p == <<PRINTER>>
           u == s \o p
           m == Len(s)
<1> HIDE DEF p
<1>1. /\ u \in Seq(Byte) /\ m \in Nat /\ Len(u) = m + 1
      /\ \A i \in 1..m : u[i] = s[i]
  BY <1>0, JoinAt DEF p
<1> HIDE DEF u
<1> SUFFICES ASSUME NEW i \in 1..Len(u), u[i] = PRINTER, i # Len(u)
             PROVE  (i > 1 => u[i - 1] # DELIM) /\ Len(u) - i >= Lag /\ ClosedAt(u, i)
  BY <1>1 DEF Orderly, u, p
<1>2. i \in 1..m /\ s[i] = PRINTER
  BY <1>1
<1>3. i > 1 /\ s[i - 1] # DELIM /\ m - i + 1 >= Lag /\ ClosedAt(s, i)
  BY <1>2 DEF Tame
<1>4. PICK k \in i..m : s[k] = DELIM /\ \A j \in i..k : s[j] # CR
  BY <1>3 DEF ClosedAt
<1> HIDE DEF m
<1>5. u[i - 1] = s[i - 1] /\ Len(u) - i >= Lag
  BY <1>1, <1>2, <1>3, LagIs
<1>6. k \in i..Len(u) /\ u[k] = DELIM /\ \A j \in i..k : u[j] # CR
  BY <1>1, <1>2, <1>4
<1> QED BY <1>3, <1>5, <1>6 DEF ClosedAt

LEMMA TextTame ==
  ASSUME NEW t \in Text
  PROVE  Tame(t)
<1>1. t \in Seq(Byte) /\ \A i \in 1..Len(t) : t[i] \in Byte \ LineCodes
  BY TextIsBytes DEF Text
<1> QED BY <1>1 DEF Tame, LineCodes

LEMMA DelimTame == Tame(<<DELIM>>)
<1>1. <<DELIM>> \in Seq(Byte) /\ Len(<<DELIM>>) = 1 /\ <<DELIM>>[1] = DELIM
  BY Codes
<1> QED BY <1>1, CodesDiffer DEF Tame

LEMMA BlockTame == Tame(Block)
<1> DEFINE n == Len(Display)
<1>1. /\ Block \in Seq(Byte) /\ n \in Nat \ {0} /\ Len(Block) = n + 1
      /\ \A i \in 1..n : Block[i] = Display[i]
      /\ Block[n + 1] = DELIM /\ Display[1] = DISPLAY
  BY BlockType
<1> SUFFICES ASSUME NEW i \in 1..n+1, Block[i] = PRINTER
             PROVE  i > 1 /\ Block[i - 1] # DELIM /\ n + 1 - i + 1 >= Lag /\ ClosedAt(Block, i)
  BY <1>1 DEF Tame
<1>2. i \in 2..n
  BY <1>1, CodesDiffer
<1>3. Display[i] = PRINTER
  BY <1>1, <1>2
<1>4. (\A j \in i..n : Display[j] # CR) /\ n - i + 2 >= Lag
  BY <1>2, <1>3, DisplayAssumption
<1>5. \A j \in 2..n : Display[j] \notin {DISPLAY, DELIM}
  BY DisplayAssumption
<1> HIDE DEF n
<1>6. Block[i - 1] # DELIM
  <2>1. CASE i = 2
    BY <1>1, <2>1, CodesDiffer
  <2>2. CASE i # 2
    <3>1. i - 1 \in 2..n /\ i - 1 \in 1..n
      BY <1>1, <1>2, <2>2
    <3> QED BY <1>1, <1>5, <3>1
  <2> QED BY <2>1, <2>2
<1>7. ClosedAt(Block, i)
  <2>1. n + 1 \in i..Len(Block) /\ Block[n + 1] = DELIM
    BY <1>1, <1>2
  <2>2. \A j \in i..n+1 : Block[j] # CR
    BY <1>1, <1>2, <1>4, CodesDiffer
  <2> QED BY <2>1, <2>2 DEF ClosedAt
<1>8. n + 1 - i + 1 >= Lag
  BY <1>1, <1>2, <1>4, LagIs
<1> QED BY <1>2, <1>6, <1>7, <1>8

LEMMA BurstTame == \A n \in Nat : Tame(Burst(n))
<1> DEFINE S == {n \in Nat : Tame(Burst(n))}
<1>1. 0 \in S
  <2>1. Tame(<<>>)
    BY EmptyText DEF Tame
  <2> QED BY <2>1, BurstGrows
<1>2. ASSUME NEW n \in Nat, n \in S
      PROVE  n + 1 \in S
  <2>1. Tame(Burst(n) \o Block)
    BY <1>2, BlockTame, TameJoin
  <2>2. Burst(n + 1) = Burst(n) \o Block
    BY BurstGrows, Zenon
  <2>3. n + 1 \in Nat
    OBVIOUS
  <2> QED BY <2>1, <2>2, <2>3
<1> HIDE DEF S
<1>3. Nat \subseteq S
  BY <1>1, <1>2, InductionOver
<1> QED BY <1>3 DEF S

LEMMA HeadJoined ==
  ASSUME NEW s \in Seq(Byte), NEW t \in Seq(Byte), NEW h, Len(s) > 0, s[1] = h
  PROVE  s \o t # <<>> /\ (s \o t)[1] = h /\ s \o t \in Seq(Byte) /\ Len(s \o t) > 0
<1>1. Len(s) \in Nat /\ Len(t) \in Nat /\ 1 \in 1..Len(s)
  BY LenProperties
<1>2. Len(s \o t) = Len(s) + Len(t) /\ (s \o t)[1] = s[1] /\ s \o t \in Seq(Byte)
  BY <1>1, JoinAt
<1> QED BY <1>1, <1>2, EmptyText

\* What the 1022 sends, one frame or the two a record without a result takes
IsFrame(f) ==
  \/ \E t \in Text, n \in Nat \ {0} : f = Frame(t, n)
  \/ \E n \in Nat \ {0} : f = LateWait(n)

LEMMA FrameCounts ==
  /\ \A t : SendFrame(t) => \E n \in Nat \ {0} : m_out' = Frame(t, n)
  /\ \A t : CountsOf(t) \subseteq Nat \ {0}
  /\ LateCounts \subseteq Nat \ {0}
<1>1. \A t : CountsOf(t) \subseteq Nat \ {0}
  BY DisplayAssumption DEF CountsOf
<1>2. LateCounts \subseteq Nat \ {0}
  <2>1. \A count \in DisplayCounts \ {1} : count - 1 \in Nat \ {0}
    BY DisplayAssumption
  <2> QED BY <2>1 DEF LateCounts
<1> QED BY <1>1, <1>2 DEF SendFrame

LEMMA WaitIsText == Wait \in Text /\ ~EndsDump(Wait)
<1>1. SEMI \in Byte \ LineCodes /\ 119 \in Byte \ LineCodes /\ CR \in Byte \ LineCodes
  BY DEF Byte, LineCodes, SEMI, CR, DISPLAY, PRINTER, DELIM
<1> QED BY <1>1 DEF Wait, Text, EndsDump

LEMMA FrameOrderly ==
  ASSUME NEW f, IsFrame(f)
  PROVE  f \in Seq(Byte) /\ Orderly(f) /\ f # <<>> /\ f[1] = DELIM
<1> DEFINE d == <<DELIM>>
           p == <<PRINTER>>
<1>0. d \in Seq(Byte) /\ p \in Seq(Byte) /\ Len(d) > 0 /\ d[1] = DELIM /\ Tame(d)
  BY Codes, DelimTame
<1>1. \A s : Tame(s) => s \o p \in Seq(Byte) /\ Orderly(s \o p)
  BY TameCloses
<1> HIDE DEF d, p
<1>2. ASSUME NEW t \in Text, NEW n \in Nat
      PROVE  Frame(t, n) \in Seq(Byte) /\ Orderly(Frame(t, n))
             /\ Frame(t, n) # <<>> /\ Frame(t, n)[1] = DELIM
  <2>1. Tame(t) /\ Tame(Burst(n)) /\ t \in Seq(Byte) /\ Burst(n) \in Seq(Byte)
    BY TextTame, BurstTame, TextIsBytes, BurstGrows
  <2>2. Tame((d \o t) \o Burst(n))
    BY <1>0, <2>1, TameJoin, Zenon
  <2>3. d \o t \in Seq(Byte) /\ Len(d \o t) > 0 /\ (d \o t)[1] = DELIM
    BY <1>0, <2>1, HeadJoined
  <2>4. /\ (d \o t) \o Burst(n) \in Seq(Byte) /\ Len((d \o t) \o Burst(n)) > 0
        /\ ((d \o t) \o Burst(n))[1] = DELIM
    BY <2>1, <2>3, HeadJoined
  <2>5. /\ ((d \o t) \o Burst(n)) \o p # <<>>
        /\ (((d \o t) \o Burst(n)) \o p)[1] = DELIM
    BY <1>0, <2>4, HeadJoined
  <2> QED BY <1>1, <2>2, <2>5 DEF Frame, d, p
<1>3. ASSUME NEW n \in Nat \ {0}, f = (((d \o Burst(n)) \o Wait) \o Burst(1)) \o p
      PROVE  f # <<>> /\ f[1] = DELIM /\ f \in Seq(Byte) /\ Orderly(f)
  <2>1. /\ Tame(Wait) /\ Tame(Burst(1)) /\ Wait \in Seq(Byte) /\ Burst(1) \in Seq(Byte)
        /\ Tame(Burst(n)) /\ Burst(n) \in Seq(Byte) /\ 1 \in Nat
    BY WaitIsText, TextTame, BurstTame, TextIsBytes, BurstGrows
  <2>2. Tame(((d \o Burst(n)) \o Wait) \o Burst(1))
    BY <1>0, <2>1, TameJoin, Zenon
  <2>3. d \o Burst(n) \in Seq(Byte) /\ Len(d \o Burst(n)) > 0 /\ (d \o Burst(n))[1] = DELIM
    BY <1>0, <2>1, HeadJoined
  <2>4. /\ (d \o Burst(n)) \o Wait \in Seq(Byte) /\ Len((d \o Burst(n)) \o Wait) > 0
        /\ ((d \o Burst(n)) \o Wait)[1] = DELIM
    BY <2>1, <2>3, HeadJoined
  <2>5. /\ ((d \o Burst(n)) \o Wait) \o Burst(1) \in Seq(Byte)
        /\ Len(((d \o Burst(n)) \o Wait) \o Burst(1)) > 0
        /\ (((d \o Burst(n)) \o Wait) \o Burst(1))[1] = DELIM
    BY <2>1, <2>4, HeadJoined
  <2>6. f # <<>> /\ f[1] = DELIM
    BY <1>0, <1>3, <2>5, HeadJoined
  <2> QED BY <1>1, <1>3, <2>2, <2>6
<1>4. \A n \in Nat \ {0} : n \in Nat
  OBVIOUS
<1> QED BY <1>2, <1>3, <1>4 DEF IsFrame, LateWait, d, p

-----------------------------------------------------------------------------
(* End marks *)

\* The end of a dump stands in front of a 0x91, where the handlers look for it.
Marked(s, i) == s[i] = DISPLAY /\ \A k \in 1..5 : s[i - k] = EndMark[6 - k]
Unmarked(s) == \A i \in 6..Len(s) : ~Marked(s, i)

LEMMA MarkBytes ==
  /\ \A k \in 1..5 : EndMark[6 - k] \notin LineCodes
  /\ EndMark[6 - 5] = SEMI
  /\ EndMark \in Seq(Byte) /\ Len(EndMark) = 5
BY DEF EndMark, LineCodes, DELIM, PRINTER, DISPLAY, SEMI, CR, Byte

LEMMA MarkedAt ==
  ASSUME NEW s, NEW i, NEW k \in 1..5, Marked(s, i)
  PROVE  s[i - k] = EndMark[6 - k]
BY DEF Marked

\* Only a mark across the seam can be new.
LEMMA UnmarkedJoin ==
  ASSUME NEW u \in Seq(Byte), NEW v \in Seq(Byte), Unmarked(u), Unmarked(v),
         \A i \in 1..5 : i \in 1..Len(v) /\ Len(u) + i >= 6 => ~Marked(u \o v, Len(u) + i)
  PROVE  Unmarked(u \o v)
<1> DEFINE w == u \o v
           m == Len(u)
           n == Len(v)
<1>1. /\ m \in Nat /\ n \in Nat /\ Len(w) = m + n
      /\ \A i \in 1..m : w[i] = u[i]
      /\ \A i \in 1..n : w[m + i] = v[i]
  BY JoinAt
<1>2. \A i \in 1..5 : i \in 1..n /\ m + i >= 6 => ~Marked(w, m + i)
  OBVIOUS
<1>3. (\A i \in 6..m : ~Marked(u, i)) /\ (\A i \in 6..n : ~Marked(v, i))
  BY DEF Unmarked
<1> HIDE DEF w, m, n
<1> SUFFICES ASSUME NEW i \in 6..m+n, Marked(w, i)
             PROVE  FALSE
  BY <1>1 DEF Unmarked, w
<1>4. CASE i <= m
  <2>2. i \in 6..m
    BY <1>1, <1>4
  <2>0. \A k \in 0..5 : i - k \in 1..m
    BY <1>1, <2>2
  <2>3. \A k \in 0..5 : w[i - k] = u[i - k]
    BY <1>1, <2>0
  <2>4. i - 0 = i
    BY <2>2
  <2>5. w[i] = DISPLAY /\ \A k \in 1..5 : w[i - k] = EndMark[6 - k]
    BY Zenon DEF Marked
  <2>6. \A k \in 1..5 : k \in 0..5
    OBVIOUS
  <2>7. 0 \in 0..5
    OBVIOUS
  <2>1. Marked(u, i)
    BY <2>3, <2>4, <2>5, <2>6, <2>7, Zenon DEF Marked
  <2> QED BY <1>3, <2>1, <2>2
<1>5. CASE i > m /\ i - m <= 5
  <2>1. i - m \in 1..5 /\ i - m \in 1..n /\ i = m + (i - m)
    BY <1>1, <1>5
  <2> QED BY <1>2, <2>1
<1>6. CASE i - m > 5
  <2> DEFINE h == i - m
  <2>1. h \in 6..n /\ i = m + h
    BY <1>1, <1>6
  <2> HIDE DEF h
  <2>2. \A k \in 0..5 : h - k \in 1..n /\ i - k = m + (h - k)
    BY <1>1, <2>1
  <2>3. \A k \in 0..5 : w[i - k] = v[h - k]
    BY <1>1, <2>2
  <2>5. w[i] = DISPLAY /\ \A k \in 1..5 : w[i - k] = EndMark[6 - k]
    BY Zenon DEF Marked
  <2>6. \A k \in 1..5 : k \in 0..5
    OBVIOUS
  <2>7. 0 \in 0..5 /\ i - 0 = i /\ h - 0 = h
    BY <1>1, <2>1
  <2>4. Marked(v, h)
    BY <2>3, <2>5, <2>6, <2>7, Zenon DEF Marked
  <2> QED BY <1>3, <2>1, <2>4
<1> QED BY <1>1, <1>4, <1>5, <1>6

\* A line code at the seam is in no mark.
LEMMA UnmarkedBehindDelim ==
  ASSUME NEW u \in Seq(Byte), NEW v \in Seq(Byte), Unmarked(u), Unmarked(v),
         Len(u) > 0, u[Len(u)] = DELIM
  PROVE  Unmarked(u \o v)
<1> SUFFICES ASSUME NEW i \in 1..5, i \in 1..Len(v), Marked(u \o v, Len(u) + i)
             PROVE  FALSE
  BY UnmarkedJoin
<1>1. Len(u) \in Nat /\ (u \o v)[Len(u)] = DELIM
  <2>1. Len(u) \in 1..Len(u)
    BY LenProperties
  <2> QED BY <2>1, JoinAt
<1>2. (u \o v)[(Len(u) + i) - i] = EndMark[6 - i]
  BY MarkedAt, Zenon
<1>3. (Len(u) + i) - i = Len(u)
  BY <1>1
<1> QED BY <1>1, <1>2, <1>3, MarkBytes DEF LineCodes

LEMMA UnmarkedBeforeCode ==
  ASSUME NEW u \in Seq(Byte), NEW v \in Seq(Byte), Unmarked(u), Unmarked(v),
         Len(v) > 0, v[1] \in LineCodes,
         v[1] = DISPLAY /\ Len(u) >= 5 => ~Marked(u \o v, Len(u) + 1)
  PROVE  Unmarked(u \o v)
<1> SUFFICES ASSUME NEW i \in 1..5, i \in 1..Len(v), Len(u) + i >= 6,
                    Marked(u \o v, Len(u) + i)
             PROVE  FALSE
  BY UnmarkedJoin
<1>1. Len(u) \in Nat /\ (u \o v)[Len(u) + 1] = v[1]
  BY JoinAt
<1>2. CASE i = 1
  BY <1>1, <1>2 DEF Marked
<1>3. CASE i # 1
  <2>1. i - 1 \in 1..5 /\ (Len(u) + i) - (i - 1) = Len(u) + 1
    BY <1>1, <1>3
  <2>0. i - 1 \in 1..5
    BY <2>1
  <2>2. (u \o v)[(Len(u) + i) - (i - 1)] = EndMark[6 - (i - 1)]
    BY <2>0, MarkedAt, Zenon
  <2> QED BY <1>1, <2>1, <2>2, MarkBytes
<1> QED BY <1>2, <1>3

\* Without a semicolon no mark begins.
NoSemi(s) == \A i \in 1..Len(s) : s[i] # SEMI

LEMMA UnmarkedNoSemi ==
  ASSUME NEW u \in Seq(Byte), NoSemi(u)
  PROVE  Unmarked(u)
<1> SUFFICES ASSUME NEW i \in 6..Len(u), Marked(u, i)
             PROVE  FALSE
  BY DEF Unmarked
<1>1. Len(u) \in Nat /\ i - 5 \in 1..Len(u)
  BY LenProperties
<1>2. u[i - 5] = SEMI
  BY MarkBytes, MarkedAt
<1> QED BY <1>1, <1>2 DEF NoSemi

LEMMA UnmarkedBehindPlain ==
  ASSUME NEW u \in Seq(Byte), NEW v \in Seq(Byte), NoSemi(u), Unmarked(v)
  PROVE  Unmarked(u \o v)
<1>1. Unmarked(u)
  BY UnmarkedNoSemi
<1> SUFFICES ASSUME NEW i \in 1..5, i \in 1..Len(v), Len(u) + i >= 6,
                    Marked(u \o v, Len(u) + i)
             PROVE  FALSE
  BY <1>1, UnmarkedJoin
<1>2. Len(u) \in Nat /\ (Len(u) + i) - 5 \in 1..Len(u)
  BY LenProperties
<1>3. (u \o v)[(Len(u) + i) - 5] = SEMI
  <2>1. 5 \in 1..5
    OBVIOUS
  <2>2. (u \o v)[(Len(u) + i) - 5] = EndMark[6 - 5]
    BY <2>1, MarkedAt, Zenon
  <2> QED BY <2>2, MarkBytes, Zenon
<1>4. u[(Len(u) + i) - 5] = SEMI
  BY <1>2, <1>3, JoinAt
<1> QED BY <1>2, <1>4 DEF NoSemi

LEMMA UnmarkedNoDisplay ==
  ASSUME NEW s \in Seq(Byte), \A i \in 2..Len(s) : s[i] # DISPLAY
  PROVE  Unmarked(s)
BY DEF Unmarked, Marked

-----------------------------------------------------------------------------
(* Types *)

\* What the 1022 has still to send of a dump is the end of the dump.
Rest(dump) == {SubSeq(dump, k, Len(dump)) : k \in 1..Len(dump)}

LinkTypeOK ==
  /\ line \in Seq(Byte) /\ Len(line) <= Lag
  /\ m_out \in Seq(Byte) /\ saved \in Seq(Byte)
  /\ m_mode \in {"steady", "report", "history", "log"} /\ m_log \in BOOLEAN
  /\ requested \in 0..Requests_Max /\ pressed \in 0..Presses_Max

LinkInv == TypeOK /\ LinkTypeOK /\ m_todo \in Seq(Text)

\* A master step puts a frame on the line, or leaves m_out alone.
Sends ==
  /\ m_todo' \in Seq(Text)
  /\ IsFrame(m_out')
  /\ pressed' \in 0..Presses_Max
  /\ m_mode' \in {"steady", "report", "history", "log"} /\ m_log' \in BOOLEAN

LEMMA Dumps ==
  \A dump \in {ReportRecords, HistoryRecords} :
    /\ dump \in Seq(Text) /\ Len(dump) \in Nat /\ Len(dump) > 1 /\ dump # <<>>
    /\ \A i \in 1..Len(dump) : EndsDump(dump[i]) <=> i = Len(dump)
    /\ Head(dump) \in Text /\ Tail(dump) \in Seq(Text)
<1> SUFFICES ASSUME NEW dump \in {ReportRecords, HistoryRecords}
             PROVE  /\ dump \in Seq(Text) /\ Len(dump) \in Nat /\ Len(dump) > 1 /\ dump # <<>>
                    /\ \A i \in 1..Len(dump) : EndsDump(dump[i]) <=> i = Len(dump)
                    /\ Head(dump) \in Text /\ Tail(dump) \in Seq(Text)
  OBVIOUS
<1>1. /\ dump \in Seq(Text) /\ Len(dump) > 1
      /\ \A i \in 1..Len(dump) : EndsDump(dump[i]) <=> i = Len(dump)
  BY LinkAssumption
<1>2. dump # <<>> /\ Len(dump) \in Nat
  BY <1>1
<1> QED BY <1>1, <1>2, HeadTailProperties

LEMMA PressText ==
  \A letter \in PanelLetters :
    /\ Press(letter) \in Text /\ ~EndsDump(Press(letter))
    /\ Press(letter) \o Wait \in Text /\ ~EndsDump(Press(letter) \o Wait)
<1> SUFFICES ASSUME NEW letter \in PanelLetters
             PROVE  /\ Press(letter) \in Text /\ ~EndsDump(Press(letter))
                    /\ Press(letter) \o Wait \in Text /\ ~EndsDump(Press(letter) \o Wait)
  OBVIOUS
<1> DEFINE P == Press(letter)
<1>1. letter \in Byte \ LineCodes
  BY LinkAssumption
<1>2. AT \in Byte \ LineCodes /\ CR \in Byte \ LineCodes
  BY DEF Byte, LineCodes, AT, CR, DISPLAY, PRINTER, DELIM
<1>3. P \in Text /\ Len(P) = 3
  BY <1>1, <1>2 DEF Press, Text
<1>4. Wait \in Text /\ Len(Wait) = 3 /\ Wait[1] = SEMI
  BY WaitIsText DEF Wait
<1> HIDE DEF P
<1>5. /\ P \o Wait \in Text /\ Len(P \o Wait) = 6
      /\ (P \o Wait)[4] = SEMI
  <2>1. P \in Seq(Byte) /\ Wait \in Seq(Byte)
    BY <1>3, <1>4, TextIsBytes
  <2>2. Len(P \o Wait) = Len(P) + Len(Wait) /\ \A i \in 1..Len(Wait) : (P \o Wait)[Len(P) + i] = Wait[i]
    BY <2>1, JoinAt, Zenon
  <2>3. Len(P \o Wait) = 6 /\ (P \o Wait)[3 + 1] = SEMI
    BY <1>3, <1>4, <2>2
  <2>4. P \o Wait \in Text
    BY <1>3, <1>4, ConcatProperties, Zenon DEF Text
  <2> QED BY <2>3, <2>4
<1>6. ~EndsDump(P \o Wait)
  <2> SUFFICES ASSUME EndsDump(P \o Wait)
               PROVE  FALSE
    OBVIOUS
  <2> DEFINE e == P \o Wait
  <2>1. SubSeq(e, 2, 6) = EndMark
    BY <1>5 DEF EndsDump
  <2>2. e \in Seq(Byte \ LineCodes) /\ Len(e) = 6 /\ e[4] = SEMI
    BY <1>5 DEF Text
  <2> HIDE DEF e
  <2>3. SubSeq(e, 2, 6)[3] = e[4]
    BY <2>2, SubSeqProperties
  <2>4. EndMark[3] # SEMI
    BY DEF EndMark, SEMI
  <2> QED BY <2>1, <2>2, <2>3, <2>4
<1>7. ~EndsDump(P)
  BY <1>3 DEF EndsDump
<1> QED BY <1>3, <1>5, <1>6, <1>7 DEF P

\* Whatever the 1022 hears, what it sends next is a frame.
LEMMA HearSends ==
  ASSUME NEW st, NEW request, Hear(st, request), LinkInv
  PROVE  Sends
<1>1. \A t \in Text : SendFrame(t) => IsFrame(m_out')
  BY FrameCounts DEF IsFrame
<1>2. <<>> \in Text
  BY DEF Text
<1>3. /\ m_todo \in Seq(Text) /\ pressed \in 0..Presses_Max /\ Presses_Max \in Nat
      /\ m_mode \in {"steady", "report", "history", "log"} /\ m_log \in BOOLEAN
  BY LinkAssumption DEF LinkInv, LinkTypeOK
<1>4. pressed < Presses_Max => pressed + 1 \in 0..Presses_Max
  BY <1>3
<1>5. ASSUME Silence
      PROVE  Sends
  BY <1>1, <1>2, <1>3, <1>5 DEF Silence, Sends
<1>6. ASSUME Ignore
      PROVE  Sends
  <2>1. IsFrame(m_out') /\ pressed' \in 0..Presses_Max
    BY <1>1, <1>2, <1>3, <1>4, <1>6, PressText DEF Ignore, IdleFrame
  <2> QED BY <1>3, <1>6, <2>1 DEF Ignore, Sends
<1>7. ASSUME HearReport \/ HearHistory
      PROVE  Sends
  BY <1>1, <1>2, <1>3, <1>7, Dumps DEF HearReport, HearHistory, Sends
<1>8. ASSUME HearLogStart
      PROVE  Sends
  BY <1>1, <1>3, <1>8, LinkAssumption DEF HearLogStart, Sends
<1>9. ASSUME HearLogRecord
      PROVE  Sends
  <2>0. \A n \in LateCounts : m_out' = LateWait(n) => IsFrame(m_out')
    BY FrameCounts DEF IsFrame
  <2>1. IsFrame(m_out') /\ pressed' \in 0..Presses_Max
    BY <1>1, <1>3, <1>4, <1>9, <2>0, PressText, WaitIsText, LinkAssumption DEF HearLogRecord
  <2> QED BY <1>3, <1>9, <2>1 DEF HearLogRecord, Sends
<1>10. ASSUME HearNoLogBit
       PROVE  Sends
  BY <1>1, <1>2, <1>3, <1>10 DEF HearNoLogBit, Sends
<1>11. ASSUME NextRecord
       PROVE  Sends
  <2>1. m_todo # <<>>
    BY <1>11 DEF NextRecord
  <2>2. Head(m_todo) \in Text /\ Tail(m_todo) \in Seq(Text)
    BY <1>3, <2>1, HeadTailProperties
  <2>3. m_mode' \in {"steady", "report", "history", "log"}
    BY <1>3, <1>11 DEF NextRecord
  <2> QED BY <1>1, <1>3, <1>11, <2>2, <2>3 DEF NextRecord, Sends
<1> QED BY <1>5, <1>6, <1>7, <1>8, <1>9, <1>10, <1>11 DEF Hear

LEMMA SubSeqType ==
  ASSUME NEW s \in Seq(Byte)
  PROVE  SubSeq(s, 2, Len(s)) \in Seq(Byte)
<1>1. \A i \in 2..Len(s) : s[i] \in Byte
  BY LenProperties
<1>2. Len(s) \in Int /\ 2 \in Int
  BY LenProperties
<1> QED BY <1>1, <1>2, SubSeqProperties

LEMMA InitLinkInv == LinkInit => LinkInv
<1> SUFFICES ASSUME LinkInit
             PROVE  LinkInv
  OBVIOUS
<1>1. TypeOK
  BY InitType DEF LinkInit
<1>2. m_out \in Seq(Byte)
  <2> DEFINE f == Frame(<<>>, 1)
  <2>1. <<>> \in Text /\ 1 \in Nat
    BY DEF Text
  <2>2. f \in Seq(Byte)
    BY <2>1, FrameType
  <2> HIDE DEF f
  <2>3. PICK k \in 1..Len(f) : m_out = SubSeq(f, k, Len(f))
    BY DEF LinkInit, f
  <2>4. Len(f) \in Nat /\ k \in Int /\ \A i \in k..Len(f) : f[i] \in Byte
    BY <2>2, <2>3
  <2> QED BY <2>3, <2>4, SubSeqProperties
<1>3. Len(line) = 0 /\ line \in Seq(Byte) /\ m_todo \in Seq(Text) /\ saved \in Seq(Byte)
  BY DEF LinkInit
<1>4. /\ m_mode \in {"steady", "report", "history", "log"} /\ m_log \in BOOLEAN
      /\ requested \in 0..Requests_Max /\ pressed \in 0..Presses_Max
  <2>1. Presses_Max \in Nat /\ Requests_Max \in Nat
    BY LinkAssumption
  <2>2. m_mode = "steady" /\ m_log = FALSE /\ requested = 0 /\ pressed = 0
    BY DEF LinkInit
  <2>3. m_log \in BOOLEAN
    BY <2>2, Zenon
  <2>4. requested \in 0..Requests_Max /\ pressed \in 0..Presses_Max
    BY <2>1, <2>2
  <2> QED BY <2>2, <2>3, <2>4
<1>5. Len(line) <= Lag
  BY <1>3, LagIs
<1> QED BY <1>1, <1>2, <1>3, <1>4, <1>5 DEF LinkInv, LinkTypeOK

\* The byte that is delivered is one the engine may receive: the steps of the
\* link are steps of the engine.
LEMMA LinkStepsEngine ==
  ASSUME LinkInv, [LinkNext]_linkVars
  PROVE  [Next]_engineVars
<1>1. CASE SendByte \/ TakeReply \/ SlotOver \/ UNCHANGED linkVars
  BY <1>1 DEF SendByte, TakeReply, SlotOver, linkVars
<1>2. CASE Deliver
  <2>1. Head(line) \in Bytes
    BY <1>2, HeadTailProperties, LinkAssumption DEF LinkInv, LinkTypeOK, Deliver
  <2> QED BY <1>2, <2>1 DEF Deliver, Next
<1>3. CASE \E m \in Messages \cup {NoRequest} : Loop(m)
  BY <1>3 DEF Loop, Next
<1> QED BY <1>1, <1>2, <1>3 DEF LinkNext

LEMMA NextLinkInv == LinkInv /\ [LinkNext]_linkVars => LinkInv'
<1> SUFFICES ASSUME LinkInv, [LinkNext]_linkVars
             PROVE  LinkInv'
  OBVIOUS
<1>1. TypeOK'
  BY LinkStepsEngine, NextType DEF LinkInv
<1>2. LinkTypeOK /\ m_todo \in Seq(Text) /\ Lag \in Nat
  BY LagIs DEF LinkInv
<1>3. CASE SendByte
  <2>1. /\ Head(m_out) \in Byte /\ Tail(m_out) \in Seq(Byte)
        /\ line \in Seq(Byte) /\ Len(line) < Lag
    BY <1>2, <1>3, HeadTailProperties DEF SendByte, LinkTypeOK
  <2>2. Append(line, Head(m_out)) \in Seq(Byte) /\ Len(Append(line, Head(m_out))) = Len(line) + 1
        /\ Len(line) \in Nat
    BY <2>1, AppendProperties
  <2>3. Len(line') <= Lag /\ line' \in Seq(Byte)
    BY <1>2, <1>3, <2>1, <2>2 DEF SendByte
  <2> QED BY <1>1, <1>2, <1>3, <2>1, <2>3 DEF SendByte, LinkInv, LinkTypeOK, engineVars
<1>4. CASE TakeReply \/ SlotOver
  <2>1. Sends
    <3>1. Silence => Sends
      <4>1. <<>> \in Text
        BY DEF Text
      <4> QED BY <1>2, <4>1, FrameCounts DEF Silence, Sends, IsFrame, LinkTypeOK
    <3>2. \A st, request : Hear(st, request) => Sends
      BY HearSends
    <3> QED BY <1>4, <3>1, <3>2 DEF TakeReply, SlotOver
  <2>2. m_out' \in Seq(Byte)
    BY <2>1, FrameOrderly DEF Sends
  <2> QED BY <1>1, <1>2, <1>4, <2>1, <2>2 DEF TakeReply, SlotOver, Sends, LinkInv, LinkTypeOK
<1>5. CASE Deliver
  <2>1. line \in Seq(Byte) /\ line # <<>> /\ Len(line) <= Lag
    BY <1>2, <1>5 DEF Deliver, LinkTypeOK
  <2>2. Tail(line) \in Seq(Byte) /\ Len(Tail(line)) = Len(line) - 1 /\ Len(line) \in Nat
    BY <2>1, HeadTailProperties, LenProperties
  <2>3. line' \in Seq(Byte) /\ Len(line') <= Lag
    BY <1>2, <1>5, <2>1, <2>2 DEF Deliver
  <2>4. saved' \in Seq(Byte)
    <3>1. wrote'.data \in Seq(Byte)
      BY <1>1 DEF TypeOK, ParserTypeOK, Written
    <3>2. SubSeq(wrote'.data, 2, Len(wrote'.data)) \in Seq(Byte)
      BY <3>1, SubSeqType
    <3>3. saved \o SubSeq(wrote'.data, 2, Len(wrote'.data)) \in Seq(Byte)
      BY <1>2, <3>2, Joined DEF LinkTypeOK
    <3> QED BY <1>2, <1>5, <3>3, EmptyText DEF Deliver, Save, LinkTypeOK
  <2> QED BY <1>1, <1>2, <1>5, <2>3, <2>4 DEF Deliver, LinkInv, LinkTypeOK
<1>6. CASE \E m \in Messages \cup {NoRequest} : Loop(m)
  <2>1. requested' \in 0..Requests_Max
    BY <1>2, <1>6, LinkAssumption DEF Loop, LinkTypeOK
  <2> QED BY <1>1, <1>2, <1>6, <2>1 DEF Loop, masterVars, LinkInv, LinkTypeOK
<1>7. CASE UNCHANGED linkVars
  BY <1>1, <1>2, <1>7 DEF linkVars, masterVars, LinkInv, LinkTypeOK
<1> QED BY <1>3, <1>4, <1>5, <1>6, <1>7 DEF LinkNext

\* The engine on the line is the engine: every property proved of it for any
\* bytes holds of it here.
THEOREM LinkIsEngine == LinkSpec => Spec
<1>1. LinkSpec => []LinkInv
  BY InitLinkInv, NextLinkInv, PTL DEF LinkSpec
<1>2. LinkInit => Init
  BY DEF LinkInit
<1>3. LinkInv /\ [LinkNext]_linkVars => [Next]_engineVars
  BY LinkStepsEngine
<1> QED BY <1>1, <1>2, <1>3, PTL DEF LinkSpec, Spec

\* Clients of the engine on the line are told what has just happened, once.
THEOREM LinkCompletionsAreTrue == LinkSpec => []CompletionIsTrue
BY LinkIsEngine, CompletionsAreTrue, PTL

\* A dump that interrupts log mode gives way to it again, on the line too.
THEOREM LinkLogModeComesBack == LinkSpec => LogModeResumes
BY LinkIsEngine, LogModeComesBack, PTL

-----------------------------------------------------------------------------
(* What a byte does to the record *)

NoDelimAtEnd(s) == s # <<>> => s[Len(s)] # DELIM

\* The byte ends the process, joins the record, begins a new one, is the CR of
\* a directive, which is dropped, or is answered with what then is the record.
RecordStep(b) ==
  \/ fault' # "none"
  \/ Contents' = Append(Contents, b)
  \/ Contents' \in {<<b>>, <<DELIM, b>>}
  \/ Contents' = <<>> /\ b = CR
  \/ NoSemi(Contents') /\ NoDelimAtEnd(Contents') /\ tx' # <<>>

\* What the engine asks for in the state it enters with an answer
Asked(state) ==
  CASE state = "RPT_START" -> {<<RCh, CR>>}
    [] state = "HST_START" -> {<<ICh, CR>>}
    [] state = "LOG_START" -> {<<TCh, CR>>}
    [] state = "HST_PRINTER_ACTIVE" -> {<<TCh, CR>>, <<HCh, CR>>}
    [] state = "LOG_PRINTER_ACTIVE" -> {<<LCh, CR>>}
    [] state \in {"SS_PRINTER", "RPT_PRINTER"} -> {<<>>}
    [] OTHER -> {}

Answered(a) ==
  /\ \E request \in Asked(header_state) : a = <<StatusOf(logmode)>> \o request
  /\ header_state \in {"LOG_START", "LOG_PRINTER_ACTIVE"} => logmode

\* An answer goes out on the 0x90 of a poll, or on any 0x90 in SS_PAUSE.
AnswerStep(b) ==
  \/ tx' = <<>>
  \/ /\ b = PRINTER
     /\ header_state = "SS_PAUSE" \/ (buffer_len > 0 /\ LastByte = DELIM)
     /\ Answered(tx)'
     /\ NoSemi(Contents')

LEMMA NewContents ==
  ASSUME buffer' \in [0..BufSize-1 -> Byte], buffer_len' \in 0..BufSize
  PROVE  /\ Contents' \in Seq(Byte) /\ Len(Contents') = buffer_len'
         /\ \A k \in 1..buffer_len' : Contents'[k] = buffer'[k - 1]
<1>1. BufSize \in Nat
  BY ParserAssumption
<1>2. \A k \in 1..buffer_len' : buffer'[k - 1] \in Byte
  BY <1>1
<1> QED BY <1>1, <1>2 DEF Contents

LEMMA FilledContents ==
  ASSUME ParserTypeOK, NEW rec, Record(rec), Fill(rec)
  PROVE  Contents' = rec
<1>1. rec \in Seq(Byte) /\ Len(rec) \in 1..5 /\ BufSize \in Nat /\ BufSize >= 5
  BY ParserAssumption DEF Record
<1>2. buffer_len' = Len(rec)
  BY DEF Fill
<1> DEFINE n == Len(rec)
<1>0. n \in 1..5
  BY <1>1
<1> HIDE DEF n
<1>3. \A k \in 1..n : buffer'[k - 1] = rec[k]
  <2> SUFFICES ASSUME NEW k \in 1..n
               PROVE  buffer'[k - 1] = rec[k]
    OBVIOUS
  <2>1. k - 1 \in 0..BufSize-1 /\ k - 1 < n /\ (k - 1) + 1 = k
    BY <1>0, <1>1
  <2> QED BY <2>1 DEF Fill, n
<1>4. buffer' \in [0..BufSize-1 -> Byte] /\ buffer_len' \in 0..BufSize
  BY FillType
<1> QED BY <1>1, <1>2, <1>3, <1>4, NewContents, SeqEqual DEF n

LEMMA PushedContents ==
  ASSUME ParserTypeOK, NEW b \in Byte, Push(b)
  PROVE  fault' # "none" \/ Contents' = Append(Contents, b)
<1>1. buffer \in [0..BufSize-1 -> Byte] /\ buffer_len \in 0..BufSize /\ BufSize \in Nat
  BY ParserAssumption DEF ParserTypeOK
<1>2. CASE buffer_len < BufSize
  <2>1. buffer' = [buffer EXCEPT ![buffer_len] = b] /\ buffer_len' = buffer_len + 1
    BY <1>2 DEF Push
  <2>2. \A k \in 1..buffer_len+1 :
          buffer'[k - 1] = IF k = buffer_len + 1 THEN b ELSE buffer[k - 1]
    BY <1>1, <1>2, <2>1
  <2>3. /\ Contents' \in Seq(Byte) /\ Len(Contents') = buffer_len + 1
        /\ \A k \in 1..buffer_len+1 : Contents'[k] = buffer'[k - 1]
    <3>1. buffer' \in [0..BufSize-1 -> Byte] /\ buffer_len' \in 0..BufSize
      BY PushType
    <3> QED BY <2>1, <3>1, NewContents
  <2>4. Contents \in Seq(Byte) /\ Len(Contents) = buffer_len
    BY ContentsType
  <2>5. /\ Append(Contents, b) \in Seq(Byte) /\ Len(Append(Contents, b)) = buffer_len + 1
        /\ \A k \in 1..buffer_len : Append(Contents, b)[k] = Contents[k]
        /\ Append(Contents, b)[buffer_len + 1] = b
    BY <2>4, AppendProperties
  <2>6. \A k \in 1..buffer_len : Contents[k] = buffer[k - 1]
    BY DEF Contents
  <2>7. \A k \in 1..buffer_len+1 : Contents'[k] = Append(Contents, b)[k]
    <3> SUFFICES ASSUME NEW k \in 1..buffer_len+1
                 PROVE  Contents'[k] = Append(Contents, b)[k]
      OBVIOUS
    <3>1. CASE k = buffer_len + 1
      BY <1>1, <2>2, <2>3, <2>5, <3>1
    <3>2. CASE k # buffer_len + 1
      <4>1. k \in 1..buffer_len
        BY <1>1, <3>2
      <4> QED BY <2>2, <2>3, <2>5, <2>6, <4>1, <3>2
    <3> QED BY <3>1, <3>2
  <2> QED BY <2>3, <2>5, <2>7, SeqEqual
<1>3. CASE ~(buffer_len < BufSize)
  BY <1>3 DEF Push
<1> QED BY <1>2, <1>3

\* The answer becomes the record: no semicolon, no 0x98 at its end.
LEMMA AnsweredContents ==
  ASSUME ParserTypeOK, NEW b \in Byte, b \in {PRINTER, DELIM},
         NEW prefix \in {<<b>>, <<DELIM, b>>}, NEW lm \in BOOLEAN, NEW state,
         NEW request \in {<<>>, <<RCh, CR>>, <<ICh, CR>>, <<TCh, CR>>, <<HCh, CR>>, <<LCh, CR>>},
         Answer(state, prefix, lm, request)
  PROVE  /\ NoSemi(Contents') /\ NoDelimAtEnd(Contents')
         /\ tx' = <<StatusOf(lm)>> \o request /\ tx' # <<>>
         /\ header_state' = state
<1> DEFINE rec == prefix \o <<StatusOf(lm)>> \o request
<1>1. StatusOf(lm) \in Byte /\ StatusOf(lm) \notin {SEMI, DELIM}
  BY DEF StatusOf, SEMI, DELIM, Byte
<1>2. /\ Len(prefix) \in 1..2 /\ prefix \in Seq(Byte)
      /\ \A i \in 1..Len(prefix) : prefix[i] # SEMI
  <2>1. b \in Byte /\ b # SEMI /\ DELIM \in Byte /\ DELIM # SEMI
    BY Codes, CodesDiffer
  <2>2. CASE prefix = <<b>>
    BY <2>1, <2>2
  <2>3. CASE prefix = <<DELIM, b>>
    BY <2>1, <2>3
  <2> QED BY <2>2, <2>3
<1>3. /\ Len(request) \in 0..2 /\ request \in Seq(Byte)
      /\ \A i \in 1..Len(request) : request[i] \notin {SEMI, DELIM}
  <2>1. {RCh, ICh, TCh, HCh, LCh, CR} \subseteq Byte \ {SEMI, DELIM}
    BY DEF RCh, ICh, TCh, HCh, LCh, CR, SEMI, DELIM, Byte
  <2>2. CASE request = <<>>
    BY <2>2
  <2>3. CASE \E letter \in {RCh, ICh, TCh, HCh, LCh} : request = <<letter, CR>>
    <3>1. PICK letter \in {RCh, ICh, TCh, HCh, LCh} : request = <<letter, CR>>
      BY <2>3
    <3>2. letter \in Byte \ {SEMI, DELIM} /\ CR \in Byte \ {SEMI, DELIM}
      BY <2>1
    <3> QED BY <3>1, <3>2
  <2> QED BY <2>2, <2>3
<1> DEFINE s == <<StatusOf(lm)>>
<1>4. s \in Seq(Byte) /\ Len(s) = 1 /\ s[1] = StatusOf(lm)
  BY <1>1
<1> HIDE DEF s
<1>5. /\ s \o request \in Seq(Byte) /\ Len(s \o request) = 1 + Len(request)
      /\ (s \o request)[1] = StatusOf(lm)
      /\ \A i \in 1..Len(request) : (s \o request)[1 + i] = request[i]
  <2>1. /\ s \o request \in Seq(Byte) /\ Len(s \o request) = Len(s) + Len(request)
        /\ \A i \in 1..Len(s) : (s \o request)[i] = s[i]
        /\ \A i \in 1..Len(request) : (s \o request)[Len(s) + i] = request[i]
    BY <1>3, <1>4, JoinAt, Zenon
  <2>2. 1 \in 1..Len(s)
    BY <1>4
  <2> QED BY <1>4, <2>1, <2>2
<1> DEFINE a == s \o request
<1>6. a # <<>>
  BY <1>3, <1>5
<1>7. \A i \in 1..Len(a) : a[i] \notin {SEMI, DELIM}
  <2> SUFFICES ASSUME NEW i \in 1..Len(a)
               PROVE  a[i] \notin {SEMI, DELIM}
    OBVIOUS
  <2>1. CASE i = 1
    BY <1>1, <1>5, <2>1
  <2>2. CASE i # 1
    <3>1. i - 1 \in 1..Len(request) /\ 1 + (i - 1) = i
      BY <1>3, <1>5, <2>2
    <3> QED BY <1>3, <1>5, <3>1
  <2> QED BY <2>1, <2>2
<1> HIDE DEF a
<1>8. a \in Seq(Byte) /\ Len(a) \in 1..3
  BY <1>3, <1>5 DEF a
<1>9. /\ prefix \o a \in Seq(Byte) /\ Len(prefix \o a) = Len(prefix) + Len(a)
      /\ \A i \in 1..Len(prefix) : (prefix \o a)[i] = prefix[i]
      /\ \A i \in 1..Len(a) : (prefix \o a)[Len(prefix) + i] = a[i]
  BY <1>2, <1>8, JoinAt
<1>10. rec = prefix \o a
  <2>1. prefix \o s \o request = prefix \o (s \o request)
    BY <1>2, <1>3, <1>4, ConcatAssociative
  <2> QED BY <2>1 DEF a, s
<1> DEFINE r == prefix \o a
<1>11. NoSemi(r)
  <2> SUFFICES ASSUME NEW i \in 1..Len(r)
               PROVE  r[i] # SEMI
    BY DEF NoSemi
  <2>1. CASE i <= Len(prefix)
    BY <1>2, <1>9, <2>1
  <2>2. CASE i > Len(prefix)
    <3>1. i - Len(prefix) \in 1..Len(a) /\ Len(prefix) + (i - Len(prefix)) = i
      BY <1>2, <1>8, <1>9, <2>2
    <3> QED BY <1>7, <1>9, <3>1
  <2> QED BY <1>2, <2>1, <2>2
<1>12. r[Len(r)] # DELIM
  <2> DEFINE n == Len(a)
             m == Len(prefix)
  <2>0. n \in 1..3 /\ \A i \in 1..n : a[i] # DELIM
    BY <1>7, <1>8
  <2> HIDE DEF n
  <2>1. n \in 1..n /\ a[n] # DELIM
    BY <2>0
  <2>2. Len(r) = m + n /\ r[m + n] = a[n]
    BY <1>9, <2>1 DEF n
  <2> QED BY <2>1, <2>2
<1> HIDE DEF rec, r
<1>13. Contents' = rec
  <2>0. Len(prefix \o a) \in 1..5 /\ prefix \o a \in Seq(Byte)
    <3> DEFINE n == Len(a)
               m == Len(prefix)
    <3>1. m \in 1..2 /\ n \in 1..3 /\ Len(prefix \o a) = m + n
      BY <1>2, <1>8, <1>9
    <3> HIDE DEF n, m
    <3> QED BY <1>9, <3>1
  <2>1. Record(rec)
    BY <1>10, <2>0 DEF Record
  <2> QED BY <2>1, FilledContents DEF Answer, Goto, rec
<1> QED BY <1>6, <1>10, <1>11, <1>12, <1>13 DEF NoDelimAtEnd, Answer, Goto, a, s, r

HandlerStep(b) == RecordStep(b) /\ AnswerStep(b)

LEMMA PushesOn ==
  ASSUME ParserTypeOK, NEW b \in Byte, Push(b), tx' = <<>>
  PROVE  HandlerStep(b)
BY PushedContents DEF HandlerStep, RecordStep, AnswerStep

LEMMA BeginsRecord ==
  ASSUME ParserTypeOK, NEW b \in Byte, tx' = <<>>, NEW state,
         Goto(state, <<b>>) \/ Goto(state, <<DELIM, b>>)
  PROVE  HandlerStep(b)
<1>1. Record(<<b>>) /\ Record(<<DELIM, b>>)
  BY Codes DEF Record
<1>2. Contents' \in {<<b>>, <<DELIM, b>>}
  BY <1>1, FilledContents DEF Goto
<1> QED BY <1>2 DEF HandlerStep, RecordStep, AnswerStep

LEMMA DiesThere ==
  ASSUME NEW b, NullStream \/ Dies("overrun")
  PROVE  HandlerStep(b)
BY DEF NullStream, Dies, Silent, NoReply, HandlerStep, RecordStep, AnswerStep

LEMMA AskedIs ==
  /\ Asked("RPT_START") = {<<RCh, CR>>} /\ Asked("HST_START") = {<<ICh, CR>>}
  /\ Asked("LOG_START") = {<<TCh, CR>>} /\ Asked("LOG_PRINTER_ACTIVE") = {<<LCh, CR>>}
  /\ Asked("HST_PRINTER_ACTIVE") = {<<TCh, CR>>, <<HCh, CR>>}
  /\ Asked("SS_PRINTER") = {<<>>} /\ Asked("RPT_PRINTER") = {<<>>}
BY DEF Asked

LEMMA AnswersPoll ==
  ASSUME ParserTypeOK, NEW b \in Byte, b = PRINTER,
         NEW prefix \in {<<b>>, <<DELIM, b>>}, NEW lm \in BOOLEAN,
         NEW state, NEW request \in Asked(state),
         Answer(state, prefix, lm, request), logmode' = lm,
         state \in {"LOG_START", "LOG_PRINTER_ACTIVE"} => lm,
         header_state = "SS_PAUSE" \/ (buffer_len > 0 /\ LastByte = DELIM)
  PROVE  HandlerStep(b)
<1>1. request \in {<<>>, <<RCh, CR>>, <<ICh, CR>>, <<TCh, CR>>, <<HCh, CR>>, <<LCh, CR>>}
  BY AskedIs DEF Asked
<1>2. /\ NoSemi(Contents') /\ NoDelimAtEnd(Contents')
      /\ tx' = <<StatusOf(lm)>> \o request /\ tx' # <<>> /\ header_state' = state
  <2>1. b \in {PRINTER, DELIM}
    OBVIOUS
  <2> DEFINE rec == <<StatusOf(lm)>> \o request
  <2>2. tx' = rec /\ NoSemi(Contents') /\ NoDelimAtEnd(Contents') /\ tx' # <<>>
        /\ header_state' = state
    BY <1>1, <2>1, AnsweredContents
  <2> QED BY <2>2
<1>3. Answered(tx)'
  BY <1>2 DEF Answered
<1> QED BY <1>2, <1>3 DEF HandlerStep, RecordStep, AnswerStep

LEMMA SteadyHandler ==
  ASSUME ParserTypeOK, Active, NEW b \in Byte,
         SS_Unknown(b) \/ SS_Pause(b) \/ SS_Display(b) \/ SS_Printer(b)
  PROVE  HandlerStep(b)
<1>0. \A lm : StatusOf(lm) \in Byte
  BY Codes
<1>1. CASE SS_Unknown(b)
  BY <1>1, PushesOn, BeginsRecord DEF SS_Unknown, Enter, Accumulate, Silent, NoReply
<1>2. CASE SS_Display(b)
  BY <1>2, PushesOn, BeginsRecord, DiesThere DEF SS_Display, Accumulate, Silent, NoReply
<1>3. CASE SS_Printer(b)
  BY <1>3, PushesOn, BeginsRecord DEF SS_Printer, Enter, PushTo, Accumulate, Silent, NoReply
<1>4. CASE SS_Pause(b) /\ b = PRINTER
  <2>1. header_state = "SS_PAUSE" /\ SS_Pause_Active(b) /\ logmode \in BOOLEAN
    BY <1>4 DEF SS_Pause, ParserTypeOK
  <2> DEFINE p == <<b>>
  <2>2. p \in {<<b>>, <<DELIM, b>>}
    OBVIOUS
  <2> HIDE DEF p
  <2>3. CASE StartSession("REPORT_REQ", "RPT_START", p, <<RCh, CR>>)
    <3>1. Answer("RPT_START", p, logmode, <<RCh, CR>>) /\ logmode' = logmode
      BY <2>3 DEF StartSession
    <3>2. <<RCh, CR>> \in Asked("RPT_START")
      BY AskedIs
    <3> QED BY <1>4, <2>1, <2>2, <3>1, <3>2, AnswersPoll
  <2>4. CASE StartSession("HISTORY_REQ", "HST_START", p, <<ICh, CR>>)
    <3>1. Answer("HST_START", p, logmode, <<ICh, CR>>) /\ logmode' = logmode
      BY <2>4 DEF StartSession
    <3>2. <<ICh, CR>> \in Asked("HST_START")
      BY AskedIs
    <3> QED BY <1>4, <2>1, <2>2, <3>1, <3>2, AnswersPoll
  <2>5. CASE StartLog(b)
    <3>1. PICK up \in BOOLEAN : up = TRUE
      OBVIOUS
    <3>2. Answer("LOG_START", p, up, <<TCh, CR>>) /\ logmode' = up
      BY <2>5, <3>1 DEF StartLog, p
    <3>3. <<TCh, CR>> \in Asked("LOG_START")
      BY AskedIs
    <3> QED BY <1>4, <2>1, <2>2, <3>1, <3>2, <3>3, AnswersPoll
  <2>6. CASE Answer("SS_PRINTER", p, logmode, <<>>) /\ logmode' = logmode
    <3>1. <<>> \in Asked("SS_PRINTER")
      BY AskedIs
    <3> QED BY <1>4, <2>1, <2>2, <2>6, <3>1, AnswersPoll
  <2> QED BY <2>1, <2>3, <2>4, <2>5, <2>6 DEF SS_Pause_Active, p
<1>5. CASE SS_Pause(b) /\ b # PRINTER
  <2>1. CASE SS_Pause_Directive /\ IsDirective(b)
    <3>1. buffer_len' = 0 /\ tx' = <<>> /\ b = CR
      BY <2>1 DEF SS_Pause_Directive, Silent, NoReply, IsDirective
    <3>2. Contents' = <<>>
      BY <3>1 DEF Contents
    <3> QED BY <2>1, <3>1, <3>2 DEF HandlerStep, RecordStep, AnswerStep
  <2>2. CASE ~(SS_Pause_Directive /\ IsDirective(b))
    BY <1>5, <2>2, PushesOn DEF SS_Pause, Accumulate, Silent, NoReply
  <2> QED BY <2>1, <2>2
<1> QED BY <1>1, <1>2, <1>3, <1>4, <1>5

LEMMA ReportHandler ==
  ASSUME ParserTypeOK, RecordBegun, NEW b \in Byte, Active,
         RPT_Start(b) \/ RPT_Data(b) \/ RPT_Display(b) \/ RPT_Printer(b)
  PROVE  HandlerStep(b)
<1>1. CASE RPT_Start(b)
  BY <1>1, PushesOn, BeginsRecord, DiesThere DEF RPT_Start, Accumulate, Silent, NoReply
<1>2. CASE RPT_Data(b)
  BY <1>2, PushesOn, BeginsRecord DEF RPT_Data, Accumulate, Silent, NoReply
<1>3. CASE RPT_Printer(b)
  BY <1>3, PushesOn, BeginsRecord DEF RPT_Printer, Enter, Accumulate, Silent, NoReply
<1>4. CASE RPT_Display(b)
  <2>1. CASE PollSeen(b) /\ ~ReadingLost
    <3>1. /\ Answer("RPT_PRINTER", <<DELIM, b>>, logmode, <<>>) /\ logmode' = logmode
          /\ b = PRINTER /\ buffer_len > 0 /\ LastByte = DELIM /\ logmode \in BOOLEAN
      BY <1>4, <2>1 DEF RPT_Display, PollSeen, RecordBegun, ParserTypeOK
    <3>2. <<>> \in Asked("RPT_PRINTER")
      BY AskedIs
    <3> QED BY <3>1, <3>2, AnswersPoll
  <2> QED BY <1>4, <2>1, PushesOn, DiesThere DEF RPT_Display, Accumulate, Silent, NoReply
<1> QED BY <1>1, <1>2, <1>3, <1>4

LEMMA HistoryHandler ==
  ASSUME ParserTypeOK, RecordBegun, NEW b \in Byte, Active, ListensOnly,
         \/ HST_Start(b) \/ HST_Display(b) \/ HST_Printer(b) \/ HST_Printer_Active(b)
         \/ HST_Data(b)
  PROVE  HandlerStep(b)
<1>1. CASE HST_Start(b)
  BY <1>1, PushesOn, BeginsRecord, DiesThere DEF HST_Start, Accumulate, Silent, NoReply
<1>2. CASE HST_Data(b)
  BY <1>2, PushesOn, BeginsRecord, DiesThere DEF HST_Data, Accumulate, Silent, NoReply
<1>3. CASE HST_Printer_Active(b)
  BY <1>3, PushesOn, BeginsRecord DEF HST_Printer_Active, Enter, Accumulate, Silent, NoReply
<1>4. CASE HST_Display(b)
  <2>1. CASE PollSeen(b) /\ ~ReadingLost
    <3>1. /\ Answer("HST_PRINTER_ACTIVE", <<DELIM, b>>, logmode,
                    IF hst_is_first THEN <<TCh, CR>> ELSE <<HCh, CR>>)
          /\ logmode' = logmode
          /\ b = PRINTER /\ buffer_len > 0 /\ LastByte = DELIM /\ logmode \in BOOLEAN
      BY <1>4, <2>1 DEF HST_Display, PollSeen, RecordBegun, ParserTypeOK
    <3>2. (IF hst_is_first THEN <<TCh, CR>> ELSE <<HCh, CR>>) \in Asked("HST_PRINTER_ACTIVE")
      BY AskedIs
    <3> QED BY <3>1, <3>2, AnswersPoll
  <2> QED BY <1>4, <2>1, PushesOn, DiesThere DEF HST_Display, Accumulate, Silent, NoReply
<1>5. ~HST_Printer(b)
  BY DEF HST_Printer, ListensOnly
<1> QED BY <1>1, <1>2, <1>3, <1>4, <1>5

LEMMA LogHandler ==
  ASSUME ParserTypeOK, RecordBegun, LogBitFollowsLogMode, NEW b \in Byte,
         Active, ListensOnly,
         \/ LOG_Start(b) \/ LOG_Data(b) \/ LOG_Display(b) \/ LOG_Printer(b)
         \/ LOG_Printer_Active(b)
  PROVE  HandlerStep(b)
<1>1. CASE LOG_Start(b)
  BY <1>1, PushesOn, BeginsRecord DEF LOG_Start, Accumulate, Silent, NoReply
<1>2. CASE LOG_Data(b)
  BY <1>2, PushesOn, BeginsRecord, DiesThere DEF LOG_Data, Accumulate, Silent, NoReply
<1>3. CASE LOG_Printer_Active(b)
  BY <1>3, PushesOn, BeginsRecord DEF LOG_Printer_Active, Enter, Accumulate, Silent, NoReply
<1>4. CASE LOG_Display(b) /\ PollSeen(b) /\ ~ReadingLost
  <2>1. /\ LOG_Display_Active(b) /\ logmode \in BOOLEAN /\ logmode
        /\ b = PRINTER /\ buffer_len > 0 /\ LastByte = DELIM
    <3>1. PRINTER # DISPLAY /\ PRINTER # SEMI
      BY CodesDiffer
    <3> QED BY <1>4, <3>1 DEF LOG_Display, PollSeen, RecordBegun, ParserTypeOK,
                LogBitFollowsLogMode, LogStates
  <2> DEFINE p == <<DELIM, b>>
  <2>2. p \in {<<b>>, <<DELIM, b>>}
    OBVIOUS
  <2> HIDE DEF p
  <2>3. CASE StartSession("REPORT_REQ", "RPT_START", p, <<RCh, CR>>)
    <3>1. Answer("RPT_START", p, logmode, <<RCh, CR>>) /\ logmode' = logmode
      BY <2>3 DEF StartSession
    <3>2. <<RCh, CR>> \in Asked("RPT_START")
      BY AskedIs
    <3> QED BY <2>1, <2>2, <3>1, <3>2, AnswersPoll
  <2>4. CASE StartSession("HISTORY_REQ", "HST_START", p, <<ICh, CR>>)
    <3>1. Answer("HST_START", p, logmode, <<ICh, CR>>) /\ logmode' = logmode
      BY <2>4 DEF StartSession
    <3>2. <<ICh, CR>> \in Asked("HST_START")
      BY AskedIs
    <3> QED BY <2>1, <2>2, <3>1, <3>2, AnswersPoll
  <2>5. CASE StopLog(b)
    <3>1. PICK down \in BOOLEAN : down = FALSE
      OBVIOUS
    <3>2. Answer("SS_PRINTER", p, down, <<>>) /\ logmode' = down
      BY <2>5, <3>1 DEF StopLog, p
    <3>3. <<>> \in Asked("SS_PRINTER")
      BY AskedIs
    <3> QED BY <2>1, <2>2, <3>2, <3>3, AnswersPoll
  <2>6. CASE Answer("LOG_PRINTER_ACTIVE", p, logmode, <<LCh, CR>>) /\ logmode' = logmode
    <3>1. <<LCh, CR>> \in Asked("LOG_PRINTER_ACTIVE")
      BY AskedIs
    <3> QED BY <2>1, <2>2, <2>6, <3>1, AnswersPoll
  <2> QED BY <2>1, <2>3, <2>4, <2>5, <2>6 DEF LOG_Display_Active, p
<1>5. CASE LOG_Display(b) /\ ~(PollSeen(b) /\ ~ReadingLost)
  BY <1>5, PushesOn, BeginsRecord, DiesThere DEF LOG_Display, Enter, Accumulate, Silent, NoReply
<1>6. ~LOG_Printer(b)
  BY DEF LOG_Printer, ListensOnly
<1> QED BY <1>1, <1>2, <1>3, <1>4, <1>5, <1>6

LEMMA EveryHandler ==
  ASSUME ParserTypeOK, RecordBegun, ControlInv, Active, NEW b \in Byte, ParseByte(b)
  PROVE  HandlerStep(b)
BY SteadyHandler, ReportHandler, HistoryHandler, LogHandler DEF ParseByte, ControlInv

-----------------------------------------------------------------------------
(* The bytes under way: read by the engine in the order they were sent *)

Stream == line \o m_out

\* t is what is left of s behind its first d bytes.
Behind(s, d, t) ==
  /\ s \in Seq(Byte) /\ t \in Seq(Byte) /\ d \in Nat
  /\ Len(s) = Len(t) + d
  /\ \A i \in 1..Len(t) : t[i] = s[i + d]

LEMMA TailBehind ==
  ASSUME NEW s \in Seq(Byte), s # <<>>
  PROVE  Behind(s, 1, Tail(s)) /\ Len(s) > 0 /\ Head(s) = s[1] /\ s[1] \in Byte
<1>1. Len(s) \in Nat \ {0}
  BY EmptySeq
<1>2. Head(s) = s[1] /\ s[1] \in Byte
  BY <1>1, ElementOfSeq
<1>3. /\ Tail(s) \in Seq(Byte) /\ Len(Tail(s)) = Len(s) - 1
      /\ \A i \in 1..Len(Tail(s)) : Tail(s)[i] = s[i + 1]
  BY HeadTailProperties
<1> QED BY <1>1, <1>2, <1>3 DEF Behind

LEMMA SubSeqBehind ==
  ASSUME NEW s \in Seq(Byte), NEW k \in 1..Len(s)
  PROVE  Behind(s, k - 1, SubSeq(s, k, Len(s)))
<1> DEFINE n == Len(s)
           t == SubSeq(s, k, n)
<1>1. n \in Nat /\ k \in Int /\ n \in Int /\ \A i \in k..n : s[i] \in Byte
  BY LenProperties, ElementOfSeq
<1>2. /\ t \in Seq(Byte) /\ Len(t) = (IF k <= n THEN n - k + 1 ELSE 0)
      /\ \A i \in 1..n-k+1 : t[i] = s[k + i - 1]
  BY <1>1, SubSeqProperties
<1> HIDE DEF t
<1>3. k - 1 \in Nat /\ Len(t) = n - k + 1 /\ n = Len(t) + (k - 1)
  BY <1>1, <1>2
<1>4. ASSUME NEW i \in 1..Len(t)
      PROVE  t[i] = s[i + (k - 1)]
  <2>1. i \in 1..n-k+1 /\ k + i - 1 = i + (k - 1)
    BY <1>1, <1>3
  <2> QED BY <1>2, <2>1
<1> QED BY <1>2, <1>3, <1>4 DEF Behind, t

LEMMA OrderlyBehind ==
  ASSUME NEW s, NEW d, NEW t, Behind(s, d, t), Orderly(s)
  PROVE  Orderly(t)
<1> DEFINE n == Len(t)
<1>1. /\ n \in Nat /\ d \in Nat /\ Len(s) = n + d
      /\ \A i \in 1..n : t[i] = s[i + d]
  BY LenProperties DEF Behind
<1> HIDE DEF n
<1> SUFFICES ASSUME NEW i \in 1..n, t[i] = PRINTER, i # n
             PROVE  (i > 1 => t[i - 1] # DELIM) /\ n - i >= Lag /\ ClosedAt(t, i)
  BY DEF Orderly, n
<1>2. i + d \in 1..Len(s) /\ s[i + d] = PRINTER /\ i + d # Len(s)
  BY <1>1
<1>3. /\ i + d > 1 => s[(i + d) - 1] # DELIM
      /\ Len(s) - (i + d) >= Lag /\ ClosedAt(s, i + d)
  BY <1>2 DEF Orderly
<1>4. ASSUME i > 1
      PROVE  t[i - 1] # DELIM
  <2>1. i - 1 \in 1..n /\ i + d > 1 /\ (i - 1) + d = (i + d) - 1
    BY <1>1, <1>4
  <2> QED BY <1>1, <1>3, <2>1
<1>5. n - i >= Lag
  BY <1>1, <1>3, LagIs
<1>6. PICK k \in (i + d)..Len(s) : s[k] = DELIM /\ \A j \in (i + d)..k : s[j] # CR
  BY <1>3 DEF ClosedAt
<1>7. k - d \in i..n /\ k - d \in 1..n /\ (k - d) + d = k
  BY <1>1, <1>6
<1>8. ASSUME NEW j \in i..(k - d)
      PROVE  t[j] # CR
  <2>1. j \in 1..n /\ j + d \in (i + d)..k
    BY <1>1, <1>7
  <2> QED BY <1>1, <1>6, <2>1
<1>9. ClosedAt(t, i)
  BY <1>1, <1>6, <1>7, <1>8 DEF ClosedAt, n
<1> QED BY <1>4, <1>5, <1>9

LEMMA UnmarkedBehind ==
  ASSUME NEW s, NEW d, NEW t, Behind(s, d, t), Unmarked(s)
  PROVE  Unmarked(t)
<1> DEFINE n == Len(t)
<1>1. /\ n \in Nat /\ d \in Nat /\ Len(s) = n + d
      /\ \A i \in 1..n : t[i] = s[i + d]
  BY LenProperties DEF Behind
<1> HIDE DEF n
<1> SUFFICES ASSUME NEW i \in 6..n, Marked(t, i)
             PROVE  FALSE
  BY DEF Unmarked, n
<1> DEFINE h == i + d
<1>2. h \in 6..Len(s)
  BY <1>1
<1>3. \A k \in 0..5 : i - k \in 1..n /\ h - k = (i - k) + d
  BY <1>1
<1> HIDE DEF h
<1>4. \A k \in 0..5 : s[h - k] = t[i - k]
  BY <1>1, <1>3
<1>5. 0 \in 0..5 /\ h - 0 = h /\ i - 0 = i
  BY <1>1, <1>2
<1>6. \A k \in 1..5 : k \in 0..5
  OBVIOUS
<1>7. t[i] = DISPLAY /\ \A k \in 1..5 : t[i - k] = EndMark[6 - k]
  BY Zenon DEF Marked
<1>8. Marked(s, h)
  BY <1>4, <1>5, <1>6, <1>7, Zenon DEF Marked
<1> QED BY <1>2, <1>8 DEF Unmarked

LEMMA HeadFirst ==
  ASSUME NEW s \in Seq(Byte), s # <<>>
  PROVE  s = <<Head(s)>> \o Tail(s)
<1> DEFINE h == <<Head(s)>>
           t == Tail(s)
<1>1. Behind(s, 1, t) /\ Len(s) > 0 /\ Head(s) = s[1] /\ s[1] \in Byte
  BY TailBehind
<1>2. h \in Seq(Byte) /\ Len(h) = 1 /\ h[1] = s[1]
  BY <1>1
<1> HIDE DEF h, t
<1>3. /\ t \in Seq(Byte) /\ Len(s) = Len(t) + 1 /\ Len(t) \in Nat
      /\ \A i \in 1..Len(t) : t[i] = s[i + 1]
  BY <1>1, LenProperties DEF Behind
<1>4. /\ h \o t \in Seq(Byte) /\ Len(h \o t) = 1 + Len(t)
      /\ (h \o t)[1] = h[1] /\ \A i \in 1..Len(t) : (h \o t)[1 + i] = t[i]
  <2>1. /\ h \o t \in Seq(Byte) /\ Len(h \o t) = Len(h) + Len(t)
        /\ \A i \in 1..Len(h) : (h \o t)[i] = h[i]
        /\ \A i \in 1..Len(t) : (h \o t)[Len(h) + i] = t[i]
    BY <1>2, <1>3, JoinAt, Zenon
  <2>2. 1 \in 1..Len(h)
    BY <1>2
  <2> QED BY <1>2, <2>1, <2>2
<1>5. ASSUME NEW i \in 1..Len(s)
      PROVE  s[i] = (h \o t)[i]
  <2>1. CASE i = 1
    BY <1>2, <1>4, <2>1
  <2>2. CASE i # 1
    <3>1. i - 1 \in 1..Len(t) /\ 1 + (i - 1) = i /\ (i - 1) + 1 = i
      BY <1>3, <2>2
    <3> QED BY <1>3, <1>4, <3>1
  <2> QED BY <2>1, <2>2
<1>6. s = h \o t
  BY <1>3, <1>4, <1>5, SeqEqual
<1> QED BY <1>6 DEF h, t

LEMMA StreamType ==
  ASSUME LinkTypeOK
  PROVE  /\ Stream \in Seq(Byte) /\ Len(Stream) \in Nat
         /\ line = <<>> => Stream = m_out
         /\ m_out = <<>> => Stream = line
         /\ line # <<>> => Stream # <<>> /\ Stream[1] = Head(line) /\ Head(line) \in Byte
<1>1. line \in Seq(Byte) /\ m_out \in Seq(Byte)
  BY DEF LinkTypeOK
<1>2. Stream \in Seq(Byte) /\ Len(Stream) \in Nat
  BY <1>1, JoinAt, LenProperties DEF Stream
<1>3. (line = <<>> => Stream = m_out) /\ (m_out = <<>> => Stream = line)
  BY <1>1, ConcatEmptySeq DEF Stream
<1>4. ASSUME line # <<>>
      PROVE  Stream # <<>> /\ Stream[1] = Head(line) /\ Head(line) \in Byte
  <2>1. Len(line) > 0 /\ Head(line) = line[1] /\ line[1] \in Byte
    BY <1>1, <1>4, TailBehind
  <2> QED BY <1>1, <2>1, HeadJoined DEF Stream
<1> QED BY <1>2, <1>3, <1>4

\* A byte that is sent stays where it is in the stream.
LEMMA SentStays ==
  ASSUME LinkTypeOK, SendByte
  PROVE  Stream' = Stream
<1>1. line \in Seq(Byte) /\ m_out \in Seq(Byte) /\ m_out # <<>>
  BY DEF LinkTypeOK, SendByte
<1> DEFINE h == Head(m_out)
           t == Tail(m_out)
<1>2. h \in Byte /\ t \in Seq(Byte) /\ <<h>> \in Seq(Byte)
  BY <1>1, HeadTailProperties
<1>3. Stream' = Append(line, h) \o t
  BY DEF SendByte, Stream
<1> HIDE DEF h, t
<1>4. Append(line, h) = line \o <<h>>
  BY <1>1, <1>2, AppendIsConcat
<1>5. (line \o <<h>>) \o t = line \o (<<h>> \o t)
  BY <1>1, <1>2, ConcatAssociative
<1>6. m_out = <<h>> \o t
  BY <1>1, HeadFirst DEF h, t
<1> QED BY <1>3, <1>4, <1>5, <1>6 DEF Stream

\* The byte that is delivered is the first of the stream.
LEMMA DeliveredFirst ==
  ASSUME LinkTypeOK, Deliver
  PROVE  /\ Behind(Stream, 1, Stream') /\ Stream # <<>> /\ line # <<>>
         /\ Stream[1] = Head(line) /\ Head(line) \in Byte
         /\ Stream = <<Head(line)>> \o Stream'
<1>1. line \in Seq(Byte) /\ m_out \in Seq(Byte) /\ line # <<>>
  BY DEF LinkTypeOK, Deliver
<1> DEFINE h == Head(line)
           t == Tail(line)
<1>2. h \in Byte /\ t \in Seq(Byte) /\ <<h>> \in Seq(Byte)
  BY <1>1, HeadTailProperties
<1>3. Stream' = t \o m_out
  BY DEF Deliver, Stream
<1>4. line = <<h>> \o t
  BY <1>1, HeadFirst
<1> HIDE DEF h, t
<1>5. (<<h>> \o t) \o m_out = <<h>> \o (t \o m_out)
  BY <1>1, <1>2, ConcatAssociative
<1>6. Stream = <<h>> \o Stream'
  BY <1>3, <1>4, <1>5 DEF Stream
<1>7. /\ Stream \in Seq(Byte) /\ Stream # <<>> /\ Stream[1] = h
  BY <1>1, StreamType DEF h
<1>8. Stream' \in Seq(Byte)
  BY <1>1, <1>2, <1>3, JoinAt
<1> DEFINE u == <<h>>
           z == Stream'
<1>9. u \in Seq(Byte) /\ Len(u) = 1
  BY <1>2
<1> HIDE DEF u, z
<1>10. Len(u \o z) = Len(z) + 1 /\ \A i \in 1..Len(z) : (u \o z)[i + 1] = z[i]
  BY <1>8, <1>9, JoinAt DEF z
<1>11. Behind(Stream, 1, Stream')
  BY <1>6, <1>7, <1>8, <1>10 DEF Behind, u, z
<1> QED BY <1>1, <1>2, <1>6, <1>7, <1>11 DEF h

\* No CR comes before the next 0x98.
Alone(s) == \A j \in 1..Len(s) : s[j] = CR => \E k \in 1..j-1 : s[k] = DELIM

\* The record ends with 0x98: a 0x90 would be taken for a poll.
Polled == fault = "none" /\ Contents # <<>> /\ Contents[Len(Contents)] = DELIM

\* A poll is the last byte of the stream; in the slot, nobody else is heard.
StreamInv ==
  /\ Orderly(Stream)
  /\ Polled /\ Stream # <<>> /\ Stream[1] = PRINTER => Len(Stream) = 1
  /\ header_state = "SS_PRINTER" => Alone(Stream)

EngineInv == IInv /\ RecordBegun

LEMMA LastOfContents ==
  ASSUME ParserTypeOK
  PROVE  /\ Contents # <<>> <=> buffer_len > 0
         /\ Contents # <<>> => Contents[Len(Contents)] = LastByte
<1>1. Contents \in Seq(Byte) /\ Len(Contents) = buffer_len /\ buffer_len \in Nat
  BY ContentsType DEF ParserTypeOK
<1>2. Contents # <<>> <=> buffer_len > 0
  BY <1>1, EmptySeq
<1>3. buffer_len > 0 => Contents[buffer_len] = buffer[buffer_len - 1]
  BY <1>1 DEF Contents
<1> QED BY <1>1, <1>2, <1>3 DEF LastByte

\* A byte is delivered to a handler.
LEMMA DeliverHandled ==
  ASSUME LinkInv, EngineInv, Deliver
  PROVE  /\ ParseByte(Head(line)) /\ HandlerStep(Head(line))
         /\ ParserTypeOK /\ ParserTypeOK' /\ fault = "none" /\ Active
         /\ ControlInv
<1>1. Head(line) \in Byte /\ LinkTypeOK /\ TypeOK
  BY DeliveredFirst DEF LinkInv
<1>2. ParseByte(Head(line)) /\ fault = "none"
  BY DEF Deliver, Receive, Alive
<1>3. ParserTypeOK /\ ParserTypeOK'
  BY <1>1, <1>2, ParseByteType DEF TypeOK
<1>4. ControlInv /\ RecordBegun /\ Active
  BY LinkAssumption DEF EngineInv, IInv
<1> QED BY <1>1, <1>2, <1>3, <1>4, EveryHandler

\* A record ends with 0x98 only if that is the byte read last.
LEMMA DelimRead ==
  ASSUME ParserTypeOK, NEW b \in Byte, HandlerStep(b), Polled'
  PROVE  b = DELIM
<1>1. Contents' # <<>> /\ Contents'[Len(Contents')] = DELIM /\ fault' = "none"
  BY DEF Polled
<1>2. CASE Contents' = Append(Contents, b)
  <2>1. Contents \in Seq(Byte)
    BY ContentsType
  <2>2. Append(Contents, b)[Len(Append(Contents, b))] = b
    BY <2>1, AppendProperties
  <2> QED BY <1>1, <1>2, <2>2
<1>3. CASE Contents' = <<b>>
  BY <1>1, <1>3
<1>4. CASE Contents' = <<DELIM, b>>
  BY <1>1, <1>4
<1> QED BY <1>1, <1>2, <1>3, <1>4 DEF HandlerStep, RecordStep, NoDelimAtEnd

\* SS_PRINTER is entered with an answer and left, in active mode, at a 0x98,
\* unless a CR is overheard.
LEMMA PrinterSlot ==
  ASSUME Active, ControlInv, NEW b, ParseByte(b), HandlerStep(b)
  PROVE  /\ header_state' = "SS_PRINTER" =>
              b = PRINTER \/ (header_state = "SS_PRINTER" /\ b # DELIM)
         /\ header_state = "SS_PRINTER" /\ b # CR => header_state' \in {"SS_PRINTER", "SS_PAUSE"}
<1>1. ASSUME header_state = "SS_PRINTER", b # CR
      PROVE  header_state' \in {"SS_PRINTER", "SS_PAUSE"}
  BY <1>1 DEF ParseByte, SS_Unknown, SS_Pause, SS_Display, SS_Printer, RPT_Start, RPT_Data,
         RPT_Display, RPT_Printer, HST_Start, HST_Display, HST_Printer, HST_Printer_Active,
         HST_Data, LOG_Start, LOG_Data, LOG_Display, LOG_Printer, LOG_Printer_Active,
         Enter, Goto, Accumulate
<1>2. ASSUME header_state' = "SS_PRINTER", b # PRINTER
      PROVE  header_state = "SS_PRINTER" /\ b # DELIM
  <2>1. CASE SS_Printer(b)
    <3>1. header_state = "SS_PRINTER"
      BY <2>1 DEF SS_Printer
    <3>2. ASSUME b = DELIM
          PROVE  FALSE
      BY <1>2, <2>1, <3>2, CodesDiffer DEF SS_Printer, Enter, Goto
    <3> QED BY <3>1, <3>2
  <2>2. CASE SS_Unknown(b) \/ SS_Pause(b) \/ SS_Display(b)
    BY <1>2, <2>2 DEF SS_Unknown, SS_Pause, SS_Display, Enter, Goto, Accumulate,
         NullStream, Dies, SS_Pause_Directive
  <2>3. CASE RPT_Start(b) \/ RPT_Data(b) \/ RPT_Display(b) \/ RPT_Printer(b)
    BY <1>2, <2>3 DEF RPT_Start, RPT_Data, RPT_Display, RPT_Printer, Enter, Goto, Answer,
         Accumulate, AfterSession, NullStream, Dies
  <2>4. CASE \/ HST_Start(b) \/ HST_Display(b) \/ HST_Printer(b) \/ HST_Printer_Active(b)
             \/ HST_Data(b)
    BY <1>2, <2>4 DEF HST_Start, HST_Display, HST_Printer, HST_Printer_Active, HST_Data,
         Enter, Goto, Answer, Accumulate, AfterSession, NullStream, Dies
  <2>5. CASE LOG_Start(b) \/ LOG_Data(b) \/ LOG_Display(b) \/ LOG_Printer_Active(b)
    BY <1>2, <2>5 DEF LOG_Start, LOG_Data, LOG_Display, LOG_Printer_Active, PollSeen,
         Enter, Goto, Accumulate, NullStream, Dies
  <2>6. ~LOG_Printer(b)
    BY DEF ControlInv, ListensOnly, LOG_Printer
  <2> QED BY <2>1, <2>2, <2>3, <2>4, <2>5, <2>6 DEF ParseByte
<1> QED BY <1>1, <1>2

LEMMA AloneBehind ==
  ASSUME NEW s, NEW t, Behind(s, 1, t),
         \/ Alone(s) /\ s[1] # DELIM
         \/ ClosedAt(s, 1) /\ s[1] # DELIM
         \/ Len(s) = 1
  PROVE  Alone(t)
<1>1. /\ Len(t) \in Nat /\ Len(s) = Len(t) + 1
      /\ \A i \in 1..Len(t) : t[i] = s[i + 1]
  BY LenProperties DEF Behind
<1> SUFFICES ASSUME NEW j \in 1..Len(t), t[j] = CR
             PROVE  \E k \in 1..j-1 : t[k] = DELIM
  BY DEF Alone
<1>2. s[j + 1] = CR /\ j + 1 \in 1..Len(s)
  BY <1>1
<1>3. CASE Alone(s) /\ s[1] # DELIM
  <2>1. PICK k \in 1..(j + 1)-1 : s[k] = DELIM
    BY <1>2, <1>3 DEF Alone
  <2>2. k - 1 \in 1..j-1 /\ k - 1 \in 1..Len(t) /\ (k - 1) + 1 = k
    BY <1>1, <1>3, <2>1
  <2> QED BY <1>1, <2>1, <2>2
<1>4. CASE ClosedAt(s, 1) /\ s[1] # DELIM
  <2>1. PICK k \in 1..Len(s) : s[k] = DELIM /\ \A i \in 1..k : s[i] # CR
    BY <1>4 DEF ClosedAt
  <2>2. k < j + 1
    BY <1>1, <1>2, <2>1
  <2>3. k # 1
    BY <1>4, <2>1
  <2>4. k - 1 \in 1..j-1 /\ k - 1 \in 1..Len(t) /\ (k - 1) + 1 = k
    BY <1>1, <2>1, <2>2, <2>3
  <2> QED BY <1>1, <2>1, <2>4
<1>5. CASE Len(s) = 1
  <2> DEFINE n == Len(t)
             m == Len(s)
  <2>1. n \in Nat /\ m = n + 1 /\ m = 1 /\ j \in 1..n
    BY <1>1, <1>5
  <2> HIDE DEF n, m
  <2> QED BY <2>1
<1> QED BY <1>3, <1>4, <1>5

LEMMA InitStream == LinkInit => StreamInv
<1> SUFFICES ASSUME LinkInit
             PROVE  StreamInv
  OBVIOUS
<1> DEFINE f == Frame(<<>>, 1)
<1>1. f \in Seq(Byte) /\ Orderly(f)
  <2>1. <<>> \in Text /\ <<>> \in Seq(Byte) /\ 1 \in Nat
    BY DEF Text
  <2>2. Tame(<<>>) /\ Tame(Burst(1)) /\ Tame(<<DELIM>>)
    BY <2>1, TextTame, BurstTame, DelimTame
  <2>3. Tame((<<DELIM>> \o <<>>) \o Burst(1))
    BY <2>2, TameJoin
  <2> QED BY <2>1, <2>3, TameCloses, FrameType DEF Frame
<1> HIDE DEF f
<1>2. PICK k \in 1..Len(f) : m_out = SubSeq(f, k, Len(f))
  BY DEF LinkInit, f
<1>3. Behind(f, k - 1, m_out)
  BY <1>1, <1>2, SubSeqBehind
<1>4. Orderly(m_out)
  BY <1>1, <1>3, OrderlyBehind
<1>5. Stream = m_out
  <2>1. LinkTypeOK
    BY InitLinkInv DEF LinkInv
  <2>2. line = <<>>
    BY DEF LinkInit
  <2> QED BY <2>1, <2>2, StreamType
<1>6. header_state = "SS_UNKNOWN" /\ buffer_len = 0
  BY DEF LinkInit, Init, ParseOpen
<1>7. ~Polled
  <2>1. Contents = <<>>
    BY <1>6 DEF Contents
  <2> QED BY <2>1 DEF Polled
<1> QED BY <1>4, <1>5, <1>6, <1>7 DEF StreamInv

\* A new frame finds the line empty.
LEMMA FrameFirst ==
  ASSUME LinkInv, LinkInv', TakeReply \/ SlotOver, Stream = <<>> \/ SlotOver
  PROVE  /\ Stream' = m_out' /\ IsFrame(m_out') /\ Stream = <<>>
<1>1. Sends
  <2>1. Silence => Sends
    <3>1. <<>> \in Text
      BY DEF Text
    <3> QED BY <3>1, FrameCounts DEF Silence, Sends, IsFrame, LinkInv, LinkTypeOK
  <2>2. \A st, request : Hear(st, request) => Sends
    BY HearSends
  <2> QED BY <2>1, <2>2 DEF TakeReply, SlotOver
<1>2. LinkTypeOK /\ m_out = <<>>
  BY DEF LinkInv, TakeReply, SlotOver, Slot
<1>3. line = <<>> /\ Stream = <<>>
  BY <1>2, StreamType DEF SlotOver
<1>4. Stream' = <<>> \o m_out' /\ m_out' \in Seq(Byte)
  BY <1>3 DEF LinkInv, LinkTypeOK, TakeReply, SlotOver, Stream
<1>5. <<>> \o m_out' = m_out'
  BY <1>4, ConcatEmptySeq
<1> QED BY <1>1, <1>3, <1>4, <1>5 DEF Sends

\* An answer that is heard is the answer to the last byte of a frame.
LEMMA HeardAtEnd ==
  ASSUME LinkInv, EngineInv, StreamInv, Deliver, tx' # <<>>, Slot
  PROVE  Stream' = <<>>
<1> DEFINE n == Len(Stream)
<1>1. /\ Behind(Stream, 1, Stream') /\ Stream[1] = Head(line) /\ Stream # <<>>
  BY DeliveredFirst DEF LinkInv
<1>2. Head(line) = PRINTER
  BY DeliverHandled DEF HandlerStep, AnswerStep
<1>3. Stream = line /\ Len(line) <= Lag /\ Stream \in Seq(Byte) /\ n \in Nat
  BY StreamType DEF LinkInv, LinkTypeOK, Slot
<1>4. n > 0 /\ Len(Stream') + 1 = n /\ Stream' \in Seq(Byte) /\ Len(Stream') \in Nat
  BY <1>1, <1>3, LenProperties DEF Behind
<1>5. 1 = n \/ n - 1 >= Lag
  BY <1>1, <1>2, <1>4 DEF Orderly, StreamInv
<1> HIDE DEF n
<1>6. n <= Lag
  BY <1>3 DEF n
<1>7. Len(Stream') = 0
  BY <1>3, <1>4, <1>5, <1>6, LagIs
<1> QED BY <1>4, <1>7, EmptySeq

\* What is heard is one answer, to the last byte of a frame.
EarInv ==
  m_ear # <<>> =>
    /\ Stream = <<>> /\ Unmarked(Contents)
    /\ \E a : m_ear = <<a>> /\ Answered(a)

LEMMA StreamStep ==
  ASSUME LinkInv, LinkInv', EngineInv, StreamInv, EarInv, [LinkNext]_linkVars
  PROVE  StreamInv'
<1>1. CASE SendByte
  <2>1. Stream' = Stream
    BY SentStays, <1>1 DEF LinkInv
  <2>2. UNCHANGED <<fault, buffer, buffer_len, header_state>>
    BY <1>1 DEF SendByte, engineVars, parserVars
  <2> QED BY <2>1, <2>2 DEF StreamInv, Polled, Contents
<1>2. CASE TakeReply \/ SlotOver
  <2>1. Stream' = m_out' /\ IsFrame(m_out')
    <3>1. TakeReply => Stream = <<>>
      BY DEF TakeReply, EarInv
    <3> QED BY <1>2, <3>1, FrameFirst
  <2>2. /\ Stream' \in Seq(Byte) /\ Orderly(Stream') /\ Stream' # <<>> /\ Stream'[1] = DELIM
    BY <2>1, FrameOrderly
  <2>3. Alone(Stream')
    <3> SUFFICES ASSUME NEW j \in 1..Len(Stream'), Stream'[j] = CR
                 PROVE  \E k \in 1..j-1 : Stream'[k] = DELIM
      BY DEF Alone
    <3>1. j # 1 /\ j \in Nat
      BY <2>2, CodesDiffer
    <3>2. 1 \in 1..j-1
      BY <3>1
    <3> QED BY <2>2, <3>2
  <2> QED BY <2>2, <2>3, CodesDiffer DEF StreamInv
<1>3. CASE Deliver
  <2> DEFINE b == Head(line)
  <2>1. /\ Behind(Stream, 1, Stream') /\ Stream # <<>> /\ b \in Byte
        /\ Stream[1] = b
    BY <1>3, DeliveredFirst DEF LinkInv
  <2>2. /\ ParseByte(b) /\ HandlerStep(b) /\ ParserTypeOK /\ Active /\ ControlInv
    BY <1>3, DeliverHandled
  <2>3. Orderly(Stream')
    BY <2>1, OrderlyBehind DEF StreamInv
  <2>4. /\ Len(Stream') \in Nat /\ Len(Stream) = Len(Stream') + 1 /\ Stream' \in Seq(Byte)
        /\ \A i \in 1..Len(Stream') : Stream'[i] = Stream[i + 1]
    BY <2>1, LenProperties DEF Behind
  <2>5. ASSUME Polled', Stream' # <<>>, Stream'[1] = PRINTER
        PROVE  Len(Stream') = 1
    <3>1. b = DELIM
      BY <2>1, <2>2, <2>5, DelimRead
    <3>2. Len(Stream') > 0
      BY <2>4, <2>5, EmptySeq
    <3>3. Stream[2] = PRINTER /\ 2 \in 1..Len(Stream) /\ Stream[2 - 1] = DELIM
      BY <2>1, <2>4, <2>5, <3>1, <3>2
    <3>4. 2 = Len(Stream)
      <4>1. Orderly(Stream)
        BY DEF StreamInv
      <4>2. 2 = Len(Stream) \/ (2 > 1 => Stream[2 - 1] # DELIM)
        BY <3>3, <4>1, Zenon DEF Orderly
      <4> QED BY <3>3, <4>2
    <3> QED BY <2>4, <3>4
  <2>6. ASSUME header_state' = "SS_PRINTER"
        PROVE  Alone(Stream')
    <3>1. b = PRINTER \/ (header_state = "SS_PRINTER" /\ b # DELIM)
      BY <2>2, <2>6, PrinterSlot
    <3>2. CASE b = PRINTER
      <4>1. 1 = Len(Stream) \/ ClosedAt(Stream, 1)
        <5>1. 1 \in 1..Len(Stream) /\ Stream[1] = PRINTER
          BY <2>1, <2>4, <3>2, StreamType, EmptySeq DEF LinkInv
        <5> QED BY <5>1 DEF StreamInv, Orderly
      <4> QED BY <2>1, <3>2, <4>1, AloneBehind, CodesDiffer
    <3>3. CASE header_state = "SS_PRINTER" /\ b # DELIM
      BY <2>1, <3>3, AloneBehind DEF StreamInv
    <3> QED BY <3>1, <3>2, <3>3
  <2> QED BY <2>3, <2>5, <2>6 DEF StreamInv
<1>4. CASE \E m \in Messages \cup {NoRequest} : Loop(m)
  <2>1. Stream' = Stream /\ UNCHANGED <<fault, buffer, buffer_len, header_state>>
    BY <1>4 DEF Loop, masterVars, LoopHead, Stream
  <2> QED BY <2>1 DEF StreamInv, Polled, Contents
<1>5. CASE UNCHANGED linkVars
  <2>1. Stream' = Stream /\ UNCHANGED <<fault, buffer, buffer_len, header_state>>
    BY <1>5 DEF linkVars, masterVars, engineVars, parserVars, Stream
  <2> QED BY <2>1 DEF StreamInv, Polled, Contents
<1> QED BY <1>1, <1>2, <1>3, <1>4, <1>5 DEF LinkNext

-----------------------------------------------------------------------------
(* Which frames hold an end mark *)

LEMMA BlockUnmarked == Unmarked(Block)
<1> DEFINE n == Len(Display)
<1>1. /\ Block \in Seq(Byte) /\ n \in Nat \ {0} /\ Len(Block) = n + 1
      /\ \A i \in 1..n : Block[i] = Display[i]
      /\ Block[n + 1] = DELIM
  BY BlockType
<1>2. \A i \in 2..n : Display[i] # DISPLAY
  BY DisplayAssumption
<1> HIDE DEF n
<1>3. ASSUME NEW i \in 2..(n + 1)
      PROVE  Block[i] # DISPLAY
  <2>1. CASE i = n + 1
    BY <1>1, <2>1, CodesDiffer
  <2>2. CASE i # n + 1
    <3>1. i \in 2..n /\ i \in 1..n
      BY <1>1, <2>2
    <3> QED BY <1>1, <1>2, <3>1
  <2> QED BY <2>1, <2>2
<1> QED BY <1>1, <1>3, UnmarkedNoDisplay

\* A burst begins with 0x91, ends with 0x98 and holds no mark.
BurstShape(s) ==
  /\ s \in Seq(Byte) /\ Unmarked(s)
  /\ s # <<>> => Len(s) > 0 /\ s[1] = DISPLAY /\ s[Len(s)] = DELIM

LEMMA BurstShapes == \A n \in Nat : BurstShape(Burst(n))
<1> DEFINE S == {n \in Nat : BurstShape(Burst(n))}
<1>1. 0 \in S
  <2>1. BurstShape(<<>>)
    BY EmptyText DEF BurstShape, Unmarked
  <2> QED BY <2>1, BurstGrows
<1>2. ASSUME NEW n \in Nat, n \in S
      PROVE  n + 1 \in S
  <2> DEFINE s == Burst(n)
             u == s \o Block
  <2>1. s \in Seq(Byte) /\ Unmarked(s) /\ (s # <<>> => Len(s) > 0 /\ s[1] = DISPLAY /\ s[Len(s)] = DELIM)
    BY <1>2 DEF BurstShape
  <2>2. /\ Block \in Seq(Byte) /\ Unmarked(Block) /\ Len(Block) \in Nat \ {0}
        /\ Block[1] = DISPLAY /\ Block[Len(Block)] = DELIM
    <3>1. Block \in Seq(Byte) /\ Len(Block) = Len(Display) + 1 /\ Len(Display) \in Nat \ {0}
          /\ Block[Len(Display) + 1] = DELIM
          /\ Display[1] = DISPLAY /\ \A i \in 1..Len(Display) : Block[i] = Display[i]
      BY BlockType
    <3>2. 1 \in 1..Len(Display)
      BY <3>1
    <3> QED BY <3>1, <3>2, BlockUnmarked
  <2>3. Burst(n + 1) = u /\ n + 1 \in Nat
    <3>1. Burst(n + 1) = u
      BY BurstGrows, Zenon
    <3> QED BY <3>1
  <2> HIDE DEF s
  <2>4. /\ u \in Seq(Byte) /\ Len(s) \in Nat /\ Len(u) = Len(s) + Len(Block)
        /\ \A i \in 1..Len(s) : u[i] = s[i]
        /\ \A i \in 1..Len(Block) : u[Len(s) + i] = Block[i]
    BY <2>1, <2>2, JoinAt
  <2>5. Unmarked(u)
    <3>1. CASE s = <<>>
      <4>1. u = Block
        BY <2>2, <3>1, ConcatEmptySeq
      <4> QED BY <2>2, <4>1
    <3>2. CASE s # <<>>
      BY <2>1, <2>2, <3>2, UnmarkedBehindDelim
    <3> QED BY <3>1, <3>2
  <2>6. u[1] = DISPLAY
    <3>1. CASE s = <<>>
      <4>1. u = Block
        BY <2>2, <3>1, ConcatEmptySeq
      <4> QED BY <2>2, <4>1
    <3>2. CASE s # <<>>
      <4>1. 1 \in 1..Len(s)
        BY <2>1, <2>4, <3>2
      <4> QED BY <2>1, <2>4, <3>2, <4>1
    <3> QED BY <3>1, <3>2
  <2>7. Len(u) > 0 /\ u[Len(u)] = DELIM
    <3> DEFINE k == Len(Block)
               l == Len(s)
    <3>1. k \in 1..k /\ k > 0 /\ l \in Nat
      BY <2>2, <2>4
    <3> QED BY <2>2, <2>4, <3>1
  <2> HIDE DEF u
  <2> QED BY <2>3, <2>4, <2>5, <2>6, <2>7 DEF BurstShape
<1> HIDE DEF S
<1>3. Nat \subseteq S
  BY <1>1, <1>2, InductionOver
<1> QED BY <1>3 DEF S

\* Behind a stretch that does not close with ";end" a burst makes no mark.
LEMMA UnmarkedBurst ==
  ASSUME NEW u \in Seq(Byte), NEW n \in Nat, Unmarked(u), ~EndsDump(u)
  PROVE  u \o Burst(n) \in Seq(Byte) /\ Unmarked(u \o Burst(n))
<1> DEFINE v == Burst(n)
           w == u \o v
           m == Len(u)
<1>1. v \in Seq(Byte) /\ Unmarked(v) /\ (v # <<>> => Len(v) > 0 /\ v[1] = DISPLAY)
  BY BurstShapes DEF BurstShape
<1> HIDE DEF v
<1>2. /\ w \in Seq(Byte) /\ m \in Nat
      /\ \A i \in 1..m : w[i] = u[i]
  BY <1>1, JoinAt
<1>3. CASE v = <<>>
  <2>1. w = u
    BY <1>3, ConcatEmptySeq
  <2> QED BY <2>1 DEF v
<1>4. CASE v # <<>>
  <2>1. ASSUME m >= 5, Marked(w, m + 1)
        PROVE  FALSE
    <3> DEFINE e == SubSeq(u, m - 4, m)
    <3>1. m - 4 \in Int /\ m \in Int /\ \A i \in (m - 4)..m : u[i] \in Byte
      BY <1>2, <2>1, ElementOfSeq
    <3>2. /\ e \in Seq(Byte) /\ Len(e) = (IF m - 4 <= m THEN m - (m - 4) + 1 ELSE 0)
          /\ \A i \in 1..(m - (m - 4) + 1) : e[i] = u[(m - 4) + i - 1]
      BY <3>1, SubSeqProperties
    <3> HIDE DEF e, w, m
    <3>3. Len(e) = 5 /\ \A i \in 1..5 : e[i] = u[(m - 4) + i - 1]
      <4>1. m - (m - 4) + 1 = 5 /\ m - 4 <= m
        BY <1>2
      <4> QED BY <3>2, <4>1
    <3>4. \A k \in 1..5 : w[(m + 1) - k] = EndMark[6 - k]
      BY <2>1, MarkedAt, Zenon
    <3>5. ASSUME NEW i \in 1..5
          PROVE  e[i] = EndMark[i]
      <4>1. 6 - i \in 1..5 /\ (m + 1) - (6 - i) = (m - 4) + i - 1 /\ 6 - (6 - i) = i
            /\ (m - 4) + i - 1 \in 1..m
        BY <1>2, <2>1
      <4>2. w[(m + 1) - (6 - i)] = EndMark[6 - (6 - i)]
        BY <3>4, <4>1, Zenon
      <4> QED BY <1>2, <3>3, <4>1, <4>2
    <3>6. e = EndMark
      BY <3>2, <3>3, <3>5, MarkBytes, SeqEqual
    <3> QED BY <2>1, <3>6 DEF EndsDump, e, m
  <2>2. v[1] \in LineCodes
    BY <1>1, <1>4 DEF LineCodes
  <2>3. Unmarked(w)
    BY <1>1, <1>4, <2>1, <2>2, UnmarkedBeforeCode
  <2> QED BY <1>2, <2>3 DEF v
<1> QED BY <1>3, <1>4

LEMMA DelimText ==
  ASSUME NEW t \in Text, ~EndsDump(t)
  PROVE  LET u == <<DELIM>> \o t IN u \in Seq(Byte) /\ Unmarked(u) /\ ~EndsDump(u)
<1> DEFINE d == <<DELIM>>
           u == d \o t
           n == Len(t)
<1>1. d \in Seq(Byte) /\ Len(d) = 1 /\ d[1] = DELIM
  BY Codes
<1>2. t \in Seq(Byte) /\ \A i \in 1..n : t[i] \notin LineCodes
  BY TextIsBytes DEF Text
<1> HIDE DEF d
<1>3. /\ u \in Seq(Byte) /\ n \in Nat /\ Len(u) = 1 + n
      /\ \A i \in 1..n : u[1 + i] = t[i]
      /\ u[1] = DELIM
  <2>1. /\ u \in Seq(Byte) /\ n \in Nat /\ Len(u) = Len(d) + n
        /\ \A i \in 1..Len(d) : u[i] = d[i]
        /\ \A i \in 1..n : u[Len(d) + i] = t[i]
    BY <1>1, <1>2, JoinAt
  <2>2. 1 \in 1..Len(d)
    BY <1>1
  <2> QED BY <1>1, <2>1, <2>2
<1> HIDE DEF u, n
<1>4. Unmarked(u)
  <2>1. ASSUME NEW i \in 2..Len(u)
        PROVE  u[i] # DISPLAY
    <3>1. i - 1 \in 1..n /\ 1 + (i - 1) = i
      BY <1>3
    <3> QED BY <1>2, <1>3, <3>1 DEF LineCodes
  <2> QED BY <1>3, <2>1, UnmarkedNoDisplay
<1>5. ASSUME EndsDump(u)
      PROVE  FALSE
  <2> DEFINE e == SubSeq(u, n - 3, n + 1)
             g == SubSeq(t, n - 4, n)
  <2>1. n + 1 >= 5 /\ SubSeq(u, (n + 1) - 4, n + 1) = EndMark
    BY <1>3, <1>5 DEF EndsDump
  <2>2. (n + 1) - 4 = n - 3
    BY <1>3
  <2>3. e = EndMark
    BY <2>1, <2>2
  <2>4. \A i \in 1..5 : e[i] = u[(n - 3) + i - 1]
    <3>1. n - 3 \in Int /\ n + 1 \in Int /\ \A i \in (n - 3)..(n + 1) : u[i] \in Byte
      BY <1>3, <2>1, ElementOfSeq
    <3>2. \A i \in 1..((n + 1) - (n - 3) + 1) : e[i] = u[(n - 3) + i - 1]
      BY <3>1, SubSeqProperties
    <3>3. (n + 1) - (n - 3) + 1 = 5
      BY <1>3
    <3> QED BY <3>2, <3>3
  <2> HIDE DEF e
  <2>5. n >= 5
    <3> SUFFICES ASSUME n = 4
                 PROVE  FALSE
      BY <1>3, <2>1
    <3>1. e[1] = u[1]
      <4>1. (n - 3) + 1 - 1 = 1 /\ 1 \in 1..5
        OBVIOUS
      <4> QED BY <2>4, <4>1
    <3>2. e[1] = SEMI
      BY <2>3 DEF EndMark
    <3> QED BY <1>3, <3>1, <3>2, CodesDiffer
  <2>6. /\ g \in Seq(Byte) /\ Len(g) = 5
        /\ \A i \in 1..5 : g[i] = t[(n - 4) + i - 1]
    <3>1. n - 4 \in Int /\ n \in Int /\ \A i \in (n - 4)..n : t[i] \in Byte
      BY <1>2, <1>3, <2>5, ElementOfSeq DEF n
    <3>2. /\ g \in Seq(Byte) /\ Len(g) = (IF n - 4 <= n THEN n - (n - 4) + 1 ELSE 0)
          /\ \A i \in 1..(n - (n - 4) + 1) : g[i] = t[(n - 4) + i - 1]
      BY <3>1, SubSeqProperties
    <3>3. n - (n - 4) + 1 = 5 /\ n - 4 <= n
      BY <1>3
    <3> QED BY <3>2, <3>3
  <2> HIDE DEF g
  <2>7. ASSUME NEW i \in 1..5
        PROVE  g[i] = EndMark[i]
    <3>1. (n - 4) + i - 1 \in 1..n /\ 1 + ((n - 4) + i - 1) = (n - 3) + i - 1
      BY <1>3, <2>5
    <3> QED BY <1>3, <2>3, <2>4, <2>6, <3>1
  <2>8. g = EndMark
    BY <2>6, <2>7, MarkBytes, SeqEqual
  <2> QED BY <2>5, <2>8 DEF EndsDump, g, n
<1> QED BY <1>3, <1>4, <1>5 DEF u, d

\* A frame that does not carry the last record of a dump
PlainFrame(f) ==
  \/ \E t \in Text, n \in Nat \ {0} : ~EndsDump(t) /\ f = Frame(t, n)
  \/ \E n \in Nat \ {0} : f = LateWait(n)

LEMMA PrinterBehind ==
  ASSUME NEW u \in Seq(Byte), Unmarked(u)
  PROVE  Unmarked(u \o <<PRINTER>>)
<1> DEFINE p == <<PRINTER>>
<1>1. p \in Seq(Byte) /\ Len(p) > 0 /\ p[1] = PRINTER /\ PRINTER \in LineCodes /\ Unmarked(p)
  BY Codes DEF LineCodes, Unmarked
<1> HIDE DEF p
<1>2. Unmarked(u \o p)
  BY <1>1, UnmarkedBeforeCode, CodesDiffer
<1> QED BY <1>2 DEF p

LEMMA PlainUnmarked ==
  ASSUME NEW f, PlainFrame(f)
  PROVE  IsFrame(f) /\ Unmarked(f)
<1>1. Nat \ {0} \subseteq Nat
  OBVIOUS
<1>2. ASSUME NEW t \in Text, NEW n \in Nat \ {0}, ~EndsDump(t), f = Frame(t, n)
      PROVE  Unmarked(f)
  <2>1. (<<DELIM>> \o t) \in Seq(Byte) /\ Unmarked(<<DELIM>> \o t) /\ ~EndsDump(<<DELIM>> \o t)
    BY <1>2, DelimText
  <2>2. /\ (<<DELIM>> \o t) \o Burst(n) \in Seq(Byte)
        /\ Unmarked((<<DELIM>> \o t) \o Burst(n))
    BY <1>1, <2>1, UnmarkedBurst
  <2> QED BY <1>2, <2>2, PrinterBehind DEF Frame
<1>3. ASSUME NEW c \in Nat \ {0},
             f = (((<<DELIM>> \o Burst(c)) \o Wait) \o Burst(1)) \o <<PRINTER>>
      PROVE  Unmarked(f)
  <2> DEFINE d == <<DELIM>>
  <2>1. d \in Seq(Byte) /\ Unmarked(d) /\ ~EndsDump(d)
    BY Codes DEF Unmarked, EndsDump
  <2> HIDE DEF d
  <2>2. d \o Burst(c) \in Seq(Byte) /\ Unmarked(d \o Burst(c))
    BY <2>1, UnmarkedBurst
  <2>3. Burst(c) \in Seq(Byte) /\ Len(d \o Burst(c)) > 0 /\ (d \o Burst(c))[Len(d \o Burst(c))] = DELIM
    <3> DEFINE v == Burst(c)
               n == Len(v)
    <3>1. v \in Seq(Byte) /\ n \in Nat /\ (n > 0 => v[n] = DELIM)
      BY BurstShapes, EmptySeq, LenProperties DEF BurstShape
    <3> HIDE DEF v
    <3>2. /\ Len(d \o v) = Len(d) + n /\ Len(d) = 1 /\ d[1] = DELIM
          /\ \A i \in 1..Len(d) : (d \o v)[i] = d[i]
          /\ \A i \in 1..n : (d \o v)[Len(d) + i] = v[i]
      <4>1. Len(d) = 1 /\ d[1] = DELIM
        BY DEF d
      <4> QED BY <2>1, <3>1, <4>1, JoinAt
    <3>3. (d \o v)[Len(d \o v)] = DELIM
      <4>1. CASE n = 0
        BY <3>2, <4>1
      <4>2. CASE n # 0
        BY <3>1, <3>2, <4>2
      <4> QED BY <4>1, <4>2
    <3> QED BY <3>1, <3>2, <3>3 DEF v
  <2>4. Wait \in Seq(Byte) /\ Unmarked(Wait) /\ Len(Wait) = 3 /\ Wait[3] = CR /\ Wait[2] = 119
    <3>1. Wait \in Seq(Byte)
      BY WaitIsText, TextIsBytes
    <3>2. Len(Wait) = 3 /\ Wait[3] = CR /\ Wait[2] = 119
      BY DEF Wait
    <3>3. 6..3 = {}
      OBVIOUS
    <3> QED BY <3>1, <3>2, <3>3 DEF Unmarked
  <2> DEFINE u == (d \o Burst(c)) \o Wait
             m == Len(d \o Burst(c))
  <2>5. u \in Seq(Byte) /\ Unmarked(u)
    BY <2>2, <2>3, <2>4, UnmarkedBehindDelim, JoinAt
  <2>6. ~EndsDump(u)
    <3>1. m \in Nat /\ Len(u) = m + 3 /\ u[m + 2] = 119
      <4> DEFINE x == d \o Burst(c)
      <4>1. x \in Seq(Byte)
        BY <2>2
      <4> HIDE DEF x
      <4>2. Len(x) \in Nat /\ Len(x \o Wait) = Len(x) + 3 /\ (x \o Wait)[Len(x) + 2] = 119
        <5>1. /\ Len(x) \in Nat /\ Len(x \o Wait) = Len(x) + Len(Wait)
              /\ \A i \in 1..Len(Wait) : (x \o Wait)[Len(x) + i] = Wait[i]
          <6>1. Wait \in Seq(Byte)
            BY <2>4
          <6> QED BY <4>1, <6>1, JoinAt
        <5>2. 2 \in 1..Len(Wait) /\ Len(Wait) = 3 /\ Wait[2] = 119
          BY <2>4
        <5>3. (x \o Wait)[Len(x) + 2] = 119
          BY <5>1, <5>2
        <5> QED BY <5>1, <5>2, <5>3
      <4> QED BY <4>2 DEF x
    <3> SUFFICES ASSUME EndsDump(u)
                 PROVE  FALSE
      OBVIOUS
    <3> DEFINE e == SubSeq(u, m - 1, m + 3)
    <3> HIDE DEF u, m
    <3>2. m + 3 >= 5 /\ e = EndMark
      <4>1. (m + 3) - 4 = m - 1
        BY <3>1
      <4> QED BY <3>1, <4>1 DEF EndsDump
    <3>3. e[4] = u[m + 2]
      <4>1. m - 1 \in Int /\ m + 3 \in Int /\ \A i \in (m - 1)..(m + 3) : u[i] \in Byte
        BY <2>5, <3>1, <3>2, ElementOfSeq
      <4>2. \A i \in 1..((m + 3) - (m - 1) + 1) : e[i] = u[(m - 1) + i - 1]
        BY <4>1, SubSeqProperties
      <4>3. 4 \in 1..((m + 3) - (m - 1) + 1) /\ (m - 1) + 4 - 1 = m + 2
        BY <3>1
      <4> QED BY <4>2, <4>3
    <3>4. EndMark[4] = 100
      BY DEF EndMark
    <3> QED BY <3>1, <3>2, <3>3, <3>4
  <2>7. u \o Burst(1) \in Seq(Byte) /\ Unmarked(u \o Burst(1))
    BY <2>5, <2>6, UnmarkedBurst
  <2>8. Unmarked((u \o Burst(1)) \o <<PRINTER>>)
    BY <2>7, PrinterBehind
  <2>9. f = (u \o Burst(1)) \o <<PRINTER>>
    BY <1>3 DEF u, d
  <2> HIDE DEF u
  <2> QED BY <2>8, <2>9
<1> QED BY <1>2, <1>3 DEF PlainFrame, IsFrame, LateWait

-----------------------------------------------------------------------------
(* The session of the 1022 and the one of the engine *)

\* No end of a dump is in the record or under way.
Quiet == fault = "none" => Unmarked(Contents \o Stream)

DumpRuns(dump) == (m_log => logmode) /\ Quiet /\ m_todo \in Rest(dump)

ModeInv ==
  /\ m_mode = "steady" => ~m_log
  /\ m_mode = "log" => m_log
  /\ m_mode = "report" => header_state \in ReportStates /\ DumpRuns(ReportRecords)
  /\ m_mode = "history" => header_state \in HistoryStates /\ DumpRuns(HistoryRecords)
  /\ m_mode = "log" =>
       \/ logmode /\ header_state \in LogStates \cup ReportStates \cup HistoryStates
       \* a 'T' of a history the 1022 never began
       \/ ~logmode /\ header_state \in HistoryStates /\ Quiet
       \/ ~logmode /\ m_ear # <<>>

LEMMA EarStep ==
  ASSUME LinkInv, LinkInv', EngineInv, StreamInv, EarInv, [LinkNext]_linkVars
  PROVE  EarInv'
<1>1. CASE SendByte
  <2>1. Stream # <<>>
    <3>1. line \in Seq(Byte) /\ m_out \in Seq(Byte) /\ m_out # <<>>
      BY <1>1 DEF SendByte, LinkInv, LinkTypeOK
    <3> QED BY <3>1, ConcatEqualIffEmpty DEF Stream
  <2>2. m_ear' = m_ear
    BY <1>1 DEF SendByte
  <2> QED BY <2>1, <2>2 DEF EarInv
<1>2. CASE TakeReply \/ SlotOver
  BY <1>2 DEF TakeReply, SlotOver, EarInv
<1>3. CASE Deliver
  <2>1. m_ear = <<>>
    BY <1>3, DeliveredFirst DEF EarInv, LinkInv
  <2>2. CASE tx' # <<>> /\ Slot
    <3>1. Stream' = <<>>
      BY <1>3, <2>2, HeardAtEnd
    <3>2. m_ear' = <<tx'>>
      BY <1>3, <2>1, <2>2 DEF Deliver
    <3>3. Answered(tx)' /\ NoSemi(Contents')
      BY <1>3, <2>2, DeliverHandled DEF HandlerStep, AnswerStep
    <3>4. Contents' \in Seq(Byte)
      <4>1. ParserTypeOK'
        BY <1>3, DeliverHandled
      <4> QED BY <4>1, NewContents DEF ParserTypeOK
    <3>5. Unmarked(Contents')
      BY <3>3, <3>4, UnmarkedNoSemi
    <3> QED BY <3>1, <3>2, <3>3, <3>5 DEF EarInv, Answered, Unmarked
  <2>3. CASE ~(tx' # <<>> /\ Slot)
    BY <1>3, <2>1, <2>3 DEF Deliver, EarInv
  <2> QED BY <2>2, <2>3
<1>4. CASE \E m \in Messages \cup {NoRequest} : Loop(m)
  <2>1. Stream' = Stream /\ UNCHANGED <<m_ear, header_state, logmode, buffer, buffer_len>>
    BY <1>4 DEF Loop, masterVars, LoopHead, Stream
  <2> QED BY <2>1 DEF EarInv, Answered, Contents
<1>5. CASE UNCHANGED linkVars
  <2>1. Stream' = Stream /\ UNCHANGED <<m_ear, header_state, logmode, buffer, buffer_len>>
    BY <1>5 DEF linkVars, masterVars, engineVars, parserVars, Stream
  <2> QED BY <2>1 DEF EarInv, Answered, Contents
<1> QED BY <1>1, <1>2, <1>3, <1>4, <1>5 DEF LinkNext

\* Reading brings no end mark about.
LEMMA QuietDelivered ==
  ASSUME LinkInv, EngineInv, Deliver, Quiet
  PROVE  Quiet'
<1> SUFFICES ASSUME fault' = "none"
             PROVE  Unmarked(Contents' \o Stream')
  BY DEF Quiet
<1> DEFINE b == Head(line)
           c == Contents
           r == Stream'
<1>1. /\ Behind(Stream, 1, r) /\ b \in Byte /\ Stream = <<b>> \o r
  BY DeliveredFirst DEF LinkInv
<1>2. HandlerStep(b) /\ ParserTypeOK /\ ParserTypeOK' /\ fault = "none"
  BY DeliverHandled
<1>3. c \in Seq(Byte) /\ Contents' \in Seq(Byte)
  BY <1>2, ContentsType, NewContents DEF ParserTypeOK
<1>4. r \in Seq(Byte) /\ Stream \in Seq(Byte)
  BY <1>1 DEF Behind
<1>5. Unmarked(c \o Stream)
  BY <1>2 DEF Quiet
<1>6. RecordStep(b)
  BY <1>2 DEF HandlerStep
<1> DEFINE s == Stream
<1> HIDE DEF b, c, r, s
<1>7. Unmarked(s)
  <2>1. Behind(c \o s, Len(c), s)
    <3>1. /\ c \o s \in Seq(Byte) /\ Len(c) \in Nat /\ Len(s) \in Nat
          /\ Len(c \o s) = Len(c) + Len(s)
          /\ \A i \in 1..Len(s) : (c \o s)[Len(c) + i] = s[i]
      BY <1>3, <1>4, JoinAt DEF s
    <3> QED BY <1>4, <3>1 DEF Behind, s
  <2> QED BY <1>5, <2>1, UnmarkedBehind DEF s
<1>8. Unmarked(r)
  BY <1>1, <1>7, UnmarkedBehind DEF s
<1>9. CASE Contents' = Append(c, b)
  <2>1. Append(c, b) = c \o <<b>>
    BY <1>1, <1>3, AppendIsConcat
  <2>2. (c \o <<b>>) \o r = c \o (<<b>> \o r)
    <3>1. <<b>> \in Seq(Byte)
      BY <1>1
    <3> QED BY <1>3, <1>4, <3>1, ConcatAssociative
  <2>3. Contents' \o r = c \o Stream
    BY <1>1, <1>9, <2>1, <2>2
  <2> QED BY <1>5, <2>3 DEF r
<1>10. CASE Contents' = <<b>>
  BY <1>1, <1>7, <1>10 DEF r, s
<1>11. CASE Contents' = <<DELIM, b>>
  <2> DEFINE d == <<DELIM>>
  <2>1. d \in Seq(Byte) /\ Len(d) > 0 /\ d[Len(d)] = DELIM /\ Unmarked(d)
    BY Codes DEF Unmarked
  <2>2. <<DELIM, b>> = d \o <<b>>
    BY <1>1, Codes
  <2> HIDE DEF d
  <2>3. (d \o <<b>>) \o r = d \o (<<b>> \o r)
    <3>1. <<b>> \in Seq(Byte)
      BY <1>1
    <3> QED BY <2>1, <1>4, <3>1, ConcatAssociative
  <2>4. Unmarked(d \o s)
    BY <2>1, <1>4, <1>7, UnmarkedBehindDelim DEF s
  <2> QED BY <1>1, <1>11, <2>2, <2>3, <2>4 DEF r, s
<1>12. CASE Contents' = <<>>
  <2>1. <<>> \o r = r
    BY <1>4, ConcatEmptySeq
  <2> QED BY <1>8, <1>12, <2>1 DEF r
<1>13. CASE NoSemi(Contents')
  BY <1>3, <1>4, <1>8, <1>13, UnmarkedBehindPlain DEF r
<1> QED BY <1>6, <1>9, <1>10, <1>11, <1>12, <1>13 DEF RecordStep, c

\* A dump does not end while no end mark is in sight.
LEMMA DumpGoesOn ==
  ASSUME LinkInv, EngineInv, Deliver, Quiet,
         NEW states \in {ReportStates, HistoryStates}, header_state \in states
  PROVE  header_state' \in states /\ logmode' = logmode
<1> DEFINE b == Head(line)
<1>1. ParseByte(b) /\ ParserTypeOK /\ fault = "none" /\ Active /\ RecordBegun
      /\ ControlInv
  BY DeliverHandled DEF EngineInv
<1>2. logmode' = logmode
  <2>1. header_state \in ReportStates \cup HistoryStates
    OBVIOUS
  <2> QED BY <1>1, <2>1 DEF ParseByte, ReportStates, HistoryStates, SS_Unknown, SS_Pause, SS_Display,
         SS_Printer, RPT_Start, RPT_Data, RPT_Display, RPT_Printer, HST_Start, HST_Display,
         HST_Printer, HST_Printer_Active, HST_Data, LOG_Start, LOG_Data, LOG_Display,
         LOG_Printer, LOG_Printer_Active, Enter, Accumulate, NullStream, Dies
<1>3. ASSUME header_state' \notin states
      PROVE  FALSE
  <2>1. b = DISPLAY
    <3>1. \/ header_state = "RPT_DATA"
          \/ header_state = "HST_DATA"
      BY <1>1, <1>3, ReportEnds, HistoryEnds
    <3>2. RPT_Data(b) \/ HST_Data(b)
      BY <1>1, <3>1 DEF ParseByte, SS_Unknown, SS_Pause, SS_Display, SS_Printer, RPT_Start,
         RPT_Display, RPT_Printer, HST_Start, HST_Display, HST_Printer, HST_Printer_Active,
         LOG_Start, LOG_Data, LOG_Display, LOG_Printer, LOG_Printer_Active
    <3> QED BY <1>3, <3>2 DEF RPT_Data, HST_Data, Accumulate
  <2>2. \E oob \in BOOLEAN : MarkAt(oob) /\ (oob => buffer_len >= 1 /\ buffer[0] = DELIM)
    <3>1. PICK down \in BOOLEAN : down = FALSE
      OBVIOUS
    <3>2. header_state \in ReportStates /\ header_state' \notin ReportStates => MarkAt(down)
      BY <1>1, <3>1, ReportEnds
    <3>3. header_state \in HistoryStates /\ header_state' \notin HistoryStates
            => header_state = "HST_DATA" /\ \E oob \in BOOLEAN : MarkAt(oob)
      BY <1>1, HistoryEnds
    <3> QED BY <1>1, <1>3, <3>1, <3>2, <3>3 DEF RecordBegun
  <2>3. PICK oob \in BOOLEAN : MarkAt(oob) /\ (oob => buffer_len >= 1 /\ buffer[0] = DELIM)
    BY <2>2
  <2>4. buffer_len >= 5 /\ \A k \in 1..5 : buffer[buffer_len - k] = EndMark[6 - k]
    <3>1. buffer_len >= 5 /\ buffer_len \in Nat
      BY <1>1, <2>3, MarkNeedsFive DEF ParserTypeOK
    <3> QED BY <2>3, <3>1 DEF MarkAt
  <2> DEFINE c == Contents
             s == Stream
             w == c \o s
             n == Len(c)
  <2>5. /\ c \in Seq(Byte) /\ n = buffer_len /\ n \in Nat
        /\ \A k \in 1..n : c[k] = buffer[k - 1]
    BY <1>1, ContentsType DEF Contents, ParserTypeOK
  <2>6. s \in Seq(Byte) /\ Len(s) > 0 /\ s[1] = DISPLAY
    <3>1. Stream \in Seq(Byte) /\ Stream # <<>> /\ Stream[1] = b
      BY DeliveredFirst DEF Behind, LinkInv
    <3> QED BY <2>1, <3>1, EmptySeq
  <2>7. Unmarked(w)
    BY <1>1 DEF Quiet
  <2> HIDE DEF c, s
  <2>8. /\ Len(w) = n + Len(s) /\ Len(s) \in Nat
        /\ \A i \in 1..n : w[i] = c[i]
        /\ w[n + 1] = s[1]
    <3>1. /\ Len(w) = n + Len(s) /\ Len(s) \in Nat
          /\ \A i \in 1..n : w[i] = c[i]
          /\ \A i \in 1..Len(s) : w[n + i] = s[i]
      BY <2>5, <2>6, JoinAt
    <3>2. 1 \in 1..Len(s)
      BY <2>6, <3>1
    <3> QED BY <3>1, <3>2
  <2> HIDE DEF w, n
  <2>9. ASSUME NEW k \in 1..5
        PROVE  w[(n + 1) - k] = EndMark[6 - k]
    <3>1. (n + 1) - k \in 1..n /\ ((n + 1) - k) - 1 = buffer_len - k
      BY <2>4, <2>5
    <3> QED BY <2>4, <2>5, <2>8, <3>1
  <2>10. Marked(w, n + 1)
    BY <2>6, <2>8, <2>9 DEF Marked
  <2>11. n + 1 \in 6..Len(w)
    BY <2>4, <2>5, <2>6, <2>8
  <2> QED BY <2>7, <2>10, <2>11 DEF Unmarked
<1> QED BY <1>2, <1>3

\* Log mode, and the dumps it gives way to, end with an answer that says so.
LEMMA LogGoesOn ==
  ASSUME Active, ControlInv, NEW b, ParseByte(b), HandlerStep(b), logmode,
         header_state \in LogStates \cup ReportStates \cup HistoryStates
  PROVE  \/ logmode' /\ header_state' \in LogStates \cup ReportStates \cup HistoryStates
         \/ ~logmode' /\ tx' # <<>> /\ header_state = "LOG_DISPLAY"
<1>1. CASE RPT_Start(b) \/ RPT_Data(b) \/ RPT_Display(b) \/ RPT_Printer(b)
  BY <1>1 DEF RPT_Start, RPT_Data, RPT_Display, RPT_Printer, Enter, Goto, Answer, Accumulate,
       AfterSession, NullStream, Dies, ReportStates, LogStates
<1>2. CASE HST_Start(b) \/ HST_Display(b) \/ HST_Printer_Active(b) \/ HST_Data(b)
  BY <1>2 DEF HST_Start, HST_Display, HST_Printer_Active, HST_Data, Enter, Goto, Answer,
       Accumulate, AfterSession, NullStream, Dies, HistoryStates, LogStates
<1>3. CASE LOG_Start(b) \/ LOG_Data(b) \/ LOG_Printer_Active(b)
  BY <1>3 DEF LOG_Start, LOG_Data, LOG_Printer_Active, Enter, Goto, Accumulate, Dies, LogStates
<1>4. CASE LOG_Display(b)
  <2>1. CASE StopLog(b)
    <3>1. tx' = <<StatusOf(FALSE)>> \o <<>>
      BY <2>1 DEF StopLog, Answer
    <3>2. tx' # <<>>
      BY <3>1
    <3> QED BY <1>4, <2>1, <3>2 DEF StopLog, LOG_Display
  <2> QED BY <1>4, <2>1 DEF LOG_Display, LOG_Display_Active, StartSession, Enter, Goto, Answer,
       Accumulate, NullStream, Dies, LogStates, ReportStates, HistoryStates
<1>5. ~LOG_Printer(b) /\ ~HST_Printer(b)
  BY DEF ControlInv, ListensOnly, LOG_Printer, HST_Printer
<1>6. ~(SS_Unknown(b) \/ SS_Pause(b) \/ SS_Display(b) \/ SS_Printer(b))
  BY DEF SS_Unknown, SS_Pause, SS_Display, SS_Printer, LogStates, ReportStates, HistoryStates
<1> QED BY <1>1, <1>2, <1>3, <1>4, <1>5, <1>6 DEF ParseByte

\* The records of a dump that are still to be sent
LEMMA RestNext ==
  ASSUME NEW dump \in {ReportRecords, HistoryRecords}, NEW t \in Rest(dump)
  PROVE  /\ t # <<>> /\ Head(t) \in Text
         /\ Tail(t) # <<>> => Tail(t) \in Rest(dump) /\ ~EndsDump(Head(t))
<1>1. /\ dump \in Seq(Text) /\ Len(dump) \in Nat
      /\ \A i \in 1..Len(dump) : EndsDump(dump[i]) <=> i = Len(dump)
  BY Dumps
<1> DEFINE n == Len(dump)
<1>2. PICK k \in 1..n : t = SubSeq(dump, k, n)
  BY DEF Rest
<1>3. n \in k..n
  BY <1>1
<1>4. Head(t) = dump[k] /\ Tail(t) = SubSeq(dump, k + 1, n) /\ dump[k] \in Text
  BY <1>1, <1>2, <1>3, HeadTailOfSubSeq, ElementOfSeq
<1>5. t # <<>>
  <2>1. t = <<dump[k]>> \o SubSeq(dump, k + 1, n)
    BY <1>1, <1>2, <1>3, SubSeqRecursiveFirst
  <2>2. \A i \in k..n : dump[i] \in Text
    BY <1>1, ElementOfSeq
  <2>3. k \in Int /\ n \in Int /\ k <= n
    BY <1>1
  <2>4. Len(t) = n - k + 1
    BY <1>2, <2>2, <2>3, SubSeqProperties
  <2>5. Len(t) # 0
    BY <2>3, <2>4
  <2> QED BY <2>5, EmptySeq
<1>6. ASSUME Tail(t) # <<>>
      PROVE  k + 1 \in 1..n /\ k # n
  <2>1. ASSUME k = n
        PROVE  FALSE
    <3>1. n < n + 1 /\ n + 1 \in Int /\ n \in Int
      BY <1>1
    <3>2. SubSeq(dump, n + 1, n) = <<>>
      BY <3>1, SubSeqEmpty
    <3> QED BY <1>4, <1>6, <2>1, <3>2
  <2> QED BY <1>1, <2>1
<1> QED BY <1>1, <1>4, <1>5, <1>6 DEF Rest

LEMMA RestFirst ==
  ASSUME NEW dump \in {ReportRecords, HistoryRecords}
  PROVE  /\ dump \in Rest(dump) /\ Tail(dump) \in Rest(dump)
         /\ Head(dump) \in Text /\ ~EndsDump(Head(dump))
<1>1. /\ dump \in Seq(Text) /\ Len(dump) \in Nat /\ Len(dump) > 1 /\ dump # <<>>
      /\ \A i \in 1..Len(dump) : EndsDump(dump[i]) <=> i = Len(dump)
  BY Dumps
<1> DEFINE n == Len(dump)
           s == SubSeq(dump, 1, n)
<1>2. 1 \in 1..n /\ 2 \in 1..n /\ n \in Int /\ 1 \in Int
  BY <1>1
<1>3. dump = s
  <2>1. \A i \in 1..n : dump[i] \in Text
    BY <1>1, ElementOfSeq
  <2>2. /\ s \in Seq(Text) /\ Len(s) = (IF 1 <= n THEN n - 1 + 1 ELSE 0)
        /\ \A i \in 1..n-1+1 : s[i] = dump[1 + i - 1]
    BY <1>2, <2>1, SubSeqProperties
  <2>3. Len(s) = n /\ \A i \in 1..n : s[i] = dump[i]
    <3>1. n - 1 + 1 = n /\ 1 <= n /\ \A i \in 1..n : 1 + i - 1 = i
      BY <1>1
    <3> QED BY <2>2, <3>1
  <2> HIDE DEF s
  <2> QED BY <1>1, <2>2, <2>3, SeqEqual
<1>4. Tail(dump) = SubSeq(dump, 2, n)
  BY <1>1, TailIsSubSeq
<1>5. Head(dump) = dump[1] /\ dump[1] \in Text
  BY <1>1, <1>2, ElementOfSeq
<1>6. ~EndsDump(dump[1])
  BY <1>1, <1>2
<1> QED BY <1>2, <1>3, <1>4, <1>5, <1>6 DEF Rest

LEMMA AnswerParts ==
  ASSUME NEW lm \in BOOLEAN, NEW state, NEW request \in Asked(state)
  PROVE  /\ Head(<<StatusOf(lm)>> \o request) = StatusOf(lm)
         /\ Tail(<<StatusOf(lm)>> \o request) = request
         /\ HasLogBit(StatusOf(lm)) <=> lm
<1>1. request \in Seq(Byte)
  <2>1. \A letter \in {RCh, ICh, TCh, HCh, LCh} : <<letter, CR>> \in Seq(Byte)
    BY Codes
  <2>2. <<>> \in Seq(Byte)
    BY EmptyText
  <2>3. \/ request = <<>>
        \/ \E letter \in {RCh, ICh, TCh, HCh, LCh} : request = <<letter, CR>>
    BY AskedIs DEF Asked
  <2> QED BY <2>1, <2>2, <2>3
<1> DEFINE x == StatusOf(lm)
           u == <<x>>
           a == u \o request
<1>2. x \in Byte
  BY Codes
<1>3. u \in Seq(Byte) /\ Len(u) = 1 /\ u[1] = x
  BY <1>2
<1>4. HasLogBit(StatusOf(lm)) <=> lm
  BY DEF HasLogBit, StatusOf
<1> HIDE DEF x, u
<1>5. /\ a \in Seq(Byte) /\ Len(a) = Len(u) + Len(request) /\ Len(request) \in Nat
      /\ \A i \in 1..Len(u) : a[i] = u[i]
      /\ \A i \in 1..Len(request) : a[Len(u) + i] = request[i]
  BY <1>1, <1>3, JoinAt
<1> HIDE DEF a
<1>6. Len(a) > 0 /\ a # <<>> /\ a[1] = x
  <2>1. 1 \in 1..Len(u)
    BY <1>3
  <2> QED BY <1>3, <1>5, <2>1, EmptySeq
<1>7. Behind(a, 1, Tail(a)) /\ Head(a) = a[1]
  BY <1>5, <1>6, TailBehind
<1>8. Tail(a) = request
  <2> DEFINE t == Tail(a)
  <2>1. /\ t \in Seq(Byte) /\ Len(a) = Len(t) + 1 /\ Len(t) \in Nat
        /\ \A i \in 1..Len(t) : t[i] = a[i + 1]
    BY <1>7, LenProperties DEF Behind
  <2> HIDE DEF t
  <2>2. Len(t) = Len(request)
    BY <1>3, <1>5, <2>1
  <2>3. \A i \in 1..Len(t) : t[i] = request[i]
    <3> SUFFICES ASSUME NEW i \in 1..Len(t)
                 PROVE  t[i] = request[i]
      OBVIOUS
    <3>1. i \in 1..Len(request) /\ Len(u) + i = i + 1
      BY <1>3, <2>1, <2>2
    <3> QED BY <1>5, <2>1, <3>1
  <2>4. t = request
    BY <1>1, <2>1, <2>2, <2>3, SeqEqual
  <2> QED BY <2>4 DEF t
<1> QED BY <1>4, <1>6, <1>7, <1>8 DEF a, u, x

\* Which state asks for what
LEMMA AskedOnly ==
  ASSUME NEW state, NEW request \in Asked(state)
  PROVE  /\ request = <<RCh, CR>> => state = "RPT_START"
         /\ request = <<ICh, CR>> => state = "HST_START"
         /\ request = <<TCh, CR>> => state \in {"LOG_START", "HST_PRINTER_ACTIVE"}
         /\ request = <<LCh, CR>> => state = "LOG_PRINTER_ACTIVE"
BY AskedIs DEF Asked, RCh, ICh, TCh, HCh, LCh

LEMMA QuietFrame ==
  ASSUME LinkInv, Unmarked(Contents), PlainFrame(m_out'), Stream' = m_out',
         UNCHANGED engineVars
  PROVE  Quiet'
<1>1. Contents' = Contents
  BY DEF Contents, engineVars, parserVars
<1> DEFINE f == m_out'
           c == Contents
<1>2. f \in Seq(Byte) /\ Unmarked(f) /\ f # <<>> /\ f[1] = DELIM
  BY PlainUnmarked, FrameOrderly
<1>3. c \in Seq(Byte)
  BY ContentsType DEF LinkInv, TypeOK
<1> HIDE DEF f, c
<1>4. Len(f) > 0 /\ f[1] \in LineCodes /\ f[1] # DISPLAY
  BY <1>2, EmptySeq, CodesDiffer DEF LineCodes
<1>5. Unmarked(c \o f)
  BY <1>2, <1>3, <1>4, UnmarkedBeforeCode DEF c
<1> QED BY <1>1, <1>5 DEF Quiet, c, f

LEMMA PlainSent ==
  /\ \A t \in Text : ~EndsDump(t) /\ SendFrame(t) => PlainFrame(m_out')
  /\ Silence => PlainFrame(m_out')
  /\ HearLogRecord => PlainFrame(m_out')
<1>1. \A t \in Text : ~EndsDump(t) /\ SendFrame(t) => PlainFrame(m_out')
  BY FrameCounts DEF PlainFrame
<1>2. <<>> \in Text /\ ~EndsDump(<<>>)
  BY DEF Text, EndsDump
<1>3. Silence => PlainFrame(m_out')
  BY <1>1, <1>2 DEF Silence
<1>4. HearLogRecord => PlainFrame(m_out')
  <2>1. \A n \in LateCounts : m_out' = LateWait(n) => PlainFrame(m_out')
    BY FrameCounts DEF PlainFrame
  <2> QED BY <1>1, <2>1, PressText, WaitIsText, LinkAssumption DEF HearLogRecord
<1> QED BY <1>1, <1>3, <1>4

\* What the 1022 does with the answer of the engine keeps the two in step.
LEMMA HeardMode ==
  ASSUME LinkInv, ModeInv, UNCHANGED engineVars, Unmarked(Contents), Stream' = m_out',
         NEW request \in Asked(header_state), Hear(StatusOf(logmode), request),
         header_state \in {"LOG_START", "LOG_PRINTER_ACTIVE"} => logmode
  PROVE  ModeInv'
<1> DEFINE st == StatusOf(logmode)
<1>1. /\ m_mode \in {"steady", "report", "history", "log"} /\ m_log \in BOOLEAN
      /\ logmode \in BOOLEAN /\ UNCHANGED <<header_state, logmode>>
  BY DEF LinkInv, LinkTypeOK, TypeOK, ParserTypeOK, engineVars, parserVars
<1>2. HasLogBit(st) <=> logmode
  BY <1>1, AnswerParts
<1>3. PlainFrame(m_out') => Quiet'
  BY QuietFrame
<1>4. <<>> \in Text /\ ~EndsDump(<<>>)
  BY DEF Text, EndsDump
<1> HIDE DEF st
<1>5. CASE HearReport /\ request = <<RCh, CR>> /\ (m_mode = "steady" \/ (m_mode = "log" /\ HasLogBit(st)))
  <2>1. header_state = "RPT_START"
    BY <1>5, AskedOnly
  <2>2. m_todo' \in Rest(ReportRecords) /\ Quiet'
    BY <1>3, <1>5, RestFirst, PlainSent DEF HearReport
  <2>3. m_log => logmode
    BY <1>2, <1>5 DEF ModeInv
  <2>4. m_mode' = "report" /\ m_log' = m_log
    BY <1>5 DEF HearReport
  <2> QED BY <1>1, <2>1, <2>2, <2>3, <2>4 DEF ModeInv, DumpRuns, ReportStates
<1>6. CASE HearHistory /\ request = <<ICh, CR>> /\ (m_mode = "steady" \/ (m_mode = "log" /\ HasLogBit(st)))
  <2>1. header_state = "HST_START"
    BY <1>6, AskedOnly
  <2>2. m_todo' \in Rest(HistoryRecords) /\ Quiet'
    BY <1>3, <1>4, <1>6, RestFirst, PlainSent DEF HearHistory
  <2>3. m_log => logmode
    BY <1>2, <1>6 DEF ModeInv
  <2>4. m_mode' = "history" /\ m_log' = m_log
    BY <1>6 DEF HearHistory
  <2> QED BY <1>1, <2>1, <2>2, <2>3, <2>4 DEF ModeInv, DumpRuns, HistoryStates
<1>7. CASE HearLogStart /\ request = <<TCh, CR>>
  <2>1. header_state \in {"LOG_START", "HST_PRINTER_ACTIVE"}
    BY <1>7, AskedOnly
  <2>2. Quiet'
    <3>1. PICK rec \in LogRecords : SendFrame(rec)
      BY <1>7 DEF HearLogStart
    <3>2. rec \in Text /\ ~EndsDump(rec)
      BY LinkAssumption
    <3> QED BY <1>3, <3>1, <3>2, PlainSent
  <2>3. m_mode' = "log" /\ m_log'
    BY <1>7 DEF HearLogStart
  <2>4. \/ logmode /\ header_state \in LogStates \cup ReportStates \cup HistoryStates
        \/ ~logmode /\ header_state \in HistoryStates /\ Quiet'
    BY <2>1, <2>2 DEF LogStates, HistoryStates
  <2> QED BY <1>1, <2>3, <2>4 DEF ModeInv
<1>8. CASE Ignore /\ m_mode = "steady"
  BY <1>8 DEF Ignore, ModeInv
<1>9. CASE NextRecord /\ m_mode \in {"report", "history"}
  <2> DEFINE dump == IF m_mode = "report" THEN ReportRecords ELSE HistoryRecords
  <2>1. /\ m_todo \in Rest(dump) /\ dump \in {ReportRecords, HistoryRecords}
        /\ m_log => logmode
        /\ IF m_mode = "report" THEN header_state \in ReportStates
           ELSE header_state \in HistoryStates
    BY <1>9 DEF ModeInv, DumpRuns
  <2>2. /\ Head(m_todo) \in Text
        /\ Tail(m_todo) # <<>> => Tail(m_todo) \in Rest(dump) /\ ~EndsDump(Head(m_todo))
    BY <2>1, RestNext
  <2>3. CASE Tail(m_todo) # <<>>
    <3>1. Quiet' /\ m_todo' \in Rest(dump) /\ m_mode' = m_mode /\ m_log' = m_log
      BY <1>3, <1>9, <2>2, <2>3, PlainSent DEF NextRecord
    <3> QED BY <1>1, <1>9, <2>1, <3>1 DEF ModeInv, DumpRuns
  <2>4. CASE Tail(m_todo) = <<>>
    <3>1. m_mode' = (IF m_log THEN "log" ELSE "steady") /\ m_log' = m_log
      BY <1>9, <2>4 DEF NextRecord
    <3> QED BY <1>1, <2>1, <3>1 DEF ModeInv
  <2> QED BY <2>3, <2>4
<1>10. CASE HearNoLogBit
  BY <1>10 DEF HearNoLogBit, ModeInv
<1>11. CASE HearLogRecord /\ m_mode = "log" /\ request = <<LCh, CR>>
  <2>1. header_state = "LOG_PRINTER_ACTIVE" /\ logmode
    BY <1>11, AskedOnly
  <2>2. m_mode' = "log" /\ m_log'
    BY <1>11 DEF HearLogRecord, ModeInv
  <2> QED BY <1>1, <2>1, <2>2 DEF ModeInv, LogStates
<1>12. CASE Silence /\ ~(m_mode = "log" /\ ~HasLogBit(st))
  <2>1. Quiet' /\ UNCHANGED <<m_mode, m_log, m_todo>>
    BY <1>3, <1>12, PlainSent DEF Silence
  <2> QED BY <1>1, <1>2, <1>12, <2>1 DEF ModeInv, DumpRuns
<1>13. \/ HearReport /\ request = <<RCh, CR>> /\ (m_mode = "steady" \/ (m_mode = "log" /\ HasLogBit(st)))
       \/ HearHistory /\ request = <<ICh, CR>> /\ (m_mode = "steady" \/ (m_mode = "log" /\ HasLogBit(st)))
       \/ HearLogStart /\ request = <<TCh, CR>>
       \/ Ignore /\ m_mode = "steady"
       \/ NextRecord /\ m_mode \in {"report", "history"}
       \/ HearNoLogBit
       \/ HearLogRecord /\ m_mode = "log" /\ request = <<LCh, CR>>
       \/ Silence /\ ~(m_mode = "log" /\ ~HasLogBit(st))
  BY DEF Hear, st
<1> QED BY <1>5, <1>6, <1>7, <1>8, <1>9, <1>10, <1>11, <1>12, <1>13

LEMMA ModeStep ==
  ASSUME LinkInv, LinkInv', EngineInv, StreamInv, EarInv, ModeInv, [LinkNext]_linkVars
  PROVE  ModeInv'
<1>1. CASE SendByte
  <2>1. Stream' = Stream
    BY SentStays, <1>1 DEF LinkInv
  <2>2. UNCHANGED <<fault, buffer, buffer_len, header_state, logmode, m_mode, m_log, m_todo, m_ear>>
    BY <1>1 DEF SendByte, engineVars, parserVars
  <2>3. Quiet' = Quiet
    BY <2>1, <2>2 DEF Quiet, Contents
  <2> QED BY <2>2, <2>3 DEF ModeInv, DumpRuns
<1>2. CASE TakeReply
  <2>1. /\ Stream = <<>> /\ Unmarked(Contents)
        /\ \E a : m_ear = <<a>> /\ Answered(a)
    BY <1>2 DEF TakeReply, EarInv
  <2>2. PICK a : m_ear = <<a>> /\ Answered(a)
    BY <2>1
  <2>3. Hear(Head(a), Tail(a))
    BY <1>2, <2>2 DEF TakeReply
  <2>4. PICK request \in Asked(header_state) : a = <<StatusOf(logmode)>> \o request
    BY <2>2 DEF Answered
  <2>5. logmode \in BOOLEAN
    BY DEF LinkInv, TypeOK, ParserTypeOK
  <2>6. Head(a) = StatusOf(logmode) /\ Tail(a) = request
    BY <2>4, <2>5, AnswerParts
  <2>7. Hear(StatusOf(logmode), request)
    BY <2>3, <2>6
  <2>8. Stream' = m_out'
    BY <1>2, <2>1, FrameFirst
  <2>9. UNCHANGED engineVars
    BY <1>2 DEF TakeReply
  <2>10. header_state \in {"LOG_START", "LOG_PRINTER_ACTIVE"} => logmode
    BY <2>2 DEF Answered
  <2> QED BY <2>1, <2>7, <2>8, <2>9, <2>10, HeardMode
<1>3. CASE SlotOver
  <2>1. Stream = <<>> /\ Stream' = m_out'
    BY <1>3, FrameFirst
  <2>2. /\ UNCHANGED <<m_mode, m_log, m_todo>> /\ PlainFrame(m_out') /\ m_ear = <<>>
        /\ UNCHANGED engineVars
    BY <1>3, PlainSent DEF SlotOver, Silence
  <2>3. UNCHANGED <<header_state, logmode, fault>>
    BY <2>2 DEF engineVars, parserVars
  <2>4. Quiet => Quiet'
    <3>1. CASE fault = "none"
      <4>1. Contents \o Stream = Contents
        <5>1. Contents \in Seq(Byte)
          BY ContentsType DEF LinkInv, TypeOK
        <5> QED BY <2>1, <5>1, ConcatEmptySeq
      <4> QED BY <2>1, <2>2, <3>1, <4>1, QuietFrame DEF Quiet
    <3>2. CASE fault # "none"
      BY <2>3, <3>2 DEF Quiet
    <3> QED BY <3>1, <3>2
  <2> QED BY <2>2, <2>3, <2>4 DEF ModeInv, DumpRuns
<1>4. CASE Deliver
  <2> DEFINE b == Head(line)
  <2>1. UNCHANGED <<m_mode, m_log, m_todo>>
    BY <1>4 DEF Deliver
  <2>2. Stream # <<>> /\ m_ear = <<>>
    BY <1>4, DeliveredFirst DEF EarInv, LinkInv
  <2>3. Quiet => Quiet'
    BY <1>4, QuietDelivered
  <2>4. Quiet /\ header_state \in ReportStates => header_state' \in ReportStates /\ logmode' = logmode
    BY <1>4, DumpGoesOn
  <2>5. Quiet /\ header_state \in HistoryStates => header_state' \in HistoryStates /\ logmode' = logmode
    BY <1>4, DumpGoesOn
  <2>6. logmode /\ header_state \in LogStates \cup ReportStates \cup HistoryStates
          => \/ logmode' /\ header_state' \in LogStates \cup ReportStates \cup HistoryStates
             \/ ~logmode' /\ m_ear' # <<>>
    <3> SUFFICES ASSUME logmode, header_state \in LogStates \cup ReportStates \cup HistoryStates,
                        ~(logmode' /\ header_state' \in LogStates \cup ReportStates \cup HistoryStates)
                 PROVE  ~logmode' /\ m_ear' # <<>>
      OBVIOUS
    <3>1. Active /\ ControlInv /\ ParseByte(b) /\ HandlerStep(b) /\ ParserTypeOK /\ fault = "none"
      BY <1>4, DeliverHandled
    <3>2. ~logmode' /\ tx' # <<>> /\ header_state = "LOG_DISPLAY"
      BY <3>1, LogGoesOn
    <3>3. b = PRINTER /\ buffer_len > 0 /\ LastByte = DELIM
      BY <3>1, <3>2 DEF HandlerStep, AnswerStep
    <3>4. Polled
      BY <3>1, <3>3, LastOfContents DEF Polled
    <3>5. Stream[1] = PRINTER
      BY <1>4, <3>3, DeliveredFirst DEF LinkInv
    <3>6. Len(Stream) = 1
      BY <2>2, <3>4, <3>5 DEF StreamInv
    <3>7. Slot
      <4>1. line \in Seq(Byte) /\ m_out \in Seq(Byte) /\ line # <<>>
        BY <1>4 DEF Deliver, LinkInv, LinkTypeOK
      <4> DEFINE k == Len(line)
                 l == Len(m_out)
      <4>2. k \in Nat /\ l \in Nat /\ k > 0 /\ k + l = 1
        <5>1. Len(line) \in Nat /\ Len(m_out) \in Nat /\ Len(line) > 0
          BY <4>1, EmptySeq, LenProperties
        <5>2. Len(line \o m_out) = Len(line) + Len(m_out)
          BY <4>1, JoinAt
        <5> QED BY <3>6, <5>1, <5>2 DEF Stream
      <4> HIDE DEF k, l
      <4>3. l = 0
        BY <4>2
      <4> QED BY <4>1, <4>3, EmptySeq DEF Slot, l
    <3>8. m_ear' = <<tx'>>
      BY <1>4, <2>2, <3>2, <3>7 DEF Deliver
    <3> QED BY <3>2, <3>8
  <2>7. m_log => m_log'
    BY <2>1
  <2> QED BY <2>1, <2>2, <2>3, <2>4, <2>5, <2>6 DEF ModeInv, DumpRuns
<1>5. CASE \E m \in Messages \cup {NoRequest} : Loop(m)
  <2>1. /\ Stream' = Stream
        /\ UNCHANGED <<fault, buffer, buffer_len, header_state, logmode, m_mode, m_log, m_todo, m_ear>>
    BY <1>5 DEF Loop, masterVars, LoopHead, Stream
  <2>2. Quiet' = Quiet
    BY <2>1 DEF Quiet, Contents
  <2> QED BY <2>1, <2>2 DEF ModeInv, DumpRuns
<1>6. CASE UNCHANGED linkVars
  <2>1. /\ Stream' = Stream
        /\ UNCHANGED <<fault, buffer, buffer_len, header_state, logmode, m_mode, m_log, m_todo, m_ear>>
    BY <1>6 DEF linkVars, masterVars, engineVars, parserVars, Stream
  <2>2. Quiet' = Quiet
    BY <2>1 DEF Quiet, Contents
  <2> QED BY <2>1, <2>2 DEF ModeInv, DumpRuns
<1> QED BY <1>1, <1>2, <1>3, <1>4, <1>5, <1>6 DEF LinkNext

LineInv == StreamInv /\ EarInv /\ ModeInv

LEMMA InitLine == LinkInit => LineInv
<1> SUFFICES ASSUME LinkInit
             PROVE  EarInv /\ ModeInv
  BY InitStream DEF LineInv
<1> QED BY DEF LinkInit, EarInv, ModeInv

LEMMA NextLine ==
  LinkInv /\ LinkInv' /\ EngineInv /\ LineInv /\ [LinkNext]_linkVars => LineInv'
BY StreamStep, EarStep, ModeStep DEF LineInv

\* Types, the engine's own invariants, and what the line, the ear of the 1022
\* and its session have to do with the state of the engine: the inductive
\* invariant of the two together.
THEOREM LineInvariant == LinkSpec => [](LinkInv /\ EngineInv /\ LineInv)
<1>1. LinkSpec => []LinkInv
  BY InitLinkInv, NextLinkInv, PTL DEF LinkSpec
<1>2. LinkSpec => []EngineInv
  <2>1. IInv /\ RecordBegun => EngineInv
    BY DEF EngineInv
  <2> QED BY <2>1, LinkIsEngine, ControlInvariant, BegunInvariant, PTL
<1> QED BY <1>1, <1>2, InitLine, NextLine, PTL DEF LinkSpec

\* The 1022 never runs a session the engine is not in, for every display
\* record, every dump and log record, every frame length, lag and schedule.
THEOREM MasterFollowed == LinkSpec => []EngineFollowsMaster
<1>1. LinkInv /\ EngineInv /\ LineInv => EngineFollowsMaster
  <2> SUFFICES ASSUME LinkInv, LineInv
               PROVE  EngineFollowsMaster
    OBVIOUS
  <2>1. ASSUME m_mode = "log", ~logmode, m_ear # <<>>
        PROVE  \E k \in DOMAIN m_ear : ~HasLogBit(Head(m_ear[k]))
    <3>1. PICK a : m_ear = <<a>> /\ Answered(a)
      BY <2>1 DEF LineInv, EarInv
    <3>2. PICK request \in Asked(header_state) : a = <<StatusOf(logmode)>> \o request
      BY <3>1 DEF Answered
    <3>3. logmode \in BOOLEAN
      BY DEF LinkInv, TypeOK, ParserTypeOK
    <3>4. ~HasLogBit(Head(a))
      BY <2>1, <3>2, <3>3, AnswerParts
    <3>5. 1 \in DOMAIN m_ear /\ m_ear[1] = a
      BY <3>1
    <3> QED BY <3>4, <3>5
  <2> QED BY <2>1 DEF LineInv, ModeInv, DumpRuns, EngineFollowsMaster
<1> QED BY <1>1, LineInvariant, PTL

-----------------------------------------------------------------------------
(* Answers *)

\* Only a byte that is delivered leaves the line.
LEMMA LineShrinks ==
  ASSUME LinkInv, LinkNext, Len(line') < Len(line)
  PROVE  Deliver
<1>1. line \in Seq(Byte) /\ Len(line) \in Nat
  BY LenProperties DEF LinkInv, LinkTypeOK
<1>2. ~TakeReply /\ ~SlotOver /\ ~\E m \in Messages \cup {NoRequest} : Loop(m)
  BY <1>1 DEF TakeReply, SlotOver, Loop, masterVars
<1>3. ASSUME SendByte
      PROVE  FALSE
  <2>1. m_out \in Seq(Byte) /\ m_out # <<>>
    BY <1>3 DEF LinkInv, LinkTypeOK, SendByte
  <2>2. Head(m_out) \in Byte
    BY <2>1, HeadTailProperties
  <2>3. Len(line') = Len(line) + 1
    BY <1>1, <1>3, <2>2, AppendProperties DEF SendByte
  <2> QED BY <1>1, <2>3
<1> QED BY <1>2, <1>3 DEF LinkNext

\* The last byte of the stream is delivered: nothing is sent or under way.
LEMMA LastDelivered ==
  ASSUME LinkInv, LinkInv', Deliver, Len(Stream) = 1
  PROVE  Slot /\ line' = <<>>
<1>1. Behind(Stream, 1, Stream')
  BY DeliveredFirst DEF LinkInv
<1>2. Stream' \in Seq(Byte) /\ Len(Stream') \in Nat
  BY <1>1, LenProperties DEF Behind
<1>3. Len(Stream) = Len(Stream') + 1
  BY <1>1 DEF Behind
<1>4. line' \in Seq(Byte) /\ m_out' \in Seq(Byte) /\ m_out' = m_out
  BY DEF LinkInv, LinkTypeOK, Deliver
<1>5. Len(line') \in Nat /\ Len(m_out') \in Nat /\ Len(Stream') = Len(line') + Len(m_out')
  BY <1>4, JoinAt DEF Stream
<1> DEFINE n == Len(Stream')
           a == Len(line')
           b == Len(m_out')
<1>6. n \in Nat /\ a \in Nat /\ b \in Nat /\ n = a + b /\ n + 1 = 1
  BY <1>2, <1>3, <1>5
<1> HIDE DEF n, a, b
<1>7. a = 0 /\ b = 0
  BY <1>6
<1> QED BY <1>4, <1>7, EmptySeq DEF Slot, a, b

\* Whatever display the 1022 sends, 0x90 in it or not: an answer falls into the
\* slot behind a whole frame, where it meets no byte of the 1022, but for that to
\* a 0x90 with no 0x98 in front of it in the steady state.
THEOREM LinkAnswersInSlot == LinkSpec => AnswersInSlot
<1> DEFINE Known == LinkInv /\ EngineInv /\ LineInv
           InTime == Len(line') < Len(line) /\ tx' # <<>> =>
                       \/ Slot /\ line' = <<>>
                       \/ header_state = "SS_PAUSE" /\ ~BehindDelim
<1>1. Known /\ LinkInv' /\ [LinkNext]_linkVars => [InTime]_linkVars
  <2> SUFFICES ASSUME Known, LinkInv', LinkNext, Len(line') < Len(line), tx' # <<>>,
                      header_state # "SS_PAUSE" \/ BehindDelim
               PROVE  Slot /\ line' = <<>>
    OBVIOUS
  <2>1. Deliver
    BY LineShrinks
  <2>2. fault = "none" /\ AnswerStep(Head(line)) /\ ParserTypeOK
    BY <2>1, DeliverHandled DEF HandlerStep
  <2>3. Head(line) = PRINTER /\ buffer_len > 0 /\ LastByte = DELIM
    BY <2>2 DEF AnswerStep, BehindDelim
  <2>4. Polled
    BY <2>2, <2>3, LastOfContents DEF Polled
  <2>5. Stream # <<>> /\ Stream[1] = PRINTER
    BY <2>1, <2>3, DeliveredFirst DEF LinkInv
  <2>6. Len(Stream) = 1
    BY <2>4, <2>5 DEF LineInv, StreamInv
  <2> QED BY <2>1, <2>6, LastDelivered
<1>2. LinkSpec => []Known
  BY LineInvariant, PTL
<1> QED BY <1>1, <1>2, PTL DEF LinkSpec, AnswersInSlot

-----------------------------------------------------------------------------
(* Alone in the slot *)

\* A step of the engine on the line leads from SS_PRINTER to SS_PAUSE only.
LEMMA SlotStep ==
  ASSUME LinkInv, EngineInv, LineInv, [LinkNext]_linkVars, header_state = "SS_PRINTER"
  PROVE  header_state' \in {"SS_PRINTER", "SS_PAUSE"}
<1>1. CASE Deliver
  <2> DEFINE b == Head(line)
  <2>1. Stream # <<>> /\ Stream[1] = b /\ Stream \in Seq(Byte)
    BY <1>1, DeliveredFirst, StreamType DEF LinkInv
  <2>2. Alone(Stream)
    BY DEF LineInv, StreamInv
  <2>3. Stream[1] # CR
    <3>1. 1 \in 1..Len(Stream)
      BY <2>1, EmptySeq
    <3>2. 1..1-1 = {}
      OBVIOUS
    <3> QED BY <2>2, <3>1, <3>2 DEF Alone
  <2>4. Active /\ ControlInv /\ ParseByte(b) /\ HandlerStep(b)
    BY <1>1, DeliverHandled
  <2> HIDE DEF b
  <2> QED BY <2>1, <2>3, <2>4, PrinterSlot
<1>2. CASE ~Deliver
  <2>1. header_state' = header_state
    BY <1>2 DEF LinkNext, SendByte, TakeReply, SlotOver, Loop, LoopHead, linkVars,
       engineVars, parserVars
  <2> QED BY <2>1
<1> QED BY <1>1, <1>2

\* Nobody else answers in the slot: a 0x90 that is not the poll has no CR
\* behind it before the next 0x98.
THEOREM LinkAloneInSlot == LinkSpec => AloneInSlot
<1> DEFINE Leaves == Active /\ header_state = "SS_PRINTER" => header_state' # "LOG_START"
<1>1. (LinkInv /\ EngineInv /\ LineInv) /\ [LinkNext]_linkVars => [Leaves]_engineVars
  BY SlotStep
<1>2. [][Leaves]_engineVars => AloneInSlot
  BY PTL DEF AloneInSlot
<1> QED BY <1>1, <1>2, LineInvariant, PTL DEF LinkSpec

\* What log mode reads in the buffer is the record, or the engine's own answer
\* in front of it, for every record, frame, request and schedule of the line.
THEOREM LinkRecordsFresh == LinkSpec => []LogRecordIsFresh
BY LogRecordsFresh, LinkIsEngine, LinkAloneInSlot, PTL

-----------------------------------------------------------------------------
(* Requests to switch log mode *)

OnFits == "LOGMODE_ON_REQ" \in control => ~logmode

\* No signal is sent, and log mode is asked for with the log bit up.
FitInv ==
  /\ OffFits /\ OnFits
  /\ ~trigger1 /\ ~trigger2
  /\ header_state = "LOG_START" => logmode

LEMMA ParseByteOnFits ==
  ASSUME Active, ControlInv, OnFits, NEW b, ParseByte(b),
         header_state = "LOG_START" => logmode
  PROVE  OnFits'
<1>0. OnFits' \/ ~UNCHANGED <<logmode, control>>
  BY DEF OnFits
<1>1. CASE Accumulate(b) \/ NullStream \/ Dies("overrun") \/ \E state : PushTo(state, b)
  BY <1>0, <1>1 DEF Accumulate, PushTo, NullStream, Dies
<1>2. CASE \E state, rec : Enter(state, rec)
  BY <1>0, <1>2 DEF Enter
<1>3. CASE SS_Unknown(b) \/ SS_Pause(b) \/ SS_Display(b) \/ SS_Printer(b)
  <2>1. CASE SS_Pause_Active(b)
    BY <1>0, <2>1 DEF SS_Pause_Active, StartSession, StartLog, Settle, OnFits
  <2>2. CASE SS_Pause(b) /\ SS_Pause_Directive
    <3>1. ~logmode
      BY <2>2 DEF SS_Pause, ControlInv, LogBitFollowsLogMode, SteadyStates
    <3> QED BY <2>2, <3>1 DEF SS_Pause_Directive, OnFits
  <2>3. CASE SS_Pause(b)
    BY <1>1, <1>2, <2>1, <2>2, <2>3 DEF SS_Pause
  <2> QED BY <1>0, <1>1, <1>2, <1>3, <2>3 DEF SS_Unknown, SS_Display, SS_Printer
<1>4. CASE RPT_Start(b) \/ RPT_Data(b) \/ RPT_Display(b) \/ RPT_Printer(b)
  BY <1>0, <1>1, <1>2, <1>4
  DEF RPT_Start, RPT_Data, RPT_Display, RPT_Printer, SettleSession, OnFits
<1>5. CASE \/ HST_Start(b) \/ HST_Display(b) \/ HST_Printer(b)
           \/ HST_Printer_Active(b) \/ HST_Data(b)
  BY <1>0, <1>1, <1>2, <1>5
  DEF HST_Start, HST_Display, HST_Printer, HST_Printer_Active, HST_Data,
      SettleSession, OnFits
<1>6. CASE \/ LOG_Start(b) \/ LOG_Data(b) \/ LOG_Display(b) \/ LOG_Printer(b)
           \/ LOG_Printer_Active(b)
  <2>1. CASE LOG_Start(b)
    BY <1>1, <2>1 DEF LOG_Start, OnFits
  <2>2. CASE LOG_Data(b)
    <3>1. ("LOGMODE_ON_REQ" \in control' => "LOGMODE_ON_REQ" \in control) /\ logmode' = logmode
      BY <2>2 DEF LOG_Data, DirectiveBit, Dies, Accumulate
    <3> QED BY <3>1 DEF OnFits
  <2>3. CASE LOG_Display(b)
    BY <1>0, <1>1, <1>2, <2>3
    DEF LOG_Display, LOG_Display_Active, StopLog, Settle, StartSession, OnFits
  <2>4. ~LOG_Printer(b)
    BY DEF LOG_Printer, ControlInv, ListensOnly
  <2> QED BY <1>1, <1>2, <1>6, <2>1, <2>2, <2>3, <2>4 DEF LOG_Printer_Active
<1> QED BY <1>3, <1>4, <1>5, <1>6 DEF ParseByte

\* LOG_START is entered with the log bit of the answer up.
LEMMA LogStarts ==
  ASSUME Active, ControlInv, NEW b, ParseByte(b), header_state' = "LOG_START",
         header_state # "SS_PRINTER", header_state = "LOG_START" => logmode
  PROVE  logmode'
<1>1. CASE SS_Pause(b)
  BY <1>1 DEF SS_Pause, SS_Pause_Active, StartSession, StartLog, Answer, Goto, Enter,
     Accumulate, SS_Pause_Directive
<1>2. CASE LOG_Start(b)
  BY <1>2 DEF LOG_Start, Goto, Accumulate
<1>3. CASE SS_Unknown(b) \/ SS_Display(b) \/ SS_Printer(b)
  BY <1>3 DEF SS_Unknown, SS_Display, SS_Printer, Enter, Goto, Accumulate, NullStream, Dies
<1>4. CASE RPT_Start(b) \/ RPT_Data(b) \/ RPT_Display(b) \/ RPT_Printer(b)
  BY <1>4 DEF RPT_Start, RPT_Data, RPT_Display, RPT_Printer, Enter, Goto, Answer,
     Accumulate, AfterSession, NullStream, Dies
<1>5. CASE \/ HST_Start(b) \/ HST_Display(b) \/ HST_Printer(b) \/ HST_Printer_Active(b)
           \/ HST_Data(b)
  BY <1>5 DEF HST_Start, HST_Display, HST_Printer, HST_Printer_Active, HST_Data,
     Enter, Goto, Answer, Accumulate, AfterSession, NullStream, Dies
<1>6. CASE LOG_Data(b) \/ LOG_Display(b) \/ LOG_Printer_Active(b)
  BY <1>6 DEF LOG_Data, LOG_Display, LOG_Display_Active, StopLog, StartSession,
     LOG_Printer_Active, Enter, Goto, Answer, Accumulate, NullStream, Dies
<1>7. ~LOG_Printer(b)
  BY DEF ControlInv, ListensOnly, LOG_Printer
<1> QED BY <1>1, <1>2, <1>3, <1>4, <1>5, <1>6, <1>7 DEF ParseByte

\* A request to switch log mode waits only while it has something to switch,
\* whatever clients and the panel of the 1022 ask for and however long the
\* answer takes.
THEOREM LinkRequestsFit == LinkSpec => []LogRequestsFit
<1>1. LinkInit => FitInv
  BY DEF LinkInit, Init, ParseOpen, FitInv, OffFits, OnFits
<1>2. (LinkInv /\ EngineInv /\ LineInv) /\ FitInv /\ [LinkNext]_linkVars => FitInv'
  <2> SUFFICES ASSUME LinkInv, EngineInv, LineInv, FitInv, [LinkNext]_linkVars
               PROVE  FitInv'
    OBVIOUS
  <2>1. CASE SendByte \/ TakeReply \/ SlotOver \/ UNCHANGED linkVars
    <3>1. UNCHANGED engineVars
      BY <2>1 DEF SendByte, TakeReply, SlotOver, linkVars
    <3> QED BY <3>1 DEF FitInv, OffFits, OnFits, engineVars, parserVars
  <2>2. CASE Deliver
    <3> DEFINE b == Head(line)
    <3>1. Active /\ ControlInv /\ ParseByte(b)
      BY <2>2, DeliverHandled
    <3>2. UNCHANGED <<trigger1, trigger2>>
      BY <2>2 DEF Deliver, Receive
    <3> HIDE DEF b
    <3>3. OffFits' /\ OnFits'
      BY <3>1, ParseByteOffFits, ParseByteOnFits DEF FitInv
    <3>4. header_state = "SS_PRINTER" => header_state' # "LOG_START"
      BY SlotStep
    <3>5. header_state' = "LOG_START" => logmode'
      BY <3>1, <3>4, LogStarts DEF FitInv
    <3> QED BY <3>2, <3>3, <3>5 DEF FitInv
  <2>3. ASSUME NEW m \in Messages \cup {NoRequest}, Loop(m)
        PROVE  FitInv'
    BY <2>3 DEF Loop, LoopHead, TriggerBits, RequestBits, FitInv, OffFits, OnFits
  <2> QED BY <2>1, <2>2, <2>3 DEF LinkNext
<1>3. FitInv => LogRequestsFit
  BY DEF FitInv, OffFits, OnFits, LogRequestsFit
<1> QED BY <1>1, <1>2, <1>3, LineInvariant, PTL DEF LinkSpec
=============================================================================
