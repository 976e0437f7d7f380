--------------------------- MODULE RecordingProofs --------------------------
(***************************************************************************)
(* That a block which runs is what main announced, and that a recording is *)
(* replayed as it was heard: for every sequence of options and any number  *)
(* of lives, files and datagrams.                                          *)
(***************************************************************************)
EXTENDS Recording, SequenceFacts

-----------------------------------------------------------------------------
(* The options *)

\* What the sanity check accepts as a mode is what the block's own condition
\* takes up; the one mode it accepts and no block takes up is the passive dump.
LEMMA CheckFitsBlock ==
  ASSUME NEW opts, Announced(opts) # "none"
  PROVE  /\ Block(opts) = "unit test" => Announced(opts) = "unit test" /\ "ACTIVE_MODE" \notin opts
         /\ Block(opts) = "live" => Announced(opts) = "interactive"
         /\ Block(opts) = "no block" => Announced(opts) = "passive dump" /\ "ACTIVE_MODE" \notin opts
         /\ Block(opts) = "capture" => Announced(opts) = "capture"
BY DEF Announced, Block

\* -c takes ACTIVE_MODE away and nothing gives it back.
CaptureIsQuiet == "CAPTURE" \in options => "ACTIVE_MODE" \notin options

LEMMA TargetIsNoMode ==
  ASSUME NEW opts
  PROVE  Announced(opts \cup {"TARGET"}) = Announced(opts)
BY DEF Announced

-----------------------------------------------------------------------------
(* The invariant *)

\* Behind the check, where main has got to
Past == {"directories", "port", "no block"} \cup BlocksAt

BlockAt(where) ==
  CASE where \in {"unit test", "replaying"} -> "unit test"
    [] where \in {"capture", "capturing"} -> "capture"
    [] OTHER -> where

IInv ==
  /\ StartupTypeOK
  /\ CaptureIsQuiet
  /\ at \in Past => announced = Announced(options) /\ announced # "none"
  /\ at \in Past \ {"directories"} => Needed \subseteq dirs
  /\ at \in Past \ {"directories", "port"} => Block(options) = BlockAt(at)

LEMMA IInvInit == Init => IInv
BY StartupAssumption DEF Init, StartupInit, IInv, StartupTypeOK, CaptureIsQuiet, Past, BlocksAt

\* A process that ends leaves nothing but its directories.
LEMMA StopOK ==
  ASSUME IInv, NEW value \in {"none", "success", "failure", "killed", "null", "overrun"},
         Stop(value), dirs' \subseteq {"disk", "ram"}
  PROVE  IInv'
BY DEF IInv, StartupTypeOK, Stop, CaptureIsQuiet, Past, BlocksAt

LEMMA GoesOK ==
  ASSUME IInv, NEW from \in Past \ {"directories", "port"},
         NEW to \in BlocksAt, BlockAt(to) = BlockAt(from), Goes(from, to)
  PROVE  IInv'
BY DEF IInv, StartupTypeOK, Goes, CaptureIsQuiet, Past, BlocksAt, Needed

LEMMA StartupOK ==
  ASSUME IInv,
         \/ Start \/ Check \/ Directories \/ OpenPort \/ LiveOrNoBlock
         \/ \E letter \in Letters : TakeOption(letter)
  PROVE  IInv'
<1>1. CASE Start
  <2>1. lives' \in 0..Lives_Max
    <3>1. lives \in 0..Lives_Max /\ lives > 0 /\ lives' = lives - 1
      BY <1>1 DEF Start, IInv, StartupTypeOK
    <3> QED BY <3>1, StartupAssumption
  <2>2. dirs' \subseteq {"disk", "ram"}
    BY <1>1 DEF Start, IInv, StartupTypeOK
  <2>3. /\ options' \subseteq Options /\ CaptureIsQuiet'
        /\ announced' = announced /\ rpi' = rpi /\ exit_value' = "none"
        /\ at' = "options" /\ at' \notin Past
    BY <1>1 DEF Start, Options, CaptureIsQuiet, Past, BlocksAt
  <2> QED BY <2>1, <2>2, <2>3 DEF IInv, StartupTypeOK
<1>2. ASSUME NEW letter \in Letters, TakeOption(letter)
      PROVE  IInv'
  <2>1. CASE End("success") \/ End("failure")
    BY <2>1, StopOK DEF End, IInv, StartupTypeOK
  <2>2. CASE /\ at = "options" /\ letter \in {"c", "d", "p", "s", "u"}
             /\ options' = WithOption(letter)
             /\ UNCHANGED <<announced, at, exit_value, rpi, dirs, lives>>
    <3>1. WithOption(letter) \subseteq Options
      BY <2>2 DEF WithOption, Options, IInv, StartupTypeOK
    <3>2. CaptureIsQuiet'
      BY <2>2 DEF WithOption, CaptureIsQuiet, IInv
    <3> QED BY <2>2, <3>1, <3>2 DEF IInv, StartupTypeOK, Past, BlocksAt
  <2> QED BY <1>2, <2>1, <2>2 DEF TakeOption
<1>3. CASE Check
  <2>1. CASE End("failure")
    BY <2>1, StopOK DEF End, IInv, StartupTypeOK
  <2>2. CASE /\ announced' = Announced(options) /\ Announced(options) # "none"
             /\ at' = "directories"
             /\ UNCHANGED <<options, exit_value, rpi, dirs, lives>>
    <3>1. Announced(options) \in {"none", "interactive", "passive dump", "unit test", "capture"}
      BY DEF Announced
    <3> QED BY <1>3, <2>2, <3>1 DEF Check, IInv, StartupTypeOK, CaptureIsQuiet, Past, BlocksAt
  <2> QED BY <1>3, <2>1, <2>2 DEF Check
<1>4. CASE Directories
  <2>1. CASE End("failure")
    BY <2>1, StopOK DEF End, IInv, StartupTypeOK
  <2>2. CASE dirs' = dirs \cup {"disk"} /\ Stop("failure")
    BY <2>2, StopOK DEF IInv, StartupTypeOK
  <2>3. CASE /\ dirs' = dirs \cup Needed
             /\ at' = "port"
             /\ options' = IF rpi THEN options \cup {"TARGET"} ELSE options
             /\ UNCHANGED <<announced, exit_value, rpi, lives>>
    <3>1. Announced(options') = Announced(options)
      BY <2>3, TargetIsNoMode
    <3>2. options' \subseteq Options /\ CaptureIsQuiet'
      BY <2>3 DEF IInv, StartupTypeOK, Options, CaptureIsQuiet
    <3>3. at = "directories" /\ exit_value = "none"
      BY <1>4 DEF Directories, IInv, StartupTypeOK
    <3> QED BY <2>3, <3>1, <3>2, <3>3 DEF IInv, StartupTypeOK, Needed, Past, BlocksAt
  <2> QED BY <1>4, <2>1, <2>2, <2>3 DEF Directories
<1>5. CASE OpenPort
  <2>1. CASE End("failure")
    BY <2>1, StopOK DEF End, IInv, StartupTypeOK
  <2>2. CASE at' = Block(options) /\ UNCHANGED <<options, announced, exit_value, rpi, dirs, lives>>
    <3>1. Block(options) \in {"unit test", "capture", "live", "no block"}
      BY DEF Block
    <3>2. BlockAt(Block(options)) = Block(options)
      BY <3>1 DEF BlockAt
    <3>3. at = "port" /\ exit_value = "none"
      BY <1>5 DEF OpenPort, IInv, StartupTypeOK
    <3> QED BY <2>2, <3>1, <3>2, <3>3
            DEF IInv, StartupTypeOK, CaptureIsQuiet, Needed, Past, BlocksAt
  <2> QED BY <1>5, <2>1, <2>2 DEF OpenPort
<1>6. CASE LiveOrNoBlock
  BY <1>6, StopOK DEF LiveOrNoBlock, End, IInv, StartupTypeOK
<1> QED BY <1>1, <1>2, <1>3, <1>4, <1>5, <1>6

LEMMA IInvNext == IInv /\ [Next]_vars => IInv'
<1> SUFFICES ASSUME IInv, [Next]_vars
             PROVE  IInv'
  OBVIOUS
<1>1. ASSUME UNCHANGED startVars
      PROVE  IInv'
  BY <1>1 DEF startVars, IInv, StartupTypeOK, CaptureIsQuiet, Needed
<1>2. ASSUME NEW value \in {"success", "failure", "killed", "null", "overrun"}, End(value)
      PROVE  IInv'
  BY <1>2, StopOK DEF End, IInv, StartupTypeOK
<1>3. CASE CaptureOpen
  <2>1. "capture" \in Past \ {"directories", "port"} /\ "capturing" \in BlocksAt
        /\ BlockAt("capturing") = BlockAt("capture")
    BY DEF Past, BlocksAt, BlockAt
  <2> QED BY <1>3, <2>1, GoesOK DEF CaptureOpen
<1>4. ASSUME NEW d \in Datagrams, CaptureRead(d)
      PROVE  IInv'
  BY <1>1, <1>2, <1>4 DEF CaptureRead
<1>5. CASE ReplayOpen
  <2>1. "unit test" \in Past \ {"directories", "port"} /\ "replaying" \in BlocksAt
        /\ BlockAt("replaying") = BlockAt("unit test")
    BY DEF Past, BlocksAt, BlockAt
  <2> QED BY <1>2, <1>5, <2>1, GoesOK DEF ReplayOpen
<1>6. CASE SkipMarker \/ ReadLine \/ ReplayEnd \/ Killed
  BY <1>1, <1>2, <1>6 DEF SkipMarker, ReadLine, ReplayEnd, Killed
<1> QED BY <1>1, <1>3, <1>4, <1>5, <1>6, StartupOK DEF Next, vars

-----------------------------------------------------------------------------
(* The block that runs *)

\* Whatever options main is given, a block that runs is the one its check
\* announced, on a machine with its directories in place, and recording or
\* replaying never goes with a parser that would answer on the line.
THEOREM BlockFits == Spec => []BlockIsFit
<1>1. IInv => BlockIsFit
  <2> SUFFICES ASSUME IInv, at \in BlocksAt
               PROVE  /\ announced = ModeOf(at) /\ Needed \subseteq dirs
                      /\ at # "live" => "ACTIVE_MODE" \notin options
    BY DEF BlockIsFit
  <2>1. /\ announced = Announced(options) /\ Announced(options) # "none"
        /\ Needed \subseteq dirs /\ Block(options) = BlockAt(at)
    BY DEF IInv, Past, BlocksAt
  <2>2. "CAPTURE" \in options => "ACTIVE_MODE" \notin options
    BY DEF IInv, CaptureIsQuiet
  <2>3. Block(options) = "capture" => "CAPTURE" \in options
    BY DEF Block
  <2>4. CASE at \in {"unit test", "replaying"}
    BY <2>1, <2>4, CheckFitsBlock DEF BlockAt, ModeOf
  <2>5. CASE at \in {"capture", "capturing"}
    BY <2>1, <2>2, <2>3, <2>5, CheckFitsBlock DEF BlockAt, ModeOf
  <2>6. CASE at = "live"
    BY <2>1, <2>6, CheckFitsBlock DEF BlockAt, ModeOf
  <2> QED BY <2>4, <2>5, <2>6 DEF BlocksAt
<1> QED BY <1>1, IInvInit, IInvNext, PTL DEF Spec

-----------------------------------------------------------------------------
(* The cells of a line *)

LEMMA ScannedIs ==
  ASSUME NEW cells \in Seq(Byte)
  PROVE  \E n \in 0..Len(cells) :
           /\ Scanned(cells) = SubSeq(cells, 1, n)
           /\ \A k \in 1..n : cells[k] # 0
           /\ n = Len(cells) \/ cells[n + 1] = 0
<1> DEFINE Ends(n) == n = Len(cells) \/ cells[n + 1] = 0
           T == {n \in 0..Len(cells) : Ends(n)}
           Stops(n) == /\ \A k \in 1..n : cells[k] # 0
                       /\ n = Len(cells) \/ cells[n + 1] = 0
<1>1. Len(cells) \in Nat /\ T \subseteq Nat /\ Len(cells) \in T
  OBVIOUS
<1>2. PICK n \in T : \A m \in T : n <= m
  BY <1>1, LeastOf
<1>3. ASSUME NEW k \in 1..n
      PROVE  cells[k] # 0
  <2>1. k - 1 \in 0..Len(cells) /\ (k - 1) + 1 = k /\ ~ (n <= k - 1)
    BY <1>1, SMT
  <2> QED BY <1>2, <2>1
<1>4. n \in 0..Len(cells) /\ Stops(n)
  BY <1>3
<1>5. Scanned(cells) = SubSeq(cells, 1, (CHOOSE m \in 0..Len(cells) : Stops(m)))
  BY DEF Scanned
<1> HIDE DEF Stops
<1>6. /\ (CHOOSE m \in 0..Len(cells) : Stops(m)) \in 0..Len(cells)
      /\ Stops(CHOOSE m \in 0..Len(cells) : Stops(m))
  BY <1>4
<1> QED BY <1>5, <1>6 DEF Stops

LEMMA ScannedType ==
  ASSUME NEW cells \in Seq(Byte)
  PROVE  Scanned(cells) \in Seq(Byte) /\ Len(Scanned(cells)) <= Len(cells)
BY ScannedIs

LEMMA ScannedWhole ==
  ASSUME NEW cells \in Seq(Byte), \A k \in 1..Len(cells) : cells[k] # 0
  PROVE  Scanned(cells) = cells
<1>1. PICK n \in 0..Len(cells) :
        Scanned(cells) = SubSeq(cells, 1, n) /\ (n = Len(cells) \/ cells[n + 1] = 0)
  BY ScannedIs
<1>2. n = Len(cells)
  <2>1. n # Len(cells) => n + 1 \in 1..Len(cells)
    BY SMT
  <2> QED BY <1>1, <2>1
<1> QED BY <1>1, <1>2

\* The last cell may be a zero.
LEMMA ScannedCut ==
  ASSUME NEW cells \in Seq(Byte), \A k \in 1..Len(cells) : cells[k] # 0, NEW byte \in Byte
  PROVE  Scanned(Append(cells, byte)) \in {cells, Append(cells, byte)}
<1> DEFINE all == Append(cells, byte)
<1>1. all \in Seq(Byte) /\ Len(all) = Len(cells) + 1 /\ Len(cells) \in Nat
  OBVIOUS
<1>2. /\ \A k \in 1..Len(cells) : all[k] = cells[k]
      /\ SubSeq(all, 1, Len(cells)) = cells /\ SubSeq(all, 1, Len(all)) = all
  OBVIOUS
<1> HIDE DEF all
<1>3. PICK n \in 0..Len(all) :
        Scanned(all) = SubSeq(all, 1, n) /\ (n = Len(all) \/ all[n + 1] = 0)
  BY <1>1, ScannedIs
<1>4. n = Len(all) \/ n = Len(cells)
  <2>1. n # Len(all) /\ n # Len(cells) => n + 1 \in 1..Len(cells)
    BY <1>1, SMT
  <2> QED BY <1>2, <1>3, <2>1
<1> QED BY <1>2, <1>3, <1>4 DEF all

-----------------------------------------------------------------------------
(* The lines of a datagram *)

\* Cell for cell, the lines DumpHex wrote are the datagram.
LEMMA DumpHexLines ==
  ASSUME NEW d \in Seq(Byte)
  PROVE  /\ DumpHex(d) \in Seq(Lines)
         /\ \A k \in 1..Len(DumpHex(d)) :
              /\ ~DumpHex(d)[k].mark
              /\ Len(DumpHex(d)[k].cells) <= Cells
              /\ k < Len(DumpHex(d)) => Len(DumpHex(d)[k].cells) = Cells
<1> DEFINE N == (Len(d) + Cells - 1) \div Cells
           to(k) == IF Cells * k < Len(d) THEN Cells * k ELSE Len(d)
           from(k) == Cells * (k - 1) + 1
<1>1. Len(d) \in Nat /\ N \in Nat
  BY DEF Cells
<1>2. ASSUME NEW k \in 1..N
      PROVE  /\ from(k) \in 1..Len(d) /\ to(k) \in 1..Len(d) /\ from(k) <= to(k)
             /\ to(k) - from(k) + 1 <= 16
             /\ k < N => to(k) - from(k) + 1 = 16
  BY <1>1, SMT DEF Cells
<1> HIDE DEF N, to, from
<1>3. ASSUME NEW k \in 1..N
      PROVE  /\ SubSeq(d, from(k), to(k)) \in Seq(Byte)
             /\ Len(SubSeq(d, from(k), to(k))) = to(k) - from(k) + 1
  BY <1>2
<1>4. DumpHex(d) = [k \in 1..N |-> Line(SubSeq(d, from(k), to(k)))]
  BY DEF DumpHex, N, to, from
<1>5. \A k \in 1..N : /\ Line(SubSeq(d, from(k), to(k))) \in Lines
                      /\ Line(SubSeq(d, from(k), to(k))).mark = FALSE
                      /\ Line(SubSeq(d, from(k), to(k))).cells = SubSeq(d, from(k), to(k))
  BY <1>3 DEF Line, Lines
<1>6. DumpHex(d) \in Seq(Lines) /\ Len(DumpHex(d)) = N
  BY <1>1, <1>4, <1>5
<1>7. \A k \in 1..N : /\ DumpHex(d)[k].mark = FALSE
                      /\ DumpHex(d)[k].cells = SubSeq(d, from(k), to(k))
  <2> HIDE DEF DumpHex
  <2> QED BY <1>4, <1>5
<1>8. ASSUME NEW k \in 1..N
      PROVE  /\ ~DumpHex(d)[k].mark
             /\ Len(DumpHex(d)[k].cells) <= Cells
             /\ k < N => Len(DumpHex(d)[k].cells) = Cells
  <2>1. /\ Len(DumpHex(d)[k].cells) = to(k) - from(k) + 1
        /\ ~DumpHex(d)[k].mark
    BY <1>3, <1>7
  <2> HIDE DEF DumpHex
  <2> QED BY <1>2, <2>1 DEF Cells
<1> QED BY <1>6, <1>8

-----------------------------------------------------------------------------
(* Types *)

\* Outside of its block neither loop has a state.
ReplayIdle ==
  at # "replaying" =>
    line = 0 /\ in_is_chunked = FALSE /\ in_chunked_data = <<>> /\ parsed = <<>>
CaptureIdle == at # "capturing" => cap_fp = FALSE /\ printed = <<>>

LinesFit(f) == \A n \in 1..Len(f) : Len(f[n].cells) <= Cells

\* The variables of the two blocks, and how long the lines get
RecInv ==
  /\ IInv
  /\ file \in Seq(Lines) /\ LinesFit(file)
  /\ printed \in Seq(Lines) /\ LinesFit(printed)
  /\ cap_fp \in BOOLEAN /\ own \in BOOLEAN
  /\ heard \in Seq(Byte)
  /\ line \in 0..Len(file)
  /\ in_is_chunked \in BOOLEAN
  /\ in_chunked_data \in Seq(Byte) /\ Len(in_chunked_data) <= Room
  /\ in_is_chunked <=> in_chunked_data # <<>>
  /\ parsed \in Seq(Seq(Byte))
  /\ ReplayIdle
  /\ CaptureIdle

LEMMA EmptyLines == <<>> \in Seq(Lines) /\ LinesFit(<<>>) /\ Len(<<>>) = 0
BY DEF LinesFit

LEMMA LinesJoin ==
  ASSUME NEW f \in Seq(Lines), NEW g \in Seq(Lines), LinesFit(f), LinesFit(g)
  PROVE  f \o g \in Seq(Lines) /\ LinesFit(f \o g)
<1>1. /\ f \o g \in Seq(Lines) /\ Len(f \o g) = Len(f) + Len(g)
      /\ Len(f) \in Nat /\ Len(g) \in Nat
  OBVIOUS
<1>2. ASSUME NEW n \in 1..Len(f \o g)
      PROVE  Len((f \o g)[n].cells) <= Cells
  <2>1. CASE n <= Len(f)
    <3>1. n \in 1..Len(f) /\ (f \o g)[n] = f[n]
      BY <1>1, <2>1, SMT
    <3> QED BY <3>1 DEF LinesFit
  <2>2. CASE n > Len(f)
    <3>1. n - Len(f) \in 1..Len(g) /\ (f \o g)[n] = g[n - Len(f)]
      BY <1>1, <2>2, SMT
    <3> QED BY <3>1 DEF LinesFit
  <2> QED BY <1>1, <2>1, <2>2
<1> QED BY <1>1, <1>2 DEF LinesFit

LEMMA MarkerLine == <<Marker>> \in Seq(Lines) /\ LinesFit(<<Marker>>)
<1>1. Marker \in Lines /\ Len(Marker.cells) = 0
  BY DEF Marker, Lines
<1>2. <<Marker>> \in Seq(Lines) /\ Len(<<Marker>>) = 1 /\ <<Marker>>[1] = Marker
  BY <1>1
<1> QED BY <1>1, <1>2 DEF LinesFit, Cells

\* What is left of a cut line: some of its cells, or some and one digit more.
LEMMA CutIs ==
  ASSUME NEW l \in Lines, NEW c \in CutLines(l)
  PROVE  /\ ~l.mark
         /\ \E j \in 1..Len(l.cells) :
              \/ c = Line(SubSeq(l.cells, 1, j))
              \/ c = Line(Append(SubSeq(l.cells, 1, j - 1), l.cells[j] \div 16))
BY DEF CutLines

LEMMA CutType ==
  ASSUME NEW l \in Lines, NEW c \in CutLines(l)
  PROVE  c \in Lines /\ ~c.mark /\ Len(c.cells) <= Len(l.cells)
<1>1. PICK j \in 1..Len(l.cells) :
        \/ c = Line(SubSeq(l.cells, 1, j))
        \/ c = Line(Append(SubSeq(l.cells, 1, j - 1), l.cells[j] \div 16))
  BY CutIs
<1>2. l.cells \in Seq(Byte) /\ Len(l.cells) \in Nat
  BY DEF Lines
<1>3. SubSeq(l.cells, 1, j) \in Seq(Byte) /\ Len(SubSeq(l.cells, 1, j)) = j
  BY <1>2
<1>4. /\ SubSeq(l.cells, 1, j - 1) \in Seq(Byte)
      /\ Len(SubSeq(l.cells, 1, j - 1)) = j - 1
  BY <1>2
<1>5. l.cells[j] \div 16 \in Byte
  <2>1. l.cells[j] \in Byte
    BY <1>2
  <2>2. \A b \in Byte : b \div 16 \in Byte
    BY SMT DEF Byte
  <2> QED BY <2>1, <2>2
<1>6. /\ Append(SubSeq(l.cells, 1, j - 1), l.cells[j] \div 16) \in Seq(Byte)
      /\ Len(Append(SubSeq(l.cells, 1, j - 1), l.cells[j] \div 16)) = j
  BY <1>4, <1>5
<1>7. \A cells \in Seq(Byte) : /\ Line(cells) \in Lines /\ ~Line(cells).mark
                               /\ Line(cells).cells = cells
  BY DEF Line, Lines
<1>8. \E cells \in Seq(Byte) : c = Line(cells) /\ Len(cells) = j
  BY <1>1, <1>3, <1>6
<1> QED BY <1>2, <1>7, <1>8

\* The file of a capture that was killed: whole lines, then a cut one or none
LEMMA FlushedIs ==
  ASSUME NEW f \in Flushed
  PROVE  \/ \E k \in 0..Len(printed) : f = SubSeq(printed, 1, k)
         \/ \E k \in 1..Len(printed) : \E c \in CutLines(printed[k]) :
              f = Append(SubSeq(printed, 1, k - 1), c)
BY DEF Flushed

LEMMA FlushedType ==
  ASSUME printed \in Seq(Lines), LinesFit(printed), NEW f \in Flushed
  PROVE  f \in Seq(Lines) /\ LinesFit(f)
<1>1. ASSUME NEW k \in 0..Len(printed)
      PROVE  /\ SubSeq(printed, 1, k) \in Seq(Lines)
             /\ Len(SubSeq(printed, 1, k)) = k
             /\ LinesFit(SubSeq(printed, 1, k))
  <2>1. /\ SubSeq(printed, 1, k) \in Seq(Lines) /\ Len(SubSeq(printed, 1, k)) = k
        /\ \A n \in 1..k : n \in 1..Len(printed) /\ SubSeq(printed, 1, k)[n] = printed[n]
    OBVIOUS
  <2> QED BY <2>1 DEF LinesFit
<1>2. ASSUME NEW k \in 1..Len(printed), NEW c \in CutLines(printed[k]),
             f = Append(SubSeq(printed, 1, k - 1), c)
      PROVE  f \in Seq(Lines) /\ LinesFit(f)
  <2>1. k - 1 \in 0..Len(printed)
    BY SMT
  <2>2. printed[k] \in Lines /\ Len(printed[k].cells) <= Cells
    BY DEF LinesFit
  <2>3. c \in Lines /\ Len(c.cells) <= Cells
    <3>1. c \in Lines /\ Len(c.cells) <= Len(printed[k].cells)
      BY <2>2, CutType
    <3>2. Len(c.cells) \in Nat /\ Len(printed[k].cells) \in Nat
      BY <2>2, <3>1 DEF Lines
    <3> QED BY <2>2, <3>1, <3>2, SMT DEF Cells
  <2>4. <<c>> \in Seq(Lines) /\ LinesFit(<<c>>)
    BY <2>3 DEF LinesFit
  <2>5. f = SubSeq(printed, 1, k - 1) \o <<c>>
    BY <1>1, <1>2, <2>1, <2>3
  <2> QED BY <1>1, <2>1, <2>4, <2>5, LinesJoin
<1> QED BY <1>1, <1>2, FlushedIs

LEMMA CollectedType ==
  ASSUME in_chunked_data \in Seq(Byte), NEW cells \in Seq(Byte)
  PROVE  Collected(cells) \in Seq(Byte)
BY ScannedType DEF Collected

LEMMA RecInvInit == Init => RecInv
<1> SUFFICES ASSUME Init
             PROVE  RecInv
  OBVIOUS
<1>1. file \in Seq(Lines) /\ LinesFit(file)
  BY RecordingAssumption DEF Init, LinesFit
<1>2. <<>> \in Seq(Byte) /\ <<>> \in Seq(Seq(Byte)) /\ Len(<<>>) <= Room
  BY DEF Room
<1>3. line \in 0..Len(file)
  BY <1>1 DEF Init
<1> QED BY <1>1, <1>2, <1>3, EmptyLines, IInvInit DEF Init, RecInv, ReplayIdle, CaptureIdle

\* A step of main outside of the two blocks
LEMMA OutsideOK ==
  ASSUME RecInv, IInv', UNCHANGED recVars,
         at \notin {"replaying", "capturing"}
  PROVE  RecInv'
BY DEF RecInv, recVars, ReplayIdle, CaptureIdle, LinesFit

LEMMA EndOutside ==
  ASSUME NEW value, End(value)
  PROVE  at' = "ended"
BY DEF End, Stop

LEMMA CaptureTypes ==
  ASSUME RecInv, IInv', CaptureOpen \/ \E d \in Datagrams : CaptureRead(d)
  PROVE  RecInv'
<1>1. CASE CaptureOpen
  <2>1. at = "capture" /\ at' = "capturing"
    BY <1>1 DEF CaptureOpen, Goes
  <2>2. /\ line' = 0 /\ in_is_chunked' = FALSE /\ in_chunked_data' = <<>> /\ parsed' = <<>>
        /\ CaptureIdle' /\ ReplayIdle'
    BY <1>1, <2>1 DEF CaptureOpen, RecInv, ReplayIdle, CaptureIdle, replayVars
  <2>3. /\ printed' = <<>> /\ cap_fp' \in BOOLEAN /\ own' \in BOOLEAN
        /\ file' \in {file, <<>>} /\ heard' \in {heard, <<>>}
    BY <1>1 DEF CaptureOpen, RecInv
  <2>4. file' \in Seq(Lines) /\ LinesFit(file') /\ heard' \in Seq(Byte) /\ 0 \in 0..Len(file')
    <3>1. <<>> \in Seq(Byte) /\ \A f \in Seq(Lines) : 0 \in 0..Len(f)
      OBVIOUS
    <3> QED BY <2>3, <3>1, EmptyLines DEF RecInv
  <2>5. <<>> \in Seq(Byte) /\ <<>> \in Seq(Seq(Byte)) /\ Len(<<>>) <= Room
    BY DEF Room
  <2> QED BY <2>2, <2>3, <2>4, <2>5, EmptyLines DEF RecInv, LinesFit
<1>2. ASSUME NEW d \in Datagrams, CaptureRead(d)
      PROVE  RecInv'
  <2>1. at = "capturing" /\ d \in Seq(Byte)
    BY <1>2, RecordingAssumption DEF CaptureRead
  <2>2. /\ ReplayIdle' /\ UNCHANGED <<file, own, replayVars>>
        /\ replayVars = <<0, FALSE, <<>>, <<>> >>
    BY <1>2, <2>1 DEF CaptureRead, RecInv, ReplayIdle, replayVars
  <2>3. /\ printed' \in Seq(Lines) /\ LinesFit(printed') /\ heard' \in Seq(Byte)
        /\ cap_fp' \in BOOLEAN /\ CaptureIdle'
    <3>1. CASE /\ printed' = printed \o <<Marker>> \o DumpHex(d)
               /\ heard' = heard \o d
               /\ UNCHANGED <<startVars, cap_fp>>
      <4>1. DumpHex(d) \in Seq(Lines) /\ LinesFit(DumpHex(d))
        BY <2>1, DumpHexLines DEF LinesFit
      <4>2. printed \o <<Marker>> \in Seq(Lines) /\ LinesFit(printed \o <<Marker>>)
        BY LinesJoin, MarkerLine DEF RecInv
      <4>3. heard \o d \in Seq(Byte)
        BY <2>1 DEF RecInv
      <4>4. printed' \in Seq(Lines) /\ LinesFit(printed')
        BY <3>1, <4>1, <4>2, LinesJoin
      <4> QED BY <2>1, <3>1, <4>3, <4>4 DEF RecInv, CaptureIdle, startVars
    <3>2. CASE End("null") /\ CaptureGone /\ UNCHANGED heard
      BY <3>2, EndOutside, EmptyLines DEF CaptureGone, CaptureIdle, RecInv
    <3> QED BY <1>2, <3>1, <3>2 DEF CaptureRead
  <2> QED BY <2>2, <2>3 DEF RecInv, replayVars, LinesFit
<1> QED BY <1>1, <1>2

LEMMA KilledTypes ==
  ASSUME RecInv, IInv', Killed
  PROVE  RecInv'
<1>1. file' \in Seq(Lines) /\ LinesFit(file')
  BY FlushedType DEF Killed, RecInv
<1>2. 0 \in 0..Len(file')
  BY <1>1
<1>3. <<>> \in Seq(Byte) /\ <<>> \in Seq(Seq(Byte)) /\ Len(<<>>) <= Room
  BY DEF Room
<1> QED BY <1>1, <1>2, <1>3, EmptyLines
        DEF Killed, RecInv, ReplayGone, CaptureGone, ReplayIdle, CaptureIdle, LinesFit

LEMMA ReplayTypes ==
  ASSUME RecInv, IInv', ReplayOpen \/ SkipMarker \/ ReadLine \/ ReplayEnd
  PROVE  RecInv'
<1>1. <<>> \in Seq(Byte) /\ <<>> \in Seq(Seq(Byte)) /\ Len(<<>>) <= Room /\ 0 \in 0..Len(file)
  BY DEF Room, RecInv
<1>2. ASSUME NEW value, End(value), ReplayGone, UNCHANGED <<file, own, captureVars>>,
             at = "replaying"
      PROVE  RecInv'
  BY <1>1, <1>2, EndOutside
     DEF RecInv, ReplayGone, ReplayIdle, CaptureIdle, captureVars, LinesFit
<1>3. CASE ReplayOpen
  BY <1>3, EndOutside DEF ReplayOpen, Goes, RecInv, recVars, ReplayIdle, CaptureIdle, LinesFit
<1>4. CASE SkipMarker
  <2>1. line + 1 \in 0..Len(file)
    BY <1>4 DEF SkipMarker, RecInv
  <2> QED BY <1>4, <2>1 DEF SkipMarker, RecInv, startVars, captureVars, ReplayIdle,
                          CaptureIdle, LinesFit
<1>5. CASE ReplayEnd
  BY <1>2, <1>5 DEF ReplayEnd
<1>6. CASE ReadLine
  <2> DEFINE cells == file[line + 1].cells
  <2>1. at = "replaying" /\ line + 1 \in 1..Len(file) /\ line + 1 \in 0..Len(file)
    BY <1>6 DEF ReadLine, RecInv
  <2>2. cells \in Seq(Byte)
    <3>1. file[line + 1] \in Lines
      BY <2>1 DEF RecInv
    <3> QED BY <3>1 DEF Lines
  <2>3. Collected(cells) \in Seq(Byte)
    BY <2>2, CollectedType DEF RecInv
  <2> HIDE DEF cells
  <2>4. CASE Overruns(cells) /\ End("overrun") /\ ReplayGone
    BY <1>2, <1>6, <2>1, <2>4 DEF ReadLine
  <2>5. CASE /\ ~Overruns(cells) /\ UNCHANGED startVars
             /\ line' = line + 1
             /\ in_is_chunked' = Joins(cells)
             /\ IF Joins(cells)
                THEN in_chunked_data' = Collected(cells) /\ UNCHANGED parsed
                ELSE in_chunked_data' = <<>> /\ parsed' = Append(parsed, Collected(cells))
    <3>1. Len(Collected(cells)) <= Room /\ Joins(cells) \in BOOLEAN
      BY <2>3, <2>5 DEF Overruns, Room, Joins, IsFull
    <3>2. Joins(cells) => Collected(cells) # <<>>
      <4>1. Scanned(cells) \in Seq(Byte)
        BY <2>2, ScannedType
      <4>2. Len(Collected(cells)) = Len(in_chunked_data) + Len(Scanned(cells))
        BY <4>1 DEF Collected, RecInv
      <4>3. Joins(cells) => Len(Collected(cells)) > 0
        BY <4>1, <4>2 DEF Joins, IsFull, CHUNK_VAL_15, RecInv
      <4> QED BY <4>3
    <3>3. parsed' \in Seq(Seq(Byte))
      <4>1. Append(parsed, Collected(cells)) \in Seq(Seq(Byte))
        BY <2>3, AppendType DEF RecInv
      <4> QED BY <2>5, <4>1 DEF RecInv
    <3>4. /\ in_chunked_data' \in Seq(Byte) /\ Len(in_chunked_data') <= Room
          /\ in_is_chunked' <=> in_chunked_data' # <<>>
          /\ in_is_chunked' \in BOOLEAN
      BY <1>1, <2>3, <2>5, <3>1, <3>2
    <3>5. UNCHANGED <<file, own, captureVars>>
      BY <1>6 DEF ReadLine
    <3> QED BY <2>1, <2>5, <3>3, <3>4, <3>5
            DEF RecInv, startVars, captureVars, ReplayIdle, CaptureIdle, LinesFit
  <2> QED BY <1>6, <2>4, <2>5 DEF ReadLine, cells
<1> QED BY <1>3, <1>4, <1>5, <1>6

LEMMA RecInvNext == RecInv /\ [Next]_vars => RecInv'
<1> SUFFICES ASSUME RecInv, [Next]_vars
             PROVE  RecInv'
  OBVIOUS
<1>1. IInv'
  BY IInvNext DEF RecInv
<1>2. CASE UNCHANGED vars
  BY <1>1, <1>2 DEF vars, startVars, recVars, RecInv, ReplayIdle, CaptureIdle, LinesFit
<1>3. CASE /\ \/ Start \/ Check \/ Directories \/ OpenPort \/ LiveOrNoBlock
              \/ \E letter \in Letters : TakeOption(letter)
           /\ UNCHANGED recVars
  <2>1. at \notin {"replaying", "capturing"}
    BY <1>3 DEF Start, Check, Directories, OpenPort, LiveOrNoBlock, TakeOption
  <2> QED BY <1>1, <1>3, <2>1, OutsideOK
<1> QED BY <1>1, <1>2, <1>3, CaptureTypes, KilledTypes, ReplayTypes DEF Next

LEMMA RecInvHolds == Spec => []RecInv
BY RecInvInit, RecInvNext, PTL DEF Spec

\* Every variable of the recording and of the replay keeps its type, and the
\* chunk never outgrows its array, whatever the file holds.
THEOREM RecordingTypes == Spec => []TypeOK
<1>1. RecInv => TypeOK
  BY DEF RecInv, IInv, TypeOK
<1> QED BY <1>1, RecInvHolds, PTL

-----------------------------------------------------------------------------
(* The order of what is replayed *)

LEMMA ScannedLinesType ==
  ASSUME RecInv
  PROVE  ScannedLines \in Seq(Seq(Byte)) /\ Len(ScannedLines) = line
<1>1. line \in Nat
  BY DEF RecInv
<1>2. ASSUME NEW n \in 1..line
      PROVE  (IF file[n].mark THEN <<>> ELSE Scanned(file[n].cells)) \in Seq(Byte)
  <2>1. n \in 1..Len(file)
    BY SMT DEF RecInv
  <2>2. file[n] \in Lines
    BY <2>1 DEF RecInv
  <2>3. file[n].cells \in Seq(Byte)
    BY <2>2 DEF Lines
  <2>4. Scanned(file[n].cells) \in Seq(Byte) /\ <<>> \in Seq(Byte)
    BY <2>3, ScannedType
  <2> QED BY <2>4
<1> QED BY <1>1, <1>2 DEF ScannedLines

\* A line that has been read is one more.
LEMMA ScannedLinesGrow ==
  ASSUME RecInv, RecInv', line' = line + 1, file' = file
  PROVE  ScannedLines' = Append(ScannedLines, IF file[line + 1].mark THEN <<>>
                                              ELSE Scanned(file[line + 1].cells))
<1> DEFINE Of(n) == IF file[n].mark THEN <<>> ELSE Scanned(file[n].cells)
<1>1. line \in Nat
  BY DEF RecInv
<1>2. ScannedLines = [n \in 1..line |-> Of(n)] /\ ScannedLines' = [n \in 1..(line + 1) |-> Of(n)]
  BY DEF ScannedLines
<1> HIDE DEF Of
<1>3. Append([n \in 1..line |-> Of(n)], Of(line + 1)) = [n \in 1..(line + 1) |-> Of(n)]
  BY <1>1
<1> QED BY <1>2, <1>3 DEF Of

LEMMA Concats ==
  ASSUME NEW S, NEW a \in Seq(S), NEW b \in Seq(S), NEW c \in Seq(S)
  PROVE  /\ (a \o b) \o c = a \o (b \o c) /\ a \o <<>> = a /\ <<>> \o a = a
         /\ a \o b \in Seq(S)
OBVIOUS

LEMMA OrderNext ==
  ASSUME RecInv, RecInv', NothingReordered, [Next]_vars
  PROVE  NothingReordered'
<1> SUFFICES ASSUME at' = "replaying"
             PROVE  Replayed' = FlattenSeq(ScannedLines')
  BY DEF NothingReordered
<1>1. CASE at # "replaying"
  <2>1. line' = 0 /\ parsed' = <<>> /\ in_chunked_data' = <<>>
    <3>1. line = 0 /\ parsed = <<>> /\ in_chunked_data = <<>>
      BY <1>1 DEF RecInv, ReplayIdle
    <3>2. UNCHANGED <<line, parsed, in_chunked_data>>
      BY <1>1, EndOutside
         DEF Next, vars, recVars, CaptureOpen, CaptureRead, Killed, ReplayOpen, SkipMarker,
             ReadLine, ReplayEnd, replayVars
    <3> QED BY <3>1, <3>2
  <2>2. ScannedLines' = <<>>
    BY <2>1 DEF ScannedLines
  <2>3. <<>> \in Seq(Byte) /\ Replayed' = FlattenSeq(<<>>) \o <<>>
    BY <2>1 DEF Replayed
  <2> QED BY <2>2, <2>3, FlattenEmpty
<1>2. CASE at = "replaying"
  <2>1. Replayed = FlattenSeq(ScannedLines)
    BY <1>2 DEF NothingReordered
  <2>2. /\ in_chunked_data \in Seq(Byte) /\ parsed \in Seq(Seq(Byte))
        /\ FlattenSeq(parsed) \in Seq(Byte)
        /\ ScannedLines \in Seq(Seq(Byte)) /\ FlattenSeq(ScannedLines) \in Seq(Byte)
    BY FlattenType, ScannedLinesType DEF RecInv
  <2>3. CASE UNCHANGED <<file, line, parsed, in_chunked_data>>
    BY <2>1, <2>3 DEF Replayed, ScannedLines
  <2>4. CASE SkipMarker
    <3>1. <<>> \in Seq(Byte)
      OBVIOUS
    <3>2. ScannedLines' = Append(ScannedLines, <<>>)
      BY <2>4, ScannedLinesGrow DEF SkipMarker
    <3>3. FlattenSeq(ScannedLines') = FlattenSeq(ScannedLines) \o <<>>
      BY <2>2, <3>1, <3>2, FlattenAppend
    <3>4. Replayed' = Replayed
      BY <2>4 DEF SkipMarker, Replayed
    <3> QED BY <2>1, <2>2, <3>3, <3>4, Concats
  <2>5. CASE ReadLine
    <3> DEFINE cells == file[line + 1].cells
    <3>1. /\ ~Overruns(cells) /\ line' = line + 1 /\ file' = file /\ ~file[line + 1].mark
          /\ IF Joins(cells)
             THEN in_chunked_data' = Collected(cells) /\ UNCHANGED parsed
             ELSE in_chunked_data' = <<>> /\ parsed' = Append(parsed, Collected(cells))
      BY <2>5, EndOutside DEF ReadLine
    <3>2. cells \in Seq(Byte)
      <4>1. line + 1 \in 1..Len(file)
        BY <2>5 DEF ReadLine, RecInv
      <4>2. file[line + 1] \in Lines
        BY <4>1 DEF RecInv
      <4> QED BY <4>2 DEF Lines
    <3>3. Scanned(cells) \in Seq(Byte) /\ Collected(cells) \in Seq(Byte)
      BY <2>2, <3>2, ScannedType, CollectedType
    <3>4. ScannedLines' = Append(ScannedLines, Scanned(cells))
      BY <3>1, ScannedLinesGrow
    <3> HIDE DEF cells
    <3>5. FlattenSeq(ScannedLines') = FlattenSeq(ScannedLines) \o Scanned(cells)
      BY <2>2, <3>3, <3>4, FlattenAppend
    <3>6. Replayed' = FlattenSeq(parsed) \o Collected(cells)
      <4>1. CASE Joins(cells)
        BY <3>1, <4>1 DEF Replayed
      <4>2. CASE ~Joins(cells)
        <5>1. FlattenSeq(parsed') = FlattenSeq(parsed) \o Collected(cells)
          BY <2>2, <3>1, <3>3, <4>2, FlattenAppend
        <5>2. FlattenSeq(parsed) \o Collected(cells) \in Seq(Byte)
          BY <2>2, <3>3
        <5> QED BY <3>1, <4>2, <5>1, <5>2, Concats DEF Replayed
      <4> QED BY <4>1, <4>2
    <3>7. FlattenSeq(parsed) \o Collected(cells) = Replayed \o Scanned(cells)
      <4> DEFINE a == FlattenSeq(parsed)
                 b == in_chunked_data
                 c == Scanned(cells)
      <4>1. a \in Seq(Byte) /\ b \in Seq(Byte) /\ c \in Seq(Byte)
        BY <2>2, <3>3
      <4>2. Collected(cells) = b \o c /\ Replayed = a \o b
        BY DEF Collected, Replayed
      <4> HIDE DEF a, b, c
      <4>3. a \o (b \o c) = (a \o b) \o c
        BY <4>1, Concats
      <4> QED BY <4>2, <4>3 DEF a, c
    <3> QED BY <2>1, <3>5, <3>6, <3>7
  <2>6. Killed \/ ReplayEnd => at' = "ended"
    BY EndOutside DEF Killed, ReplayEnd
  <2> QED BY <1>2, <2>3, <2>4, <2>5, <2>6
          DEF Next, vars, recVars, CaptureOpen, CaptureRead, ReplayOpen, Goes, Start, Check,
              Directories, OpenPort, LiveOrNoBlock, TakeOption
<1> QED BY <1>1, <1>2

\* The parser gets the bytes of the lines that were read, each once and in the
\* order of the file, whatever lines CHUNK_VAL_15 joins and whatever the file.
THEOREM ReplayKeepsOrder == Spec => []NothingReordered
<1>1. Init => NothingReordered
  BY DEF Init, StartupInit, NothingReordered
<1> QED BY <1>1, OrderNext, RecInvHolds, PTL DEF Spec

-----------------------------------------------------------------------------
(* How much the chunk holds *)

\* FullRun, of any file
RunOf(f) ==
  CHOOSE run : run = [n \in Nat |->
    IF n = 0 THEN 0
    ELSE IF f[n].mark THEN run[n - 1]
    ELSE IF IsFull(f[n].cells) THEN run[n - 1] + 1 ELSE 0]

LEMMA FullRunIs == FullRun = RunOf(file) /\ FullRun' = RunOf(file')
BY DEF FullRun, RunOf, IsFull

LEMMA RunOfStep ==
  ASSUME NEW f, NEW n \in Nat
  PROVE  /\ RunOf(f)[n] \in Nat /\ RunOf(f)[0] = 0
         /\ RunOf(f)[n + 1] = IF f[n + 1].mark THEN RunOf(f)[n]
                              ELSE IF IsFull(f[n + 1].cells) THEN RunOf(f)[n] + 1 ELSE 0
<1> DEFINE Step(m, k) == IF f[k].mark THEN m ELSE IF IsFull(f[k].cells) THEN m + 1 ELSE 0
           Def(h) == [k \in Nat |-> IF k = 0 THEN 0 ELSE Step(h[k - 1], k)]
           F == [p \in Nat \X Nat |-> Step(p[1], p[2])]
<1>1. RunOf(f) = CHOOSE h : h = Def(h)
  BY DEF RunOf
<1>2. \A m, k \in Nat : Step(m, k) \in Nat
  OBVIOUS
<1> HIDE DEF Step
<1>3. F \in [Nat \X Nat -> Nat] /\ \A m, k \in Nat : F[<<m, k>>] = Step(m, k)
  BY <1>2
<1> HIDE DEF F
<1>4. PICK g \in [Nat -> Nat] : RecursOn(g, 0, F)
  BY <1>3, RecursiveFunction
<1>5. \A k \in Nat : g[k] = IF k = 0 THEN 0 ELSE Step(g[k - 1], k)
  <2>1. g[0] = 0 /\ \A k \in Nat : g[k + 1] = F[<<g[k], k + 1>>]
    BY <1>4 DEF RecursOn
  <2>2. ASSUME NEW k \in Nat, k # 0
        PROVE  g[k] = Step(g[k - 1], k)
    <3>1. k - 1 \in Nat /\ (k - 1) + 1 = k
      BY <2>2, SMT
    <3> QED BY <1>3, <2>1, <3>1
  <2> QED BY <2>1, <2>2
<1>6. g = Def(g)
  BY <1>5
<1> HIDE DEF Def
<1>7. RunOf(f) = Def(RunOf(f))
  BY <1>1, <1>6
<1> DEFINE r == RunOf(f)
<1>8. \A k \in Nat : r[k] = IF k = 0 THEN 0 ELSE Step(r[k - 1], k)
  BY <1>7 DEF Def
<1> HIDE DEF r
<1> DEFINE S == {k \in Nat : r[k] \in Nat}
<1>9. 0 \in S
  BY <1>8
<1>10. ASSUME NEW k \in Nat
       PROVE  r[k + 1] = Step(r[k], k + 1)
  <2>1. k + 1 \in Nat /\ k + 1 # 0 /\ (k + 1) - 1 = k
    BY SMT
  <2> QED BY <1>8, <2>1
<1>11. ASSUME NEW k \in Nat, k \in S
       PROVE  k + 1 \in S
  <2>1. k + 1 \in Nat /\ r[k] \in Nat
    BY <1>11
  <2> QED BY <1>2, <1>10, <2>1
<1> HIDE DEF S
<1>12. Nat \subseteq S
  BY <1>9, <1>11, InductionOver
<1> QED BY <1>8, <1>10, <1>12 DEF S, r, Step

\* Each full line in a row gave sixteen bytes at most.
ChunkInv == at = "replaying" => Len(in_chunked_data) <= Cells * FullRun[line]

LEMMA LineRead ==
  ASSUME RecInv, ReadLine
  PROVE  /\ line \in Nat /\ file[line + 1].cells \in Seq(Byte)
         /\ Len(Collected(file[line + 1].cells)) <= Len(in_chunked_data) + Cells
<1> DEFINE cells == file[line + 1].cells
<1>1. line + 1 \in 1..Len(file) /\ line \in Nat
  BY DEF ReadLine, RecInv
<1>2. file[line + 1] \in Lines /\ Len(cells) <= Cells
  BY <1>1 DEF RecInv, LinesFit
<1>3. cells \in Seq(Byte)
  BY <1>2 DEF Lines
<1> HIDE DEF cells
<1>4. Scanned(cells) \in Seq(Byte) /\ Len(Scanned(cells)) <= Len(cells)
  BY <1>3, ScannedType
<1>5. in_chunked_data \in Seq(Byte)
  BY DEF RecInv
<1>6. Len(Collected(cells)) = Len(in_chunked_data) + Len(Scanned(cells))
  BY <1>4, <1>5 DEF Collected
<1>7. Len(Scanned(cells)) \in Nat /\ Len(cells) \in Nat /\ Len(in_chunked_data) \in Nat
  BY <1>3, <1>4, <1>5
<1>8. Len(Collected(cells)) <= Len(in_chunked_data) + Cells
  BY <1>2, <1>4, <1>6, <1>7, SMT DEF Cells
<1> QED BY <1>1, <1>3, <1>8 DEF cells

LEMMA ChunkNext ==
  ASSUME RecInv, RecInv', ChunkInv, [Next]_vars
  PROVE  ChunkInv'
<1> SUFFICES ASSUME at' = "replaying"
             PROVE  Len(in_chunked_data') <= Cells * RunOf(file')[line']
  BY FullRunIs DEF ChunkInv
<1>1. line' \in Nat /\ RunOf(file')[line'] \in Nat
  BY RunOfStep DEF RecInv
<1>2. CASE in_chunked_data' = <<>>
  <2>1. Len(in_chunked_data') = 0
    BY <1>2
  <2> QED BY <1>1, <2>1, SMT DEF Cells
<1>3. CASE at # "replaying"
  <2>1. UNCHANGED in_chunked_data
    BY <1>3, EndOutside
       DEF Next, vars, recVars, CaptureOpen, CaptureRead, Killed, ReplayOpen, SkipMarker,
           ReadLine, ReplayEnd, replayVars
  <2> QED BY <1>2, <1>3, <2>1 DEF RecInv, ReplayIdle
<1>4. CASE at = "replaying"
  <2>1. Len(in_chunked_data) <= Cells * RunOf(file)[line] /\ line \in Nat
    BY <1>4, FullRunIs DEF ChunkInv, RecInv
  <2>2. CASE UNCHANGED <<file, line, in_chunked_data>>
    BY <2>1, <2>2
  <2>3. CASE SkipMarker
    <3>0. file[line + 1].mark
      BY <2>3 DEF SkipMarker
    <3>1. RunOf(file)[line + 1] = RunOf(file)[line]
      BY <2>1, <3>0, RunOfStep, Zenon
    <3> QED BY <2>1, <2>3, <3>1 DEF SkipMarker
  <2>4. CASE ReadLine
    <3> DEFINE cells == file[line + 1].cells
    <3>1. /\ line' = line + 1 /\ file' = file /\ ~file[line + 1].mark
          /\ in_chunked_data' = IF Joins(cells) THEN Collected(cells) ELSE <<>>
      BY <2>4, EndOutside DEF ReadLine
    <3>2. CASE Joins(cells)
      <4>1. RunOf(file)[line + 1] = RunOf(file)[line] + 1 /\ RunOf(file)[line] \in Nat
        BY <2>1, <3>1, <3>2, RunOfStep DEF Joins
      <4>2. Len(in_chunked_data') <= Len(in_chunked_data) + Cells
        BY <2>4, <3>1, <3>2, LineRead
      <4>3. Len(in_chunked_data') \in Nat /\ Len(in_chunked_data) \in Nat
        BY DEF RecInv
      <4> HIDE DEF cells
      <4> QED BY <2>1, <3>1, <4>1, <4>2, <4>3, SMT DEF Cells
    <3> QED BY <1>2, <3>1, <3>2
  <2>5. Killed \/ ReplayEnd => at' = "ended"
    BY EndOutside DEF Killed, ReplayEnd
  <2> QED BY <1>4, <2>2, <2>3, <2>4, <2>5
          DEF Next, vars, recVars, CaptureOpen, CaptureRead, ReplayOpen, Goes, Start, Check,
              Directories, OpenPort, LiveOrNoBlock, TakeOption
<1> QED BY <1>3, <1>4

\* Ninety-six cells are enough for six lines: only a seventh line in a row that
\* is joined to six full ones can run over the end of in_chunked_data.
THEOREM SixLinesDo == Spec => SixLinesFit
<1>1. Init => ChunkInv
  BY DEF Init, StartupInit, ChunkInv
<1>2. ASSUME RecInv, ChunkInv, [Next]_vars, exit_value' = "overrun"
      PROVE  FullRun[line] >= 6 \/ UNCHANGED vars
  <2>1. CASE ReadLine
    <3>1. End("overrun") /\ Overruns(file[line + 1].cells) /\ at = "replaying"
      <4>1. exit_value # "overrun"
        BY <1>2, <2>1 DEF ReadLine, RecInv, IInv, StartupTypeOK
      <4> QED BY <1>2, <2>1, <4>1 DEF ReadLine, startVars
    <3> DEFINE cells == file[line + 1].cells
    <3>2. Len(Collected(cells)) > Room /\ Len(in_chunked_data) <= Cells * RunOf(file)[line]
      BY <1>2, <3>1, FullRunIs DEF Overruns, ChunkInv
    <3>3. /\ line \in Nat /\ cells \in Seq(Byte)
          /\ Len(Collected(cells)) <= Len(in_chunked_data) + Cells
      BY <1>2, <2>1, LineRead
    <3> HIDE DEF cells
    <3>4. RunOf(file)[line] \in Nat
      BY <3>3, RunOfStep
    <3>5. Len(in_chunked_data) \in Nat /\ Len(Collected(cells)) \in Nat
      BY <1>2, <3>3, CollectedType DEF RecInv
    <3>6. RunOf(file)[line] >= 6
      BY <3>2, <3>3, <3>4, <3>5, SMT DEF Cells, Room
    <3> QED BY <3>6, FullRunIs
  <2>2. CASE ~ReadLine
    <3>1. exit_value = "overrun" => at = "ended"
      BY <1>2 DEF RecInv, IInv, StartupTypeOK
    <3> QED BY <1>2, <2>2, <3>1
            DEF Next, vars, recVars, startVars, CaptureOpen, CaptureRead, Killed, ReplayOpen,
                Goes, SkipMarker, ReplayEnd, Start, Check, Directories, OpenPort,
                LiveOrNoBlock, TakeOption, End, Stop
  <2> QED BY <2>1, <2>2
<1>3. RecInv /\ ChunkInv /\ [Next]_vars
        => [exit_value' = "overrun" => FullRun[line] >= 6]_vars
  BY <1>2
<1>4. RecInv /\ RecInv' /\ ChunkInv /\ [Next]_vars => ChunkInv'
  BY ChunkNext
<1> QED BY <1>1, <1>3, <1>4, RecInvHolds, PTL DEF Spec, SixLinesFit

-----------------------------------------------------------------------------
(* The bytes of a file *)

CellsOf(f) == [n \in 1..Len(f) |-> f[n].cells]
Flat(f) == FlattenSeq(CellsOf(f))

LEMMA FlatType ==
  ASSUME NEW f \in Seq(Lines)
  PROVE  CellsOf(f) \in Seq(Seq(Byte)) /\ Flat(f) \in Seq(Byte)
<1>1. \A n \in 1..Len(f) : f[n].cells \in Seq(Byte)
  <2>1. \A n \in 1..Len(f) : f[n] \in Lines
    OBVIOUS
  <2> QED BY <2>1 DEF Lines
<1>2. CellsOf(f) \in Seq(Seq(Byte))
  BY <1>1 DEF CellsOf
<1> QED BY <1>2, FlattenType DEF Flat

LEMMA FlatEmpty == Flat(<<>>) = <<>>
<1>1. CellsOf(<<>>) = <<>>
  BY DEF CellsOf
<1> QED BY <1>1, FlattenEmpty DEF Flat

LEMMA FlatAppend ==
  ASSUME NEW f \in Seq(Lines), NEW l \in Lines
  PROVE  Flat(Append(f, l)) = Flat(f) \o l.cells
<1>1. l.cells \in Seq(Byte)
  BY DEF Lines
<1>2. CellsOf(Append(f, l)) = Append(CellsOf(f), l.cells)
  <2>1. /\ Len(Append(f, l)) = Len(f) + 1 /\ Append(f, l)[Len(f) + 1] = l
        /\ \A n \in 1..Len(f) : Append(f, l)[n] = f[n]
        /\ Len(f) \in Nat
    OBVIOUS
  <2>2. CellsOf(Append(f, l)) = [n \in 1..(Len(f) + 1) |-> Append(f, l)[n].cells]
    BY <2>1 DEF CellsOf
  <2>3. Append(CellsOf(f), l.cells)
          = [n \in 1..(Len(f) + 1) |-> IF n = Len(f) + 1 THEN l.cells ELSE f[n].cells]
    <3>1. CellsOf(f) = [n \in 1..Len(f) |-> f[n].cells] /\ Len(CellsOf(f)) = Len(f)
      BY <2>1 DEF CellsOf
    <3>2. CellsOf(f) \in Seq(Seq(Byte))
      BY FlatType
    <3> QED BY <1>1, <2>1, <3>1, <3>2
  <2>4. ASSUME NEW n \in 1..(Len(f) + 1)
        PROVE  Append(f, l)[n].cells = IF n = Len(f) + 1 THEN l.cells ELSE f[n].cells
    <3>1. n # Len(f) + 1 => n \in 1..Len(f)
      BY <2>1, SMT
    <3> QED BY <2>1, <3>1
  <2> QED BY <2>2, <2>3, <2>4
<1>3. CellsOf(f) \in Seq(Seq(Byte))
  BY FlatType
<1> QED BY <1>1, <1>2, <1>3, FlattenAppend DEF Flat

LEMMA TakeOne ==
  ASSUME NEW T, NEW f \in Seq(T), NEW k \in 1..Len(f)
  PROVE  /\ SubSeq(f, 1, k) = Append(SubSeq(f, 1, k - 1), f[k])
         /\ SubSeq(f, 1, k) \in Seq(T) /\ SubSeq(f, 1, k - 1) \in Seq(T) /\ f[k] \in T
         /\ Len(SubSeq(f, 1, k - 1)) = k - 1 /\ Len(SubSeq(f, 1, k)) = k
OBVIOUS

LEMMA TakeAll ==
  ASSUME NEW T, NEW f \in Seq(T)
  PROVE  /\ SubSeq(f, 1, Len(f)) = f /\ SubSeq(f, 1, 0) = <<>> /\ Len(f) \in Nat
         /\ \A k \in 0..Len(f) : /\ SubSeq(f, 1, k) \in Seq(T) /\ Len(SubSeq(f, 1, k)) = k
                                 /\ \A n \in 1..k : SubSeq(f, 1, k)[n] = f[n] /\ n \in 1..Len(f)
OBVIOUS

LEMMA BytesAssoc ==
  \A a, b, c \in Seq(Byte) : (a \o b) \o c = a \o (b \o c)
BY Concats

LEMMA ConcatIs ==
  ASSUME NEW T, NEW a \in Seq(T), NEW b \in Seq(T)
  PROVE  /\ a \o b \in Seq(T) /\ Len(a \o b) = Len(a) + Len(b)
         /\ \A i \in 1..Len(a) : (a \o b)[i] = a[i]
         /\ \A i \in 1..Len(b) : (a \o b)[Len(a) + i] = b[i]
OBVIOUS

LEMMA LinesConcat ==
  \A a, b \in Seq(Lines) :
    /\ a \o b \in Seq(Lines) /\ Len(a \o b) = Len(a) + Len(b)
    /\ \A i \in 1..Len(a) : (a \o b)[i] = a[i]
    /\ \A i \in 1..Len(b) : (a \o b)[Len(a) + i] = b[i]
BY ConcatIs

LEMMA PrefixParts ==
  ASSUME NEW a \in Seq(Byte), NEW b \in Seq(Byte), NEW h \in Seq(Byte), IsPrefix(a \o b, h)
  PROVE  /\ IsPrefix(a, h)
         /\ \A i \in 1..Len(b) : Len(a) + i \in 1..Len(h) /\ b[i] = h[Len(a) + i]
         /\ \A j \in 0..Len(b) : IsPrefix(a \o SubSeq(b, 1, j), h)
<1>1. /\ Len(a \o b) = Len(a) + Len(b) /\ Len(a) \in Nat /\ Len(b) \in Nat /\ Len(h) \in Nat
      /\ \A i \in 1..Len(a) : (a \o b)[i] = a[i]
      /\ \A i \in 1..Len(b) : (a \o b)[Len(a) + i] = b[i]
  OBVIOUS
<1>2. ASSUME NEW s \in Seq(Byte)
      PROVE  IsPrefix(s, h) <=> Len(s) <= Len(h) /\ \A i \in 1..Len(s) : s[i] = h[i]
  BY DEF IsPrefix
<1>3. a \o b \in Seq(Byte)
  OBVIOUS
<1>4. Len(a) + Len(b) <= Len(h) /\ \A i \in 1..(Len(a) + Len(b)) : (a \o b)[i] = h[i]
  BY <1>1, <1>2, <1>3
<1>5. IsPrefix(a, h)
  <2>1. \A i \in 1..Len(a) : i \in 1..(Len(a) + Len(b))
    BY <1>1, SMT
  <2> QED BY <1>1, <1>2, <1>4, <2>1
<1>6. \A i \in 1..Len(b) : Len(a) + i \in 1..Len(h) /\ b[i] = h[Len(a) + i]
  <2>1. \A i \in 1..Len(b) : Len(a) + i \in 1..(Len(a) + Len(b)) /\ Len(a) + i \in 1..Len(h)
    BY <1>1, <1>4, SMT
  <2> QED BY <1>1, <1>4, <2>1
<1>7. ASSUME NEW j \in 0..Len(b)
      PROVE  IsPrefix(a \o SubSeq(b, 1, j), h)
  <2> DEFINE c == SubSeq(b, 1, j)
  <2>1. c \in Seq(Byte) /\ Len(c) = j /\ \A i \in 1..j : c[i] = b[i] /\ i \in 1..Len(b)
    OBVIOUS
  <2> HIDE DEF c
  <2>2. /\ a \o c \in Seq(Byte) /\ Len(a \o c) = Len(a) + j
        /\ \A i \in 1..Len(a) : (a \o c)[i] = a[i]
        /\ \A i \in 1..j : (a \o c)[Len(a) + i] = c[i]
    <3>1. c \in Seq(Byte)
      BY <2>1
    <3>2. /\ a \o c \in Seq(Byte) /\ Len(a \o c) = Len(a) + Len(c)
          /\ \A i \in 1..Len(a) : (a \o c)[i] = a[i]
          /\ \A i \in 1..Len(c) : (a \o c)[Len(a) + i] = c[i]
      BY <3>1, ConcatIs
    <3> QED BY <2>1, <3>2
  <2>3. Len(a \o c) <= Len(h)
    BY <1>1, <1>4, <2>2, SMT
  <2>4. ASSUME NEW i \in 1..(Len(a) + j)
        PROVE  (a \o c)[i] = h[i]
    <3>1. CASE i <= Len(a)
      <4>1. i \in 1..Len(a)
        BY <1>1, <3>1, SMT
      <4> QED BY <1>2, <1>5, <2>2, <4>1
    <3>2. CASE i > Len(a)
      <4>1. i - Len(a) \in 1..j /\ Len(a) + (i - Len(a)) = i
        BY <1>1, <3>2, SMT
      <4>2. (a \o c)[Len(a) + (i - Len(a))] = c[i - Len(a)]
        BY <2>2, <4>1
      <4>3. c[i - Len(a)] = h[Len(a) + (i - Len(a))]
        BY <1>6, <2>1, <4>1
      <4> QED BY <4>1, <4>2, <4>3
    <3>3. i <= Len(a) \/ i > Len(a)
      BY <1>1, SMT
    <3> QED BY <3>1, <3>2, <3>3
  <2> QED BY <1>2, <2>2, <2>3, <2>4 DEF c
<1> QED BY <1>5, <1>6, <1>7

\* What the first lines of a file hold comes first in what it holds.
LEMMA FlatPrefix ==
  ASSUME NEW f \in Seq(Lines), NEW h \in Seq(Byte), IsPrefix(Flat(f), h), NEW k \in 0..Len(f)
  PROVE  IsPrefix(Flat(SubSeq(f, 1, k)), h)
<1> DEFINE S == {j \in Nat : j <= Len(f) => IsPrefix(Flat(SubSeq(f, 1, Len(f) - j)), h)}
<1>1. 0 \in S
  <2>1. SubSeq(f, 1, Len(f)) = f /\ Len(f) - 0 = Len(f)
    BY TakeAll
  <2> QED BY <2>1
<1>2. ASSUME NEW j \in Nat, j \in S
      PROVE  j + 1 \in S
  <2> SUFFICES ASSUME j + 1 <= Len(f)
               PROVE  IsPrefix(Flat(SubSeq(f, 1, Len(f) - (j + 1))), h)
    OBVIOUS
  <2> DEFINE m == Len(f) - j
  <2>1. m \in 1..Len(f) /\ Len(f) - (j + 1) = m - 1 /\ j <= Len(f)
    BY SMT
  <2>2. IsPrefix(Flat(SubSeq(f, 1, m)), h)
    BY <1>2, <2>1
  <2> HIDE DEF m
  <2>3. /\ SubSeq(f, 1, m) = Append(SubSeq(f, 1, m - 1), f[m])
        /\ SubSeq(f, 1, m - 1) \in Seq(Lines) /\ f[m] \in Lines
    BY <2>1, TakeOne
  <2>4. Flat(SubSeq(f, 1, m)) = Flat(SubSeq(f, 1, m - 1)) \o f[m].cells
    BY <2>3, FlatAppend
  <2>5. Flat(SubSeq(f, 1, m - 1)) \in Seq(Byte) /\ f[m].cells \in Seq(Byte)
    BY <2>3, FlatType DEF Lines
  <2>6. IsPrefix(Flat(SubSeq(f, 1, m - 1)), h)
    <3> DEFINE p == Flat(SubSeq(f, 1, m - 1))
               q == f[m].cells
    <3>1. p \in Seq(Byte) /\ q \in Seq(Byte) /\ IsPrefix(p \o q, h)
      BY <2>2, <2>4, <2>5
    <3> HIDE DEF p, q
    <3>2. IsPrefix(p, h)
      BY <3>1, PrefixParts
    <3> QED BY <3>2 DEF p
  <2> QED BY <2>1, <2>6
<1> HIDE DEF S
<1>3. Nat \subseteq S
  BY <1>1, <1>2, InductionOver
<1>4. Len(f) - k \in Nat /\ Len(f) - k <= Len(f) /\ Len(f) - (Len(f) - k) = k
  BY SMT
<1> QED BY <1>3, <1>4 DEF S

LEMMA FlatTake ==
  ASSUME NEW f \in Seq(Lines), NEW k \in 1..Len(f)
  PROVE  Flat(SubSeq(f, 1, k)) = Flat(SubSeq(f, 1, k - 1)) \o f[k].cells
BY TakeOne, FlatAppend

\* Without 00 bytes each line is scanned to its end.
LEMMA ScannedOfFlat ==
  ASSUME NEW f \in Seq(Lines), NEW h \in Seq(Byte), ~HasZero(h), IsPrefix(Flat(f), h),
         NEW n \in 1..Len(f)
  PROVE  Scanned(f[n].cells) = f[n].cells
<1> DEFINE a == Flat(SubSeq(f, 1, n - 1))
           b == f[n].cells
<1>1. a \in Seq(Byte) /\ b \in Seq(Byte)
  <2>1. SubSeq(f, 1, n - 1) \in Seq(Lines) /\ f[n] \in Lines
    BY TakeOne
  <2> QED BY <2>1, FlatType DEF Lines
<1>2. IsPrefix(a \o b, h)
  <2>1. n \in 0..Len(f)
    OBVIOUS
  <2> QED BY <2>1, FlatPrefix, FlatTake
<1> HIDE DEF a, b
<1>3. \A i \in 1..Len(b) : b[i] # 0
  BY <1>1, <1>2, PrefixParts DEF HasZero
<1>4. Scanned(b) = b
  BY <1>1, <1>3, ScannedWhole
<1> QED BY <1>4 DEF b

\* The lines of a datagram hold its bytes.
LEMMA FlatDump ==
  ASSUME NEW p \in Seq(Lines), NEW d \in Seq(Byte)
  PROVE  Flat(p \o <<Marker>> \o DumpHex(d)) = Flat(p) \o d
<1> DEFINE D == DumpHex(d)
           N == Len(D)
           q == p \o <<Marker>>
           to(k) == IF Cells * k < Len(d) THEN Cells * k ELSE Len(d)
           S == {k \in Nat : k <= N => Flat(q \o SubSeq(D, 1, k)) = Flat(p) \o SubSeq(d, 1, to(k))}
<1>1. D \in Seq(Lines) /\ N \in Nat /\ Len(d) \in Nat
  BY DumpHexLines
<1>2. q \in Seq(Lines) /\ Flat(q) = Flat(p) /\ Flat(p) \in Seq(Byte)
  <2>1. Marker \in Lines /\ Marker.cells = <<>>
    BY DEF Marker, Lines
  <2>2. q = Append(p, Marker) /\ q \in Seq(Lines)
    BY <2>1
  <2>3. Flat(q) = Flat(p) \o <<>> /\ Flat(p) \in Seq(Byte)
    BY <2>1, <2>2, FlatAppend, FlatType
  <2> QED BY <2>2, <2>3, Concats
<1>3. /\ N = (Len(d) + Cells - 1) \div Cells
      /\ \A k \in 1..N : D[k].cells = SubSeq(d, Cells * (k - 1) + 1, to(k))
  <2>1. D = [k \in 1..((Len(d) + Cells - 1) \div Cells) |->
               Line(SubSeq(d, Cells * (k - 1) + 1, to(k)))]
    BY DEF DumpHex
  <2>2. (Len(d) + Cells - 1) \div Cells \in Nat
    BY <1>1, SMT DEF Cells
  <2> HIDE DEF D, to
  <2>3. Len(D) = (Len(d) + Cells - 1) \div Cells
    BY <2>1, <2>2
  <2>4. \A cells : Line(cells).cells = cells
    BY DEF Line
  <2>5. \A k \in 1..N : D[k] = Line(SubSeq(d, Cells * (k - 1) + 1, to(k)))
    BY <2>1, <2>3
  <2> QED BY <2>3, <2>4, <2>5
<1> HIDE DEF D, q, to, N
<1>4. 0 \in S
  <2>1. SubSeq(D, 1, 0) = <<>> /\ SubSeq(d, 1, 0) = <<>> /\ q \o <<>> = q
    BY <1>1, <1>2, TakeAll, Concats
  <2>2. to(0) = 0
    BY <1>1, SMT DEF Cells, to
  <2>3. Flat(p) \o <<>> = Flat(p)
    BY <1>2, Concats
  <2> QED BY <1>2, <2>1, <2>2, <2>3
<1>5. ASSUME NEW k \in Nat, k \in S
      PROVE  k + 1 \in S
  <2> SUFFICES ASSUME k + 1 <= N
               PROVE  Flat(q \o SubSeq(D, 1, k + 1)) = Flat(p) \o SubSeq(d, 1, to(k + 1))
    <3>1. k + 1 \in Nat
      OBVIOUS
    <3> QED BY <3>1
  <2>1. k + 1 \in 1..Len(D) /\ k + 1 \in 1..N /\ k <= N /\ (k + 1) - 1 = k
    BY <1>1, SMT DEF N
  <2>2. /\ to(k) = Cells * k /\ Cells * k + 1 \in 1..Len(d)
        /\ to(k + 1) \in (Cells * k + 1)..Len(d) /\ Cells * k \in Nat
    BY <1>1, <1>3, SMT DEF Cells, to
  <2>3. Flat(q \o SubSeq(D, 1, k)) = Flat(p) \o SubSeq(d, 1, Cells * k)
    BY <1>5, <2>1, <2>2
  <2> HIDE DEF S
  <2>4. /\ SubSeq(D, 1, k + 1) = Append(SubSeq(D, 1, k), D[k + 1])
        /\ SubSeq(D, 1, k) \in Seq(Lines) /\ D[k + 1] \in Lines
    BY <1>1, <2>1, TakeOne
  <2>5. /\ q \o SubSeq(D, 1, k + 1) = Append(q \o SubSeq(D, 1, k), D[k + 1])
        /\ q \o SubSeq(D, 1, k) \in Seq(Lines)
    BY <1>2, <2>4
  <2>6. Flat(q \o SubSeq(D, 1, k + 1)) = (Flat(p) \o SubSeq(d, 1, Cells * k)) \o D[k + 1].cells
    BY <2>3, <2>4, <2>5, FlatAppend
  <2>7. D[k + 1].cells = SubSeq(d, Cells * k + 1, to(k + 1))
    BY <1>3, <2>1
  <2> DEFINE m == Cells * k
             n == to(k + 1)
             a == SubSeq(d, 1, m)
             b == SubSeq(d, m + 1, n)
  <2>8. m \in Nat /\ m + 1 \in 1..Len(d) /\ n \in (m + 1)..Len(d)
    BY <2>2
  <2> HIDE DEF m, n
  <2>9. a \in Seq(Byte) /\ b \in Seq(Byte) /\ a \o b = SubSeq(d, 1, n)
    BY <2>8
  <2> HIDE DEF a, b
  <2>10. (Flat(p) \o a) \o b = Flat(p) \o SubSeq(d, 1, n)
    <3> DEFINE f == Flat(p)
    <3>1. f \in Seq(Byte) /\ a \in Seq(Byte) /\ b \in Seq(Byte)
      BY <1>2, <2>9
    <3> HIDE DEF f
    <3>2. (f \o a) \o b = f \o (a \o b)
      BY <3>1, BytesAssoc
    <3> QED BY <2>9, <3>2 DEF f
  <2> QED BY <2>6, <2>7, <2>10 DEF a, b, m, n
<1> HIDE DEF S
<1>6. Nat \subseteq S
  BY <1>4, <1>5, InductionOver
<1>7. Flat(q \o SubSeq(D, 1, N)) = Flat(p) \o SubSeq(d, 1, to(N))
  <2>1. N \in S /\ N <= N
    BY <1>1, <1>6
  <2> QED BY <2>1 DEF S
<1>8. to(N) = Len(d)
  BY <1>1, <1>3, SMT DEF Cells, to
<1> QED BY <1>1, <1>2, <1>7, <1>8, TakeAll DEF q, D, N

-----------------------------------------------------------------------------
(* From what was heard to what is replayed *)

\* A marker has no cells, and a line that another one follows has them all.
Shaped(f) ==
  \A n \in 1..Len(f) :
    /\ f[n].mark => f[n].cells = <<>>
    /\ n + 1 \in 1..Len(f) /\ ~f[n].mark /\ ~f[n + 1].mark => Len(f[n].cells) = Cells

\* The last line of f was cut in the middle of a cell.
BrokenOff(f, h) ==
  \E g \in Seq(Lines), cells \in Seq(Byte), byte \in Byte :
    f = Append(g, Line(Append(cells, byte))) /\ IsPrefix(Flat(g) \o cells, h)

Holds(f, h) == Shaped(f) /\ (IsPrefix(Flat(f), h) \/ BrokenOff(f, h))

\* What a capture has printed is what it has heard; what it left is the first
\* part of that.
KeptInv ==
  /\ cap_fp => own /\ Shaped(printed) /\ Flat(printed) = heard
  /\ own /\ ~cap_fp => Holds(file, heard)

LEMMA SelfPrefix ==
  ASSUME NEW h \in Seq(Byte)
  PROVE  IsPrefix(h, h) /\ IsPrefix(<<>>, h)
<1>1. Len(<<>>) = 0 /\ Len(h) \in Nat /\ SubSeq(<<>>, 1, 0) = <<>> /\ SubSeq(h, 1, 0) = <<>>
  OBVIOUS
<1> QED BY <1>1 DEF IsPrefix

\* A datagram more, behind its marker
LEMMA ShapedDump ==
  ASSUME NEW p \in Seq(Lines), Shaped(p), NEW d \in Seq(Byte)
  PROVE  Shaped(p \o <<Marker>> \o DumpHex(d))
<1> DEFINE D == DumpHex(d)
           q == Append(p, Marker)
           f == q \o D
<1>1. /\ D \in Seq(Lines) /\ Len(D) \in Nat
      /\ \A k \in 1..Len(D) : ~D[k].mark /\ (k < Len(D) => Len(D[k].cells) = Cells)
  <2>1. /\ D \in Seq(Lines)
        /\ \A k \in 1..Len(D) :
             /\ ~D[k].mark /\ Len(D[k].cells) <= Cells
             /\ k < Len(D) => Len(D[k].cells) = Cells
    BY DumpHexLines
  <2> HIDE DEF D
  <2> QED BY <2>1
<1>2. Marker \in Lines /\ Marker.mark /\ Marker.cells = <<>>
  BY DEF Marker, Lines
<1>3. /\ q \in Seq(Lines) /\ Len(q) = Len(p) + 1 /\ Len(p) \in Nat /\ q[Len(p) + 1] = Marker
      /\ \A n \in 1..Len(p) : q[n] = p[n]
  BY <1>2
<1>4. p \o <<Marker>> \o DumpHex(d) = f
  BY <1>2
<1> HIDE DEF D, q
<1>5. /\ f \in Seq(Lines) /\ Len(f) = Len(q) + Len(D)
      /\ \A n \in 1..Len(q) : f[n] = q[n]
      /\ \A k \in 1..Len(D) : f[Len(q) + k] = D[k]
  BY <1>1, <1>3, LinesConcat
<1> HIDE DEF f
<1>6. ASSUME NEW n \in 1..Len(f)
      PROVE  /\ f[n].mark => f[n].cells = <<>>
             /\ n + 1 \in 1..Len(f) /\ ~f[n].mark /\ ~f[n + 1].mark => Len(f[n].cells) = Cells
  <2>1. CASE n < Len(p)
    <3>1. n \in 1..Len(p) /\ n + 1 \in 1..Len(p) /\ n \in 1..Len(q) /\ n + 1 \in 1..Len(q)
      BY <1>3, <2>1, SMT
    <3>2. f[n] = p[n] /\ f[n + 1] = p[n + 1]
      BY <1>3, <1>5, <3>1
    <3> QED BY <3>1, <3>2 DEF Shaped
  <2>2. CASE n = Len(p)
    <3>1. n \in 1..Len(p) /\ n \in 1..Len(q) /\ n + 1 \in 1..Len(q) /\ n + 1 = Len(p) + 1
      BY <1>3, <2>2, SMT
    <3>2. f[n] = p[n] /\ f[n + 1] = Marker
      BY <1>3, <1>5, <3>1
    <3> QED BY <1>2, <3>1, <3>2 DEF Shaped
  <2>3. CASE n = Len(p) + 1
    <3>1. n \in 1..Len(q)
      BY <1>3, <2>3, SMT
    <3>2. f[n] = Marker
      BY <1>3, <1>5, <2>3, <3>1
    <3> QED BY <1>2, <3>2
  <2>4. CASE n > Len(p) + 1
    <3> DEFINE k == n - Len(q)
    <3>1. /\ k \in 1..Len(D) /\ Len(q) + k = n
          /\ n + 1 \in 1..Len(f) => k < Len(D)
      BY <1>1, <1>3, <1>5, <2>4, SMT
    <3> HIDE DEF k
    <3>2. f[n] = D[k]
      BY <1>5, <3>1
    <3> QED BY <1>1, <3>1, <3>2
  <2>5. n < Len(p) \/ n = Len(p) \/ n = Len(p) + 1 \/ n > Len(p) + 1
    BY <1>3, SMT
  <2> QED BY <2>1, <2>2, <2>3, <2>4, <2>5
<1>7. Shaped(f)
  BY <1>6 DEF Shaped
<1> QED BY <1>4, <1>7

LEMMA ShapedCut ==
  ASSUME NEW p \in Seq(Lines), Shaped(p), NEW k \in 1..Len(p), ~p[k].mark,
         NEW c \in Lines, ~c.mark
  PROVE  Shaped(Append(SubSeq(p, 1, k - 1), c))
<1> DEFINE g == SubSeq(p, 1, k - 1)
           f == Append(g, c)
<1>1. /\ g \in Seq(Lines) /\ Len(g) = k - 1 /\ k - 1 \in Nat
      /\ \A n \in 1..(k - 1) : g[n] = p[n] /\ n \in 1..Len(p) /\ n + 1 \in 1..Len(p)
  <2>1. k - 1 \in 0..Len(p) /\ k - 1 \in Nat
    BY SMT
  <2>2. \A n \in 1..(k - 1) : n + 1 \in 1..Len(p)
    BY SMT
  <2> QED BY <2>1, <2>2, TakeAll
<1> HIDE DEF g
<1>2. Len(f) = k /\ f[k] = c /\ \A n \in 1..(k - 1) : f[n] = p[n]
  BY <1>1
<1> HIDE DEF f
<1>3. ASSUME NEW n \in 1..k
      PROVE  /\ f[n].mark => f[n].cells = <<>>
             /\ n + 1 \in 1..k /\ ~f[n].mark /\ ~f[n + 1].mark => Len(f[n].cells) = Cells
  <2>1. CASE n = k
    <3>1. n + 1 \notin 1..k
      BY <2>1, SMT
    <3> QED BY <1>2, <2>1, <3>1
  <2>2. CASE n # k
    <3>1. n \in 1..(k - 1) /\ (n + 1 \in 1..(k - 1) \/ n + 1 = k)
      BY <2>2, SMT
    <3>2. f[n] = p[n] /\ n \in 1..Len(p) /\ n + 1 \in 1..Len(p)
      BY <1>1, <1>2, <3>1
    <3>3. f[n + 1] = p[n + 1] \/ (n + 1 = k /\ f[n + 1] = c)
      BY <1>2, <3>1
    <3> QED BY <3>2, <3>3 DEF Shaped
  <2> QED BY <2>1, <2>2
<1> QED BY <1>2, <1>3 DEF Shaped, f, g

\* Killed in the middle of a capture: the first part of what it heard is left.
LEMMA FlushedHolds ==
  ASSUME printed \in Seq(Lines), heard \in Seq(Byte), Shaped(printed), Flat(printed) = heard,
         NEW f \in Flushed
  PROVE  Holds(f, heard)
<1>1. ASSUME NEW k \in 0..Len(printed), f = SubSeq(printed, 1, k)
      PROVE  Holds(f, heard)
  <2>1. IsPrefix(Flat(f), heard)
    BY <1>1, SelfPrefix, FlatPrefix
  <2>2. /\ Len(f) = k
        /\ \A n \in 1..k : f[n] = printed[n] /\ n \in 1..Len(printed)
    BY <1>1, TakeAll
  <2>3. Shaped(f)
    BY <2>2 DEF Shaped
  <2> QED BY <2>1, <2>3 DEF Holds
<1>2. ASSUME NEW k \in 1..Len(printed), NEW c \in CutLines(printed[k]),
             f = Append(SubSeq(printed, 1, k - 1), c)
      PROVE  Holds(f, heard)
  <2> DEFINE g == SubSeq(printed, 1, k - 1)
             all == printed[k].cells
  <2>1. g \in Seq(Lines) /\ printed[k] \in Lines /\ k \in 0..Len(printed)
    BY TakeOne
  <2>2. all \in Seq(Byte) /\ Flat(g) \in Seq(Byte)
    BY <2>1, FlatType DEF Lines
  <2>3. c \in Lines /\ ~c.mark /\ ~printed[k].mark
    BY <2>1, CutType, CutIs
  <2>4. Shaped(f)
    BY <1>2, <2>3, ShapedCut
  <2>5. IsPrefix(Flat(g) \o all, heard)
    <3>1. IsPrefix(Flat(SubSeq(printed, 1, k)), heard)
      BY <2>1, SelfPrefix, FlatPrefix
    <3> QED BY <3>1, FlatTake
  <2> DEFINE a == Flat(g)
  <2>6. PICK j \in 1..Len(all) :
          \/ c = Line(SubSeq(all, 1, j))
          \/ c = Line(Append(SubSeq(all, 1, j - 1), all[j] \div 16))
    BY <2>1, CutIs
  <2>7. j \in 0..Len(all) /\ j - 1 \in 0..Len(all)
    <3>1. Len(all) \in Nat
      BY <2>2
    <3> HIDE DEF all
    <3> QED BY <3>1, SMT
  <2>8. a \in Seq(Byte) /\ IsPrefix(a \o all, heard)
    BY <2>2, <2>5
  <2>9. f = Append(g, c)
    BY <1>2
  <2> HIDE DEF a, all, g
  <2>10. IsPrefix(a \o SubSeq(all, 1, j), heard) /\ IsPrefix(a \o SubSeq(all, 1, j - 1), heard)
    BY <2>2, <2>7, <2>8, PrefixParts
  <2>11. CASE c = Line(SubSeq(all, 1, j))
    <3>1. Flat(f) = Flat(g) \o c.cells
      BY <2>1, <2>3, <2>9, FlatAppend
    <3>2. c.cells = SubSeq(all, 1, j)
      BY <2>11 DEF Line
    <3> QED BY <2>4, <2>10, <3>1, <3>2 DEF Holds, a
  <2>12. CASE c = Line(Append(SubSeq(all, 1, j - 1), all[j] \div 16))
    <3>1. SubSeq(all, 1, j - 1) \in Seq(Byte)
      BY <2>2, <2>6, TakeOne
    <3>2. all[j] \div 16 \in Byte
      <4>1. all[j] \in Byte
        BY <2>2, <2>6
      <4>2. \A b \in Byte : b \div 16 \in Byte
        BY SMT DEF Byte
      <4> QED BY <4>1, <4>2
    <3>3. BrokenOff(f, heard)
      BY <2>1, <2>9, <2>10, <2>12, <3>1, <3>2 DEF BrokenOff, a
    <3> QED BY <2>4, <3>3 DEF Holds
  <2> QED BY <2>6, <2>11, <2>12
<1> QED BY <1>1, <1>2, FlushedIs

LEMMA KeptInit == Init => KeptInv
BY DEF Init, KeptInv

LEMMA KeptNext ==
  ASSUME RecInv, RecInv', KeptInv, [Next]_vars
  PROVE  KeptInv'
<1>1. CASE UNCHANGED <<file, own, captureVars>>
  BY <1>1 DEF KeptInv, captureVars
<1>2. CASE CaptureOpen
  <2>1. ~cap_fp
    BY <1>2 DEF CaptureOpen, Goes, RecInv, CaptureIdle
  <2>2. Shaped(<<>>) /\ Flat(<<>>) = <<>>
    BY FlatEmpty DEF Shaped
  <2> QED BY <1>2, <2>1, <2>2 DEF CaptureOpen, KeptInv
<1>3. ASSUME NEW d \in Datagrams, CaptureRead(d)
      PROVE  KeptInv'
  <2>1. d \in Seq(Byte) /\ printed \in Seq(Lines)
    BY RecordingAssumption DEF RecInv
  <2>2. CASE /\ cap_fp
             /\ printed' = printed \o <<Marker>> \o DumpHex(d)
             /\ heard' = heard \o d
             /\ UNCHANGED <<startVars, cap_fp>>
    <3>1. Shaped(printed') /\ Flat(printed') = heard'
      BY <2>1, <2>2, ShapedDump, FlatDump DEF KeptInv
    <3>2. own' = own
      BY <1>3 DEF CaptureRead
    <3> QED BY <2>2, <3>1, <3>2 DEF KeptInv
  <2>3. CASE ~cap_fp /\ End("null") /\ CaptureGone /\ UNCHANGED heard
    BY <1>3, <2>3 DEF CaptureRead, CaptureGone, KeptInv
  <2> QED BY <1>3, <2>2, <2>3 DEF CaptureRead
<1>4. CASE Killed
  <2>1. cap_fp' = FALSE /\ own' = own /\ heard' = heard
    BY <1>4 DEF Killed, CaptureGone
  <2>2. CASE cap_fp
    <3>1. file' \in Flushed
      BY <1>4, <2>2 DEF Killed, RecInv, CaptureIdle
    <3>2. Holds(file', heard)
      BY <2>2, <3>1, FlushedHolds DEF KeptInv, RecInv
    <3> QED BY <2>1, <3>2 DEF KeptInv
  <2>3. CASE ~cap_fp
    BY <1>4, <2>1, <2>3 DEF Killed, KeptInv
  <2> QED BY <2>2, <2>3
<1> QED BY <1>1, <1>2, <1>3, <1>4
        DEF Next, vars, recVars, captureVars, ReplayOpen, SkipMarker, ReadLine, ReplayEnd

LEMMA KeptHolds == Spec => []KeptInv
BY KeptInit, KeptNext, RecInvHolds, PTL DEF Spec

\* What a replay has read of a file whose lines it scans to their ends
LEMMA ReplayedWhole ==
  ASSUME NothingReordered, at = "replaying", line \in Nat,
         NEW g \in Seq(Lines), line <= Len(g),
         \A n \in 1..line : file[n] = g[n],
         \A n \in 1..Len(g) : g[n].mark => g[n].cells = <<>>,
         NEW h \in Seq(Byte), ~HasZero(h), IsPrefix(Flat(g), h)
  PROVE  Replayed = Flat(SubSeq(g, 1, line)) /\ IsPrefix(Replayed, h)
<1>1. line \in 0..Len(g)
  BY SMT
<1>2. /\ SubSeq(g, 1, line) \in Seq(Lines) /\ Len(SubSeq(g, 1, line)) = line
      /\ \A n \in 1..line : SubSeq(g, 1, line)[n] = g[n] /\ n \in 1..Len(g)
  BY <1>1, TakeAll
<1>3. \A n \in 1..line : (IF file[n].mark THEN <<>> ELSE Scanned(file[n].cells)) = g[n].cells
  BY <1>2, ScannedOfFlat
<1>4. ScannedLines = CellsOf(SubSeq(g, 1, line))
  <2>1. ScannedLines = [n \in 1..line |-> g[n].cells]
    BY <1>3 DEF ScannedLines
  <2>2. CellsOf(SubSeq(g, 1, line)) = [n \in 1..line |-> g[n].cells]
    BY <1>2 DEF CellsOf
  <2> QED BY <2>1, <2>2
<1>5. Replayed = Flat(SubSeq(g, 1, line))
  BY <1>4 DEF NothingReordered, Flat
<1> QED BY <1>1, <1>5, FlatPrefix

LEMMA BrokenParts ==
  ASSUME NEW g \in Seq(Lines), NEW l \in Lines, NEW f, f = Append(g, l)
  PROVE  /\ f \in Seq(Lines) /\ Len(f) = Len(g) + 1 /\ f[Len(g) + 1] = l /\ Len(g) \in Nat
         /\ \A n \in 1..Len(g) : f[n] = g[n] /\ n \in 1..Len(f)
OBVIOUS

LEMMA ReplayedBroken ==
  ASSUME RecInv, NothingReordered, at = "replaying", ~HasZero(heard),
         Shaped(file), NEW g \in Seq(Lines), NEW cells \in Seq(Byte), NEW byte \in Byte,
         file = Append(g, Line(Append(cells, byte))),
         IsPrefix(Flat(g) \o cells, heard)
  PROVE  \/ IsPrefix(Replayed, heard)
         \/ line = Len(file) /\ IsPrefix(Front(Replayed), heard)
<1> DEFINE all == Append(cells, byte)
           a == Flat(g)
<1>1. all \in Seq(Byte) /\ Line(all) \in Lines /\ Line(all).cells = all /\ ~Line(all).mark
  BY DEF Line, Lines
<1>2. a \in Seq(Byte) /\ heard \in Seq(Byte) /\ line \in 0..Len(file)
  BY FlatType DEF RecInv
<1> HIDE DEF a
<1>3. /\ IsPrefix(a, heard)
      /\ \A i \in 1..Len(cells) : Len(a) + i \in 1..Len(heard) /\ cells[i] = heard[Len(a) + i]
  BY <1>2, PrefixParts DEF a
<1>4. \A i \in 1..Len(cells) : cells[i] # 0
  BY <1>3 DEF HasZero
<1> HIDE DEF all
<1>5. /\ Len(file) = Len(g) + 1 /\ file[Len(g) + 1] = Line(all) /\ Len(g) \in Nat
      /\ \A n \in 1..Len(g) : file[n] = g[n] /\ n \in 1..Len(file)
  BY <1>1, BrokenParts DEF all
<1>6. \A n \in 1..Len(g) : g[n].mark => g[n].cells = <<>>
  BY <1>5 DEF Shaped
<1>7. CASE line <= Len(g)
  <2>1. line \in Nat /\ \A n \in 1..line : n \in 1..Len(g)
    BY <1>2, <1>5, <1>7, SMT
  <2>2. \A n \in 1..line : file[n] = g[n]
    BY <1>5, <2>1
  <2>3. IsPrefix(Replayed, heard)
    BY <1>2, <1>3, <1>6, <1>7, <2>1, <2>2, ReplayedWhole DEF a
  <2> QED BY <2>3
<1>8. CASE line > Len(g)
  <2>1. line = Len(g) + 1
    BY <1>2, <1>5, <1>8, SMT
  <2> DEFINE Of(n) == IF file[n].mark THEN <<>> ELSE Scanned(file[n].cells)
  <2>2. Of(line) = Scanned(all)
    BY <1>1, <1>5, <2>1
  <2>3. \A n \in 1..Len(g) : Of(n) = g[n].cells
    BY <1>2, <1>3, <1>5, <1>6, ScannedOfFlat DEF a
  <2>4. ScannedLines = [n \in 1..(Len(g) + 1) |-> Of(n)]
    BY <2>1 DEF ScannedLines
  <2> HIDE DEF Of
  <2>5. CellsOf(g) = [n \in 1..Len(g) |-> Of(n)] /\ CellsOf(g) \in Seq(Seq(Byte))
    BY <2>3, FlatType DEF CellsOf
  <2>6. Scanned(all) \in Seq(Byte) /\ Scanned(all) \in {cells, all}
    BY <1>1, <1>4, ScannedType, ScannedCut DEF all
  <2>7. ScannedLines = Append(CellsOf(g), Scanned(all))
    <3>1. Append([n \in 1..Len(g) |-> Of(n)], Of(Len(g) + 1)) = [n \in 1..(Len(g) + 1) |-> Of(n)]
      BY <1>5
    <3> QED BY <2>1, <2>2, <2>4, <2>5, <3>1
  <2>8. Replayed = a \o Scanned(all)
    <3>1. FlattenSeq(ScannedLines) = FlattenSeq(CellsOf(g)) \o Scanned(all)
      BY <2>5, <2>6, <2>7, FlattenAppend
    <3> QED BY <3>1 DEF NothingReordered, a, Flat
  <2>9. CASE Scanned(all) = cells
    BY <2>8, <2>9 DEF a
  <2>10. CASE Scanned(all) = all
    <3>1. a \o all = Append(a \o cells, byte) /\ a \o cells \in Seq(Byte)
      BY <1>2 DEF all
    <3>2. Front(Replayed) = a \o cells
      <4> DEFINE s == a \o cells
      <4>1. s \in Seq(Byte) /\ Replayed = Append(s, byte)
        BY <2>8, <2>10, <3>1
      <4> HIDE DEF s
      <4>2. SubSeq(Append(s, byte), 1, Len(Append(s, byte)) - 1) = s
        BY <4>1
      <4> QED BY <4>1, <4>2 DEF Front, s
    <3> QED BY <1>5, <2>1, <3>2 DEF a
  <2> QED BY <2>6, <2>9, <2>10
<1>9. line <= Len(g) \/ line > Len(g)
  BY <1>2, <1>5, SMT
<1> QED BY <1>7, <1>8, <1>9

\* A recording without 00 bytes is replayed as it was heard, up to where the
\* capture was killed, but for a last byte of which one digit was written.
THEOREM RecordedIsReplayed == Spec => []RoundTrip
<1>1. ASSUME RecInv, KeptInv, NothingReordered
      PROVE  RoundTrip
  <2> SUFFICES ASSUME at = "replaying", own, ~HasZero(heard)
               PROVE  \/ IsPrefix(Replayed, heard)
                      \/ line = Len(file) /\ IsPrefix(Front(Replayed), heard)
    BY DEF RoundTrip
  <2>1. Shaped(file) /\ (IsPrefix(Flat(file), heard) \/ BrokenOff(file, heard))
    BY <1>1 DEF RecInv, CaptureIdle, KeptInv, Holds
  <2>2. CASE IsPrefix(Flat(file), heard)
    <3>1. /\ file \in Seq(Lines) /\ heard \in Seq(Byte) /\ line \in 0..Len(file)
          /\ line \in Nat /\ line <= Len(file)
      BY <1>1 DEF RecInv
    <3>2. \A n \in 1..Len(file) : file[n].mark => file[n].cells = <<>>
      BY <2>1 DEF Shaped
    <3> QED BY <1>1, <2>2, <3>1, <3>2, ReplayedWhole
  <2>3. CASE BrokenOff(file, heard)
    BY <1>1, <2>1, <2>3, ReplayedBroken DEF BrokenOff
  <2> QED BY <2>1, <2>2, <2>3
<1> QED BY <1>1, RecInvHolds, KeptHolds, ReplayKeepsOrder, PTL

\* A line that another line follows gave all its cells to the chunk.
LEMMA LineBeforeLine ==
  ASSUME RecInv, KeptInv, at = "replaying", own, ~HasZero(heard),
         NEW n \in 1..Len(file), n + 1 \in 1..Len(file), ~file[n].mark, ~file[n + 1].mark
  PROVE  IsFull(file[n].cells)
<1>1. Shaped(file) /\ (IsPrefix(Flat(file), heard) \/ BrokenOff(file, heard))
  BY DEF RecInv, CaptureIdle, KeptInv, Holds
<1>2. file \in Seq(Lines) /\ heard \in Seq(Byte) /\ Len(file[n].cells) = Cells
  BY <1>1 DEF RecInv, Shaped
<1>5. SUFFICES Scanned(file[n].cells) = file[n].cells
  BY <1>2 DEF IsFull, Cells, CHUNK_VAL_15
<1>3. CASE IsPrefix(Flat(file), heard)
  BY <1>2, <1>3, ScannedOfFlat
<1>4. CASE BrokenOff(file, heard)
  <2>1. PICK g \in Seq(Lines), cells \in Seq(Byte), byte \in Byte :
          file = Append(g, Line(Append(cells, byte))) /\ IsPrefix(Flat(g) \o cells, heard)
    BY <1>4 DEF BrokenOff
  <2>2. Line(Append(cells, byte)) \in Lines
    BY DEF Line, Lines
  <2>3. Len(file) = Len(g) + 1 /\ Len(g) \in Nat /\ \A k \in 1..Len(g) : file[k] = g[k]
    BY <2>1, <2>2, BrokenParts
  <2>4. n \in 1..Len(g) /\ file[n] = g[n]
    <3>1. n \in 1..Len(g)
      BY <2>3, SMT
    <3> QED BY <2>3, <3>1
  <2>5. IsPrefix(Flat(g), heard)
    <3>1. Flat(g) \in Seq(Byte)
      BY FlatType
    <3> QED BY <1>2, <2>1, <3>1, PrefixParts
  <2>6. Scanned(g[n].cells) = g[n].cells
    BY <1>2, <2>4, <2>5, ScannedOfFlat
  <2> QED BY <2>4, <2>6
<1> QED BY <1>1, <1>3, <1>4

\* The replay of a recording without 00 bytes hands the parser whole datagrams,
\* though it tells by the length of a line alone whether another one belongs
\* to it.
THEOREM DatagramsAreWhole == Spec => WholeDatagrams
<1>1. ASSUME RecInv, KeptInv, [Next]_vars, at = "replaying", Len(parsed') > Len(parsed),
             own, ~HasZero(heard)
      PROVE  line' = Len(file) \/ file[line' + 1].mark
  <2>1. Len(parsed) \in Nat /\ parsed' # parsed /\ parsed' # <<>>
    <3>1. Len(parsed) \in Nat /\ Len(<<>>) = 0
      BY <1>1 DEF RecInv
    <3> QED BY <1>1, <3>1
  <2>2. ReadLine
    BY <1>1, <2>1
       DEF Next, vars, recVars, CaptureOpen, CaptureRead, Killed, ReplayGone, ReplayOpen, Goes,
           SkipMarker, ReplayEnd, replayVars
  <2>3. /\ line < Len(file) /\ ~file[line + 1].mark /\ line' = line + 1
        /\ ~IsFull(file[line + 1].cells)
    BY <2>1, <2>2 DEF ReadLine, ReplayGone, Joins
  <2>4. line + 1 \in 1..Len(file) /\ (line + 1 = Len(file) \/ (line + 1) + 1 \in 1..Len(file))
    BY <1>1, <2>3, SMT DEF RecInv
  <2> QED BY <1>1, <2>3, <2>4, LineBeforeLine
<1>2. RecInv /\ KeptInv /\ [Next]_vars
        => [at = "replaying" /\ Len(parsed') > Len(parsed) /\ own /\ ~HasZero(heard) =>
              line' = Len(file) \/ file[line' + 1].mark]_vars
  BY <1>1
<1> QED BY <1>2, RecInvHolds, KeptHolds, PTL DEF Spec, WholeDatagrams
=============================================================================
