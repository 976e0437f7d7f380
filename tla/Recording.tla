----------------------------- MODULE Recording ------------------------------
(***************************************************************************)
(* The capture block of main with DumpHex, the unit test that replays such *)
(* a file, and the file between the two.  A line of the file is a marker   *)
(* or the cells DumpHex wrote, sixteen at most; the text columns are left  *)
(* out, as sscanf stops at the bar in front of them.                       *)
(*                                                                         *)
(* A capture ends by a signal only.  _exit drops what stdio has not yet    *)
(* written, so the file may break off anywhere, inside a cell included.    *)
(***************************************************************************)
EXTENDS Startup, SequencesExt

CONSTANTS
  Datagrams,  \* what one read() of the capture may return
  Files,      \* what the file may hold before the first life
  Reads_Max   \* reads in a capture

Byte == 0..255
Cells == 16             \* of a line: "%02X " sixteen times, "%2hhx" sixteen times
CHUNK_VAL_15 == 15
Room == 96              \* in_chunked_data

Marker == [mark |-> TRUE, cells |-> <<>>]
Line(cells) == [mark |-> FALSE, cells |-> cells]
Lines == [mark : BOOLEAN, cells : Seq(Byte)]

ASSUME RecordingAssumption ==
  /\ Reads_Max \in Nat
  /\ \A d \in Datagrams : d \in Seq(Byte) /\ d # <<>>
  /\ \A f \in Files : f \in Seq(Lines) /\ \A n \in 1..Len(f) : Len(f[n].cells) <= Cells

VARIABLES
  file,        \* what the file holds
  cap_fp,      \* the capture has its stream
  printed,     \* what the capture has given to fprintf
  heard,       \* the bytes that the latest capture with a stream has read
  own,         \* the file is that of a capture
  line,        \* lines that getline has returned
  in_is_chunked,
  in_chunked_data,  \* up to in_chunked_p
  parsed       \* what parse_header was called with

recVars == <<file, cap_fp, printed, heard, own, line, in_is_chunked,
             in_chunked_data, parsed>>
vars == <<startVars, recVars>>

captureVars == <<cap_fp, printed, heard>>
replayVars == <<line, in_is_chunked, in_chunked_data, parsed>>

Init ==
  /\ StartupInit
  /\ file \in Files /\ own = FALSE
  /\ cap_fp = FALSE /\ printed = <<>> /\ heard = <<>>
  /\ line = 0 /\ in_is_chunked = FALSE /\ in_chunked_data = <<>> /\ parsed = <<>>

\* main goes on, in another block
Goes(from, to) ==
  /\ at = from /\ at' = to
  /\ UNCHANGED <<options, announced, exit_value, rpi, dirs, lives>>

\* The memory of the process is gone.
CaptureGone == cap_fp' = FALSE /\ printed' = <<>>
ReplayGone ==
  line' = 0 /\ in_is_chunked' = FALSE /\ in_chunked_data' = <<>> /\ parsed' = <<>>

-----------------------------------------------------------------------------
(* Capture *)

\* Mutant: the bytes behind the last whole line are dropped
DumpHex_Whole(data) ==
  [k \in 1..(Len(data) \div Cells) |->
     Line(SubSeq(data, Cells * (k - 1) + 1, Cells * k))]

\* A line for every sixteen bytes, the rest in a shorter one
DumpHex(data) ==
  [k \in 1..((Len(data) + Cells - 1) \div Cells) |->
     Line(SubSeq(data, Cells * (k - 1) + 1,
                 IF Cells * k < Len(data) THEN Cells * k ELSE Len(data)))]

\* fopen "w" empties the file; a failure is not noticed.
CaptureOpen ==
  /\ Goes("capture", "capturing")
  /\ printed' = <<>>
  /\ \/ cap_fp' = TRUE /\ file' = <<>> /\ own' = TRUE /\ heard' = <<>>
     \/ cap_fp' = FALSE /\ UNCHANGED <<file, own, heard>>
  /\ UNCHANGED replayVars

\* read() returns, a marker and the bytes are printed
CaptureRead(d) ==
  /\ at = "capturing" /\ Len(SelectSeq(printed, LAMBDA l : l.mark)) < Reads_Max
  /\ \/ /\ cap_fp
        /\ printed' = printed \o <<Marker>> \o DumpHex(d)
        /\ heard' = heard \o d
        /\ UNCHANGED <<startVars, cap_fp>>
     \/ ~cap_fp /\ End("null") /\ CaptureGone /\ UNCHANGED heard
  /\ UNCHANGED <<file, own, replayVars>>

\* What may be left of a line that was cut: some cells, and of the next one
\* its first digit, which sscanf reads as a number all the same.
CutLines(l) ==
  IF l.mark THEN {}
  ELSE {Line(SubSeq(l.cells, 1, j)) : j \in 1..Len(l.cells)} \cup
       {Line(Append(SubSeq(l.cells, 1, j - 1), l.cells[j] \div 16)) : j \in 1..Len(l.cells)}

\* What may be on the disk: whole lines, and a cut one
Flushed ==
  {SubSeq(printed, 1, k) : k \in 0..Len(printed)} \cup
  UNION {{Append(SubSeq(printed, 1, k - 1), l) : l \in CutLines(printed[k])} :
           k \in 1..Len(printed)}

\* SIGINT (_exit), SIGKILL
Killed ==
  /\ at # "ended" /\ End("killed")
  /\ IF at = "capturing" /\ cap_fp THEN file' \in Flushed ELSE UNCHANGED file
  /\ CaptureGone /\ ReplayGone
  /\ UNCHANGED <<own, heard>>

-----------------------------------------------------------------------------
(* Unit test *)

ReplayOpen ==
  /\ \/ Goes("unit test", "replaying")
     \/ at = "unit test" /\ End("failure")
  /\ UNCHANGED recVars

\* in_data starts as zeros, and the first zero ends the line: a 00 on the line
\* is taken for the end of what was scanned.
Scanned(cells) ==
  SubSeq(cells, 1, (CHOOSE n \in 0..Len(cells) :
                      /\ \A k \in 1..n : cells[k] # 0
                      /\ n = Len(cells) \/ cells[n + 1] = 0))

IsFull(cells) == Len(Scanned(cells)) >= CHUNK_VAL_15

\* Mutant: a full line starts its chunk anew
Collected_Anew(cells) ==
  IF IsFull(cells) THEN Scanned(cells) ELSE in_chunked_data \o Scanned(cells)

Collected(cells) == in_chunked_data \o Scanned(cells)

\* Mutant: i > CHUNK_VAL_15, which i never is
Joins_Never(cells) == FALSE

\* CHUNK_VAL_15: a line that holds less is the last of its datagram
Joins(cells) == IsFull(cells)

\* Mutant: one line less fits
Overruns_Early(cells) == Len(Collected(cells)) > Room - Cells

\* Mutant: the chunk grows on
Overruns_Not(cells) == FALSE

\* The code stores without comparing in_chunked_p to the end of the array.
Overruns(cells) == Len(Collected(cells)) > Room

SkipMarker ==
  /\ at = "replaying" /\ line < Len(file) /\ file[line + 1].mark
  /\ line' = line + 1
  /\ UNCHANGED <<startVars, file, own, captureVars, in_is_chunked, in_chunked_data, parsed>>

ReadLine ==
  /\ at = "replaying" /\ line < Len(file) /\ ~file[line + 1].mark
  /\ LET cells == file[line + 1].cells IN
       \/ Overruns(cells) /\ End("overrun") /\ ReplayGone
       \/ /\ ~Overruns(cells) /\ UNCHANGED startVars
          /\ line' = line + 1
          /\ in_is_chunked' = Joins(cells)
          /\ IF Joins(cells)
             THEN in_chunked_data' = Collected(cells) /\ UNCHANGED parsed
             ELSE in_chunked_data' = <<>> /\ parsed' = Append(parsed, Collected(cells))
  /\ UNCHANGED <<file, own, captureVars>>

\* What is still in the chunk is not parsed any more.
ReplayEnd ==
  /\ at = "replaying" /\ line = Len(file)
  /\ End("success") /\ ReplayGone
  /\ UNCHANGED <<file, own, captureVars>>

-----------------------------------------------------------------------------
Next ==
  \/ /\ \/ Start \/ Check \/ Directories \/ OpenPort \/ LiveOrNoBlock
        \/ \E letter \in Letters : TakeOption(letter)
     /\ UNCHANGED recVars
  \/ CaptureOpen
  \/ \E d \in Datagrams : CaptureRead(d)
  \/ Killed
  \/ ReplayOpen \/ SkipMarker \/ ReadLine \/ ReplayEnd

Spec == Init /\ [][Next]_vars

-----------------------------------------------------------------------------
(* Properties *)

TypeOK ==
  /\ StartupTypeOK
  /\ file \in Seq(Lines) /\ printed \in Seq(Lines)
  /\ cap_fp \in BOOLEAN /\ own \in BOOLEAN
  /\ heard \in Seq(Byte)
  /\ line \in 0..Len(file)
  /\ in_is_chunked \in BOOLEAN
  /\ in_chunked_data \in Seq(Byte) /\ Len(in_chunked_data) <= Room
  /\ in_is_chunked <=> in_chunked_data # <<>>
  /\ parsed \in Seq(Seq(Byte))

\* What the check announces and the block that this is
ModeOf(block) ==
  CASE block \in {"unit test", "replaying"} -> "unit test"
    [] block \in {"capture", "capturing"} -> "capture"
    [] block = "live" -> "interactive"
    [] block = "no block" -> "none"

\* A block that runs is the one that was announced, with its directories in
\* place.  Capture and unit test, which open the port of the live line too,
\* never run with a parser that would answer on it.
BlockIsFit ==
  /\ at \in BlocksAt => announced = ModeOf(at) /\ Needed \subseteq dirs
  /\ at \in BlocksAt \ {"live"} => "ACTIVE_MODE" \notin options

\* Not kept: that what is announced is run.  The help offers "Passively parse
\* what's on the wire to stdout: printem -d -p" (main.c:74-75), main announces
\* "Running Passively with Dump to Stdout" (main.c:237), and no block is run.
AnnouncedRuns == at \in BlocksAt \cup {"no block"} => announced = ModeOf(at)

\* What the parser got, with what waits in the chunk
Replayed == FlattenSeq(parsed) \o in_chunked_data

ScannedLines == [n \in 1..line |-> IF file[n].mark THEN <<>> ELSE Scanned(file[n].cells)]

\* The replay hands over the bytes of the lines it has read, each once and in
\* their order, whatever lines were joined.
NothingReordered == at = "replaying" => Replayed = FlattenSeq(ScannedLines)

HasZero(s) == \E n \in 1..Len(s) : s[n] = 0

\* A capture without 00 bytes is replayed as it was heard, up to where the file
\* breaks off, but for a last byte of which only one digit is left.
RoundTrip ==
  at = "replaying" /\ own /\ ~HasZero(heard) =>
    \/ IsPrefix(Replayed, heard)
    \/ line = Len(file) /\ IsPrefix(Front(Replayed), heard)

\* A call of the parser stands for whole datagrams, as read() returned them: a
\* capture without 00 bytes is never broken inside one.
WholeDatagrams ==
  [][ at = "replaying" /\ Len(parsed') > Len(parsed) /\ own /\ ~HasZero(heard) =>
        line' = Len(file) \/ file[line' + 1].mark ]_vars

\* Full lines in a row, markers aside
FullRun[n \in Nat] ==
  IF n = 0 THEN 0
  ELSE IF file[n].mark THEN FullRun[n - 1]
  ELSE IF IsFull(file[n].cells) THEN FullRun[n - 1] + 1 ELSE 0

\* "Assume 6 lines max" (main.c:372): the chunk is overrun by more than six
\* lines only, all but the last of them full.
SixLinesFit == [][ exit_value' = "overrun" => FullRun[line] >= 6 ]_vars
=============================================================================
