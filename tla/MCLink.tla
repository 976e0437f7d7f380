------------------------------- MODULE MCLink -------------------------------
(***************************************************************************)
(* Values for the configurations of Link.  Texts are abridged to one byte; *)
(* what parser.c compares is there in full.                                *)
(***************************************************************************)
EXTENDS Link

MCBytes == Byte

\* As every recording has it: a display record ends 1D 90 7D
RecordedDisplay == <<DISPLAY, 29, PRINTER, 125>>

MCReport  == << <<1>>, <<2>> \o EndMark >>
MCHistory == << <<3>>, <<4>>, EndMark >>
MCLog     == { <<5>> }

ASSUME MCFramesFit == FramesFit
=============================================================================
