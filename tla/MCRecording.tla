---------------------------- MODULE MCRecording -----------------------------
(***************************************************************************)
(* Values for Recording.cfg.                                               *)
(***************************************************************************)
EXTENDS Recording

Bytes(n) == [k \in 1..n |-> 32 + k]

\* One below, at and above the sizes at which a line is joined with the next;
\* 00 44 98 as in Captures/A7-1022-logmode-on-req-history-logmode-off.txt
MCDatagrams == {Bytes(1), Bytes(14), Bytes(15), Bytes(16), Bytes(18), <<0, 68, 152>>}

\* No file yet, and recordings with six full lines in a row, with seven, and
\* with the empty line that parse-header-hist-req-5-23-24.txt has
Long(n) == <<Marker>> \o [k \in 1..n |-> Line(Bytes(16))]

MCFiles == {<<>>, Long(6), Long(6) \o <<Line(Bytes(15))>>,
            Long(2) \o <<Line(<<>>), Marker, Line(Bytes(3))>>}
=============================================================================
