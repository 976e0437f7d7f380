------------------------------ MODULE MCEngine ------------------------------
(***************************************************************************)
(* Engine under a line that carries tokens of the 1022's protocol in any   *)
(* order, broken off anywhere at a byte's boundary by the loop.  Tokens    *)
(* keep the checked instances small: every byte sequence over them is a    *)
(* behaviour of Engine, not the other way round.                           *)
(***************************************************************************)
EXTENDS Engine

CONSTANT Tokens   \* the byte sequences the line is put together from

VARIABLE feed     \* what is still to come of the current token

mcVars == <<engineVars, feed>>

MCInit == Init /\ feed = <<>>

MCReceive(token) ==
  /\ Receive(Head(token))
  /\ feed' = Tail(token)

MCNext ==
  \/ /\ \/ Usr1 \/ Usr2
        \/ \E m \in Messages \cup {NoRequest} : LoopHead(m)
        \/ Exit \/ Die \/ Restart
     /\ UNCHANGED feed
  \/ feed = <<>> /\ \E token \in Tokens : MCReceive(token)
  \/ feed # <<>> /\ MCReceive(feed)

MCSpec == MCInit /\ [][MCNext]_mcVars

-----------------------------------------------------------------------------
(* Values for the .cfg files *)

MCBytes == Byte

\* What an active engine tells apart outside of log mode
DumpTokens == {<<DISPLAY>>, <<DELIM>>, <<DELIM, PRINTER>>, EndMark}

\* ... in log mode, with ";wait" and the panel's directives
LogTokens == {<<DISPLAY>>, <<DELIM>>, <<DELIM, PRINTER>>, <<SEMI, CR>>,
              <<AT>>, <<LCh, CR>>}

\* What a listening engine tells apart: both sides of the line.  A letter also
\* stands for a status byte, R and T for one with the log bit.
PassiveTokens == {<<DISPLAY>>, <<DELIM>>, <<DELIM, PRINTER>>, <<RCh, CR>>,
                  <<TCh, CR>>, <<ICh, CR>>, <<LCh, CR>>, EndMark}

\* What lets an active engine enter and leave log mode in few steps
ControlTokens == {<<DISPLAY>>, <<DELIM, PRINTER>>}
=============================================================================
