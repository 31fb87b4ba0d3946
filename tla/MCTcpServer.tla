---------------------------- MODULE MCTcpServer ----------------------------
(***************************************************************************)
(* TcpServer for TLC: what the clients of the runs send.                   *)
(***************************************************************************)
EXTENDS TcpServer

CONSTANTS c1, c2, c3

Units == {"ab", "cd", "st", "op"}
StopUnits == <<"st", "op">>

\* The last two units of c1's stream are "stop", but a packet may end between
\* them; "stop" is in the middle of c2's stream.
LongStreams ==
  [c \in Clients |-> IF c = c1 THEN <<"ab", "cd", "st", "op">>
                                ELSE <<"cd", "st", "op", "ab">>]

\* Short lines, of which only c1's ends with "stop".
ShortStreams == [c \in Clients |-> IF c = c1 THEN <<"st", "op">> ELSE <<"ab">>]
=============================================================================
