--------------------------- MODULE MCEpollManager ---------------------------
(***************************************************************************)
(* EpollManager for TLC: what the clients of the runs ask.                 *)
(***************************************************************************)
EXTENDS EpollManager, TLC

CONSTANTS c1, c2, c3

OneShot == [segments |-> 1, valid |-> TRUE, keepAlive |-> FALSE, slow |-> FALSE,
            aborts |-> FALSE]

\* Complete requests in one segment; the request of c3 is malformed.
OneShotTraffic ==
  [c \in Clients |-> [OneShot EXCEPT !.valid = c # c3]]

\* c1 sends its request in two segments or closes before, the others ask for a
\* keep-alive connection and read slowly.
MixedTraffic ==
  [c \in Clients |-> [segments |-> IF c = c1 THEN 2 ELSE 1, valid |-> TRUE,
                      keepAlive |-> c # c1, slow |-> c # c1, aborts |-> c = c1]]

SlowOnes == Permutations(Clients \ {c1})
=============================================================================
