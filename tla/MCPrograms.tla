----------------------------- MODULE MCPrograms -----------------------------
(***************************************************************************)
(* Instances of Programs for TLC: two threads with three loggers, two      *)
(* clients, and files of at most six records.                              *)
(***************************************************************************)
EXTENDS Programs

\* The numbers a user types.
FewNumbers == -1 .. 3

\* The logger of a server and the first global one write to standard output, a
\* second global one to a file.
TwoStreams == [l \in Loggers |-> IF l = "file" THEN "log" ELSE "cout"]

\* The threads log twice together, the second client connects once.
TwoCalls == {f \in [Threads -> 0 .. 2] : f["t1"] + f["t2"] <= 2}
OneForSecond == {f \in [Clients -> 0 .. 2] : f["c2"] <= 1}

\* A port, one that 70000 is cut to, the largest one, and numbers that are none.
TypedPorts == {0, 4464, 65535, 65536, 70000}
NoPort == -1
=============================================================================
