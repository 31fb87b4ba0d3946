---------------------------- MODULE MCProcesses ----------------------------
(***************************************************************************)
(* Processes for TLC: three objects of Descriptor over two files, up to    *)
(* three of Process, and lines shorter and longer than a pipe.             *)
(***************************************************************************)
EXTENDS Processes

CONSTANTS d1, d2, d3, f1, f2, a, b, A, B

Letters == {a, b, A, B}
ToUpper == [c \in Letters |-> CASE c = a -> A [] c = b -> B [] OTHER -> c]
ShortAndLong == {<<>>, <<b>>, <<a, B, a>>}
=============================================================================
