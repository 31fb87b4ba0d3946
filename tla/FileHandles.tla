----------------------------- MODULE FileHandles ----------------------------
(***************************************************************************)
(* What users of class Descriptor rely on: each object refers to an open   *)
(* file or to nothing, and what is done with other objects or their        *)
(* numbers does not change that.                                           *)
(***************************************************************************)
CONSTANTS Handles, Files, Nothing
VARIABLE file  (* [Handles -> the open file it refers to] *)

Init == file = [h \in Handles |-> Nothing]

\* An object is given a new file, or is left without one.
Get(h) == file[h] = Nothing /\ \E f \in Files : file' = [file EXCEPT ![h] = f]
Drop(h) == file' = [file EXCEPT ![h] = Nothing]
\* Moving leaves one of the two with the file, copying both.
Transfer(h, o) == h # o /\ file' = [file EXCEPT ![h] = file[o], ![o] = Nothing]
Share(h, o) == h # o /\ file' = [file EXCEPT ![h] = file[o]]

Next == \E h \in Handles : Get(h) \/ Drop(h) \/ \E o \in Handles : Transfer(h, o) \/ Share(h, o)

Spec == Init /\ [][Next]_file
=============================================================================
