----------------------------- MODULE Descriptor -----------------------------
(***************************************************************************)
(* class Descriptor of hw-1, hw-4 and hw-6 over the descriptor table of    *)
(* the process: numbers are closed, taken again by the next open or dup,   *)
(* moved and copied between objects.  The copy constructor that hw-6       *)
(* declares (Descriptor.hpp:15, "TODO !!!") has no caller and is left out. *)
(***************************************************************************)
EXTENDS Integers

CONSTANTS
  Descriptors,  (* places for objects *)
  Files,        (* open files, sockets and pipes *)
  NoFile,
  MaxFd         (* the largest number the process may have *)

Std == 0 .. 2          \* stdin, stdout and stderr, which no object owns
Numbers == 3 .. MaxFd

ASSUME DescriptorAssumption == MaxFd \in Nat /\ MaxFd >= 2 /\ NoFile \notin Files

VARIABLES
  live,   (* the places with an object *)
  fd,     (* [Descriptors -> fd_], -1 in a place without an object *)
  table   (* [numbers -> the open file behind it] *)

vars == <<live, fd, table>>

Init ==
  /\ live = {}
  /\ fd = [d \in Descriptors |-> -1]
  /\ \E f \in Files : table = [n \in Std \cup Numbers |-> IF n \in Std THEN f ELSE NoFile]

Free(t, n) == n \in Numbers /\ t[n] = NoFile

\* The number that open, socket, accept or dup returns (the lowest that is free,
\* which TLC chooses; nothing depends on it); -1 if none is free.
NewNumber(t) ==
  IF \E n \in Numbers : Free(t, n) THEN CHOOSE n \in Numbers : Free(t, n) ELSE -1

\* The table when number n, or -1, is open on f, and when it is closed.
Opened(t, n, f) == IF n = -1 THEN t ELSE [t EXCEPT ![n] = f]
Closed(t, n) == Opened(t, n, NoFile)

FileOf(n) == IF n = -1 THEN NoFile ELSE table[n]

-----------------------------------------------------------------------------
\* A caller gets a number from the system and makes an object of it.
Construct(d) ==
  /\ d \notin live /\ live' = live \cup {d}
  /\ fd' = [fd EXCEPT ![d] = NewNumber(table)]
  /\ \E f \in Files : table' = Opened(table, NewNumber(table), f)

\* Mutated form: the other object keeps the number.
MoveConstructKeeping(d, o) ==
  /\ d \notin live /\ o \in live /\ live' = live \cup {d}
  /\ fd' = [fd EXCEPT ![d] = fd[o]]
  /\ UNCHANGED table

MoveConstruct(d, o) ==
  /\ d \notin live /\ o \in live /\ live' = live \cup {d}
  /\ fd' = [fd EXCEPT ![d] = fd[o], ![o] = -1]
  /\ UNCHANGED table

Close(d) ==
  /\ d \in live /\ table' = Closed(table, fd[d])
  /\ fd' = [fd EXCEPT ![d] = -1]
  /\ UNCHANGED live

Destroy(d) ==
  /\ d \in live /\ live' = live \ {d}
  /\ table' = Closed(table, fd[d]) /\ fd' = [fd EXCEPT ![d] = -1]

\* Mutated form: without close().
MoveAssignOver(d, o) ==
  /\ d \in live /\ o \in live
  /\ fd' = [fd EXCEPT ![d] = fd[o], ![o] = -1]
  /\ UNCHANGED <<live, table>>

\* close() comes first: an object assigned to itself loses its file.
MoveAssign(d, o) ==
  /\ d \in live /\ o \in live /\ table' = Closed(table, fd[d])
  /\ fd' = [fd EXCEPT ![d] = fd[o], ![o] = -1]
  /\ UNCHANGED live

\* Mutated form: the number is copied.
CopyNumber(d, o) ==
  /\ d \in live /\ o \in live /\ table' = Closed(table, fd[d])
  /\ fd' = [fd EXCEPT ![d] = IF o = d THEN -1 ELSE fd[o]]
  /\ UNCHANGED live

\* dup often gives the number back that close() has just freed.
CopyAssign(d, o) ==
  /\ d \in live /\ o \in live
  /\ LET t == Closed(table, fd[d])
         n == IF o = d \/ fd[o] = -1 THEN -1 ELSE NewNumber(t)
     IN /\ fd' = [fd EXCEPT ![d] = n]
        /\ table' = Opened(t, n, FileOf(fd[o]))
  /\ UNCHANGED live

\* Mutated form: the object takes the number that dup2 returns.
Dup2Adopting(d, n) ==
  /\ d \in live /\ fd[d] # -1 /\ table' = [table EXCEPT ![n] = FileOf(fd[d])]
  /\ fd' = [fd EXCEPT ![d] = n]
  /\ UNCHANGED live

\* Process calls dup2 for stdin and stdout only; -1 is EBADF, which it ignores.
Dup2(d, n) ==
  /\ d \in live /\ fd[d] # -1 /\ table' = [table EXCEPT ![n] = FileOf(fd[d])]
  /\ UNCHANGED <<live, fd>>

Next ==
  \E d \in Descriptors :
    \/ Construct(d) \/ Close(d) \/ Destroy(d)
    \/ \E o \in Descriptors : MoveConstruct(d, o) \/ MoveAssign(d, o) \/ CopyAssign(d, o)
    \/ \E n \in Std : Dup2(d, n)

Spec == Init /\ [][Next]_vars

-----------------------------------------------------------------------------
\* is_valid(): fcntl knows the number.
IsValid(d) == fd[d] # -1 /\ FileOf(fd[d]) # NoFile

\* Types; no object has one of the standard numbers or one that does not exist.
TypeOK ==
  /\ live \subseteq Descriptors
  /\ fd \in [Descriptors -> Numbers \cup {-1}]
  /\ table \in [Std \cup Numbers -> Files \cup {NoFile}]
  /\ \A d \in Descriptors \ live : fd[d] = -1

\* No number has two owners, and none is stale: close() is called once for each
\* number, and never for one that somebody else was given since.
OneOwner ==
  \A d \in live : fd[d] # -1 =>
    IsValid(d) /\ \A o \in live \ {d} : fd[o] # fd[d]

\* Every number that is open is closed by an object in the end.
NothingLeaks ==
  \A n \in Numbers : table[n] # NoFile => \E d \in live : fd[d] = n

\* Each object has its file, as FileHandles says, however the numbers move.
FH == INSTANCE FileHandles WITH
        Handles <- Descriptors, Nothing <- NoFile, file <- [d \in Descriptors |-> FileOf(fd[d])]
ImplementsFileHandles == FH!Spec
=============================================================================
