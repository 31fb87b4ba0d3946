------------------------------ MODULE KvIndex ------------------------------
(***************************************************************************)
(* hw-6/hw-7: the generator of a key-value file, and IndexMaker::make with *)
(* the constructors of RandomWriter and ForwardReader.  FileGenerator      *)
(* writes records with the keys 0, 1, ...; then the index of the file is   *)
(* made.  ForwardReader's constructor throws for every file, so that what  *)
(* comes behind it is never run and left out: get, put and removeIndex.    *)
(* Random payloads and the log are left out as well.                       *)
(***************************************************************************)
EXTENDS Integers, Sequences, FiniteSets, Functions

CONSTANTS
  MaxGigabytes, PerGigabyte,  (* MAX_GIGABYTES, and the records in one *)
  MaxElements                 (* MAX_ELEMENTS_IN_VECTOR *)

\* What the constants have to be; the module that instantiates this one asserts it.
KvIndexAssumption ==
  MaxGigabytes \in Nat /\ PerGigabyte \in Nat /\ MaxElements \in Nat \ {0}

VARIABLES
  pc,          (* where the program is that runs *)
  gigabytes,   (* argument of the generator *)
  vector,      (* keys of the vector still to be written *)
  start,       (* `start' of generate_vector *)
  written,     (* `written' of run *)
  file,        (* keys of the whole records of the file *)
  broken,      (* the ofstream has failed, which nobody looks at *)
  path,        (* the constructor's argument filepath: given, or moved from *)
  fds          (* descriptors that make has: of the index and the data file *)

generator == <<gigabytes, vector, start, written>>
data == <<file, broken>>
make == <<path, fds>>
vars == <<pc, generator, data, make>>

Init ==
  /\ pc = "main" /\ gigabytes \in 0 .. MaxGigabytes + 1
  /\ vector = {} /\ start = 0 /\ written = 0
  /\ file = <<>> /\ broken = FALSE
  /\ path = "given" /\ fds = {}

-----------------------------------------------------------------------------
\* FileGenerator

Elements == gigabytes * PerGigabyte
Lesser(a, b) == IF a < b THEN a ELSE b

\* main: 0 is refused, and so is a file that cannot be opened.
Main ==
  /\ pc = "main"
  /\ pc' \in (IF gigabytes = 0 THEN {"refused"} ELSE {"run", "refused"})
  /\ UNCHANGED <<generator, data, make>>

\* Mutated form: every vector starts with the key 0.
GenerateFromZero ==
  /\ pc = "run" /\ vector = {} /\ written # Elements
  /\ LET n == Lesser(Elements - written, MaxElements)
     IN vector' = 0 .. n - 1 /\ start' = n
  /\ UNCHANGED <<pc, gigabytes, written, data, make>>

GenerateVector ==
  /\ pc = "run" /\ vector = {} /\ written # Elements
  /\ LET n == Lesser(Elements - written, MaxElements)
     IN vector' = start .. start + n - 1 /\ start' = start + n
  /\ UNCHANGED <<pc, gigabytes, written, data, make>>

\* The vector was shuffled: any key of it is next.  A stream that fails loses
\* what it had buffered, takes nothing from then on, and does not throw.
WritePair ==
  /\ pc = "run"
  /\ \E key \in vector :
       /\ vector' = vector \ {key} /\ written' = written + 1
       /\ \/ ~broken /\ file' = Append(file, key) /\ UNCHANGED broken
          \/ /\ ~broken /\ broken' = TRUE
             /\ \E k \in 0 .. Len(file) : file' = SubSeq(file, 1, k)
          \/ broken /\ UNCHANGED data
  /\ UNCHANGED <<pc, gigabytes, start, make>>

Generated ==
  /\ pc = "run" /\ vector = {} /\ written = Elements /\ pc' = "written"
  /\ UNCHANGED <<generator, data, make>>

-----------------------------------------------------------------------------
\* IndexMaker::make

\* RandomWriter opens the index, which has to be there: else runtime_error.
OpenIndex ==
  /\ pc = "written"
  /\ \/ pc' = "reader" /\ fds' = {"index"}
     \/ pc' = "thrown" /\ UNCHANGED fds
  /\ UNCHANGED <<generator, data, path>>

\* The members of ForwardReader in the order of their declaration: fd_, which is
\* looked at later when it is -1; filepath_, which takes the argument.
InitFd ==
  /\ pc = "reader" /\ path = "given"
  /\ fds' \in {fds, fds \cup {"data"}}
  /\ path' = "moved"
  /\ UNCHANGED <<pc, generator, data>>

\* Mutated form: the descriptors stay open.
InitFilesizeBare ==
  /\ pc = "reader" /\ path = "moved"
  /\ pc' = "thrown"
  /\ UNCHANGED <<generator, data, make>>

\* filesize_: file_size of the path that is left, which is empty, throws
\* filesystem_error; what was built is destroyed, reader before writer, and the
\* exception leaves make, whose try block comes later.
InitFilesize ==
  /\ pc = "reader" /\ path = "moved"
  /\ pc' = "thrown" /\ fds' = {}
  /\ UNCHANGED <<generator, data, path>>

-----------------------------------------------------------------------------
Generator == Main \/ GenerateVector \/ WritePair \/ Generated
Maker == OpenIndex \/ InitFd \/ InitFilesize
Next == Generator \/ Maker

Spec == Init /\ [][Next]_vars

-----------------------------------------------------------------------------
\* Types; nothing is opened before the file was written.
TypeOK ==
  /\ pc \in {"main", "refused", "run", "written", "reader", "thrown"}
  /\ vector \subseteq Nat /\ start \in Nat /\ written \in 0 .. Elements
  /\ file \in Seq(Nat) /\ broken \in BOOLEAN
  /\ path \in {"given", "moved"} /\ fds \subseteq {"index", "data"}
  /\ fds # {} => pc = "reader"

\* In a file that was written without an error every key below its number of
\* records is there once, whatever the vectors and their shuffles.
EachKeyOnce ==
  pc \in {"written", "reader", "thrown"} /\ ~broken =>
    file \in Bijection(1 .. Elements, 0 .. Elements - 1)

\* make that fails, wherever it does, leaves no file open and the data as they were.
NothingStaysOpen == pc' = "thrown" => fds' = {} /\ UNCHANGED data
=============================================================================
