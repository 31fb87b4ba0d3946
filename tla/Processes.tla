----------------------------- MODULE Processes ------------------------------
(***************************************************************************)
(* The parts of hw-1: Descriptor, the objects of class Process             *)
(* (ChildProcess) and the two programs of the example (PipeProtocol).      *)
(* They share no state: every behaviour is one of one part, whose name is  *)
(* in `part'.  ChildProcess has two, several objects and the calls of one, *)
(* and "children" has no such bound.                                       *)
(***************************************************************************)
EXTENDS Descriptor, Sequences

CONSTANTS
  Kinds,                                             (* the values of `part' *)
  Char, Upper, Lines, SizeLen, PipeRoom, MaxLines,   (* of PipeProtocol *)
  NObjects, FdLimit, Capacity, MaxLen                (* of ChildProcess *)

VARIABLES part,
  ends, obj, child, input, held, output, call,
  pipe, pc, frame, size, body, moved, asked, printed, sigterm

PP == INSTANCE PipeProtocol WITH Capacity <- PipeRoom
CP == INSTANCE ChildProcess

ASSUME PipesAssumption == PP!CharAssumption /\ PP!SizeAssumption
ASSUME ChildrenAssumption == CP!ChildProcessAssumption

programs == <<pipe, pc, frame, size, body, moved, asked, printed, sigterm>>
children == <<ends, obj, child, input, held, output, call>>
all == <<part, vars, programs, children>>

\* A part that is not the one of a behaviour stays at one of its beginnings.
Start ==
  /\ part \in Kinds
  /\ Init /\ PP!Init /\ CP!Init
  /\ part # "descriptors" => table[0] = CHOOSE f \in Files : TRUE

Quiet == call' = CP!NoCall
OneObject == \A i \in 2 .. NObjects : obj'[i] \in {"none", "lost"}

DescriptorStep ==
  /\ part = "descriptors" /\ Next
  /\ UNCHANGED <<part, programs, children>>

ChildrenStep(action) ==
  /\ part \in {"objects", "calls", "children"} /\ action
  /\ part = "objects" => Quiet
  /\ part = "calls" => OneObject
  /\ UNCHANGED <<part, vars, programs>>

ProgramStep(action) ==
  /\ part = "programs" /\ action
  /\ UNCHANGED <<part, vars, children>>

Step ==
  \/ DescriptorStep
  \/ ChildrenStep(CP!Next)
  \/ ProgramStep(PP!Next)

Parts ==
  /\ Start /\ [][Step]_all
  /\ WF_all(ChildrenStep(CP!Library))
  /\ \A i \in 1 .. NObjects : WF_all(ChildrenStep(CP!Child(i)))
  /\ \A p \in {"parent", "child"} : WF_all(ProgramStep(PP!Program(p)))

-----------------------------------------------------------------------------
\* The types of the three parts; no table, pipe or count exceeds what there is.
TypesOK == TypeOK /\ PP!TypeOK /\ CP!TypeOK

\* Descriptor.cpp and Process.cpp: no number has two owners or a stale one, and
\* every open number is closed by an object in the end, also when a constructor
\* throws between its two pipes.
DescriptorsAreOwned == OneOwner /\ NothingLeaks /\ CP!NothingLeaks

\* parent.cpp, child.cpp and Protocol.cpp: however the bytes are cut the answers
\* are the lines in upper case, both ends agree where a message begins, and the
\* end of the file that a parent reads is the end of its child.
MessagesAreExact ==
  /\ PP!AnswersInOrder /\ PP!QuietBetweenLines
  /\ CP!EndOfFileIsTheEnd

\* Nobody waits for ever: lines are answered, both programs end, children end
\* once nobody can write to them, and ~Process, writeExact and readExact return.
NobodyWaitsForEver ==
  /\ PP!LinesAreAnswered /\ PP!BothEnd
  /\ CP!ChildrenEnd /\ CP!DestructorReturns /\ CP!CallsReturn
=============================================================================
