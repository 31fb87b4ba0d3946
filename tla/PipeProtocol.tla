---------------------------- MODULE PipeProtocol ----------------------------
(***************************************************************************)
(* hw-1: Protocol::read and Protocol::write between the programs of        *)
(* example/parent.cpp and example/child.cpp, over the two pipes of a       *)
(* Process.  The parent sends each line it gets and waits for its copy in  *)
(* upper case; a message is its length (sizeof(size_t) bytes) and its      *)
(* characters.  read and write move as many bytes as they can, at least    *)
(* one.  Either program may be killed from outside.                        *)
(***************************************************************************)
EXTENDS Integers, Sequences, FiniteSets

CONSTANTS
  Char,      (* characters of a line *)
  Upper,     (* toupper, [Char -> Char] *)
  Lines,     (* what a user may type *)
  SizeLen,   (* sizeof(size_t) *)
  Capacity,  (* bytes a pipe has room for *)
  MaxLines   (* bound on the lines a user types *)

\* What the constants have to be; the module that instantiates this one asserts it.
CharAssumption == Upper \in [Char -> Char] /\ Lines \subseteq Seq(Char)
SizeAssumption ==
  SizeLen \in Nat \ {0} /\ Capacity \in Nat \ {0} /\ MaxLines \in Nat

VARIABLES
  pipe,    (* [Programs -> bytes it has written and the other has not read] *)
  pc,      (* [Programs -> where it is] *)
  frame,   (* [Programs -> `buffer' of Protocol::write] *)
  size,    (* [Programs -> the bytes of `size' that Protocol::read has] *)
  body,    (* [Programs -> what Protocol::read has of its message] *)
  moved,   (* [Programs -> was_written] *)
  asked, printed,  (* lines sent and answers printed by the parent *)
  sigterm  (* ~Process has sent SIGTERM *)

vars == <<pipe, pc, frame, size, body, moved, asked, printed, sigterm>>

Programs == {"parent", "child"}
Other(p) == IF p = "parent" THEN "child" ELSE "parent"
Ended == {"ended", "killed"}

\* A program's end of the pipes is open until Process::close() or its end.
HasPipes(p) == pc[p] \notin Ended \cup {"closed", "waiting"}

SizeByte == Nat \X (1 .. SizeLen)
SizeBytes(n) == [k \in 1 .. SizeLen |-> <<n, k>>]
Frame(s) == SizeBytes(Len(s)) \o s
\* The number in those bytes; bytes of something else give an unrelated one.
SizeOf(b) == IF \E s \in Lines : b = SizeBytes(Len(s))
             THEN Len(CHOOSE s \in Lines : b = SizeBytes(Len(s))) ELSE 0
UpperOf(s) == [i \in DOMAIN s |-> IF s[i] \in Char THEN Upper[s[i]] ELSE s[i]]

Init ==
  /\ pipe = [p \in Programs |-> <<>>]
  /\ pc = [p \in Programs |-> IF p = "parent" THEN "getline" ELSE "size"]
  /\ frame = [p \in Programs |-> <<>>]
  /\ size = [p \in Programs |-> <<>>]
  /\ body = [p \in Programs |-> <<>>]
  /\ moved = [p \in Programs |-> 0]
  /\ asked = <<>> /\ printed = <<>>
  /\ sigterm = FALSE

Go(p, place) == pc' = [pc EXCEPT ![p] = place]

\* Where main goes when a call returned -1: the parent closes and leaves.
GiveUp(p) == Go(p, IF p = "parent" THEN "closed" ELSE "ended")

-----------------------------------------------------------------------------
\* Protocol::write

StartWrite(p, s) ==
  /\ frame' = [frame EXCEPT ![p] = Frame(s)]
  /\ moved' = [moved EXCEPT ![p] = 0]

\* Mutated form: every round starts with the first byte of the buffer.
WriteFromTheStart(p) ==
  /\ pc[p] = "write" /\ moved[p] < Len(frame[p]) /\ HasPipes(Other(p))
  /\ \E n \in 1 .. Len(frame[p]) - moved[p] :
       /\ Len(pipe[p]) + n <= Capacity
       /\ pipe' = [pipe EXCEPT ![p] = @ \o SubSeq(frame[p], 1, n)]
       /\ moved' = [moved EXCEPT ![p] = @ + n]
  /\ UNCHANGED <<pc, frame, size, body, asked, printed, sigterm>>

Write(p) ==
  /\ pc[p] = "write" /\ moved[p] < Len(frame[p]) /\ HasPipes(Other(p))
  /\ \E n \in 1 .. Len(frame[p]) - moved[p] :
       /\ Len(pipe[p]) + n <= Capacity
       /\ pipe' = [pipe EXCEPT ![p] = @ \o SubSeq(frame[p], moved[p] + 1, moved[p] + n)]
       /\ moved' = [moved EXCEPT ![p] = @ + n]
  /\ UNCHANGED <<pc, frame, size, body, asked, printed, sigterm>>

\* Nobody can read the pipe any more: SIGPIPE, which no program handles.
BrokenPipe(p) ==
  /\ pc[p] = "write" /\ moved[p] < Len(frame[p]) /\ ~HasPipes(Other(p))
  /\ Go(p, "killed")
  /\ UNCHANGED <<pipe, frame, size, body, moved, asked, printed, sigterm>>

\* The message is written; main calls Protocol::read next.
StartRead(p) ==
  /\ pc[p] = "write" /\ moved[p] = Len(frame[p])
  /\ Go(p, "size")
  /\ size' = [size EXCEPT ![p] = <<>>] /\ body' = [body EXCEPT ![p] = <<>>]
  /\ UNCHANGED <<pipe, frame, moved, asked, printed, sigterm>>

-----------------------------------------------------------------------------
\* Protocol::read

Take(p, n) == pipe' = [pipe EXCEPT ![Other(p)] = SubSeq(@, n + 1, Len(@))]
First(p, n) == SubSeq(pipe[Other(p)], 1, n)

ReadSize(p) ==
  /\ pc[p] = "size"
  /\ \E n \in 1 .. Len(pipe[Other(p)]) :
       /\ Len(size[p]) + n <= SizeLen
       /\ Take(p, n)
       /\ size' = [size EXCEPT ![p] = @ \o First(p, n)]
       /\ IF Len(size[p]) + n = SizeLen THEN Go(p, "body") ELSE UNCHANGED pc
  /\ UNCHANGED <<frame, body, moved, asked, printed, sigterm>>

ReadBody(p) ==
  /\ pc[p] = "body" /\ Len(body[p]) < SizeOf(size[p])
  /\ \E n \in 1 .. Len(pipe[Other(p)]) :
       /\ Len(body[p]) + n <= SizeOf(size[p])
       /\ Take(p, n)
       /\ body' = [body EXCEPT ![p] = @ \o First(p, n)]
  /\ UNCHANGED <<pc, frame, size, moved, asked, printed, sigterm>>

\* Mutated form: 0 bytes are not taken for the end of the file.
EofIgnored(p) == FALSE /\ UNCHANGED vars

\* The end of the file before a whole message: -1, and main leaves its loop.
Eof(p) ==
  /\ pc[p] = "size" \/ (pc[p] = "body" /\ Len(body[p]) < SizeOf(size[p]))
  /\ pipe[Other(p)] = <<>> /\ ~HasPipes(Other(p))
  /\ GiveUp(p)
  /\ UNCHANGED <<pipe, frame, size, body, moved, asked, printed, sigterm>>

\* Mutated forms: one read is taken for a message; the loop wants a byte more.
GotSome(p) == pc[p] = "body" /\ (Len(body[p]) = SizeOf(size[p]) \/ body[p] # <<>>)
GotMore(p) == pc[p] = "body" /\ Len(body[p]) > SizeOf(size[p])

GotMessage(p) == pc[p] = "body" /\ Len(body[p]) = SizeOf(size[p])

-----------------------------------------------------------------------------
\* example/child.cpp and example/parent.cpp

Answer ==
  /\ GotMessage("child")
  /\ StartWrite("child", UpperOf(body["child"])) /\ Go("child", "write")
  /\ UNCHANGED <<pipe, size, body, asked, printed, sigterm>>

GetLine ==
  /\ pc["parent"] = "getline" /\ Len(asked) < MaxLines
  /\ \E s \in Lines : StartWrite("parent", s) /\ asked' = Append(asked, s)
  /\ Go("parent", "write")
  /\ UNCHANGED <<pipe, size, body, printed, sigterm>>

EndOfInput ==
  /\ pc["parent"] = "getline" /\ Go("parent", "closed")
  /\ UNCHANGED <<pipe, frame, size, body, moved, asked, printed, sigterm>>

PrintAnswer ==
  /\ GotMessage("parent")
  /\ printed' = Append(printed, body["parent"])
  /\ Go("parent", "getline")
  /\ UNCHANGED <<pipe, frame, size, body, moved, asked, sigterm>>

\* ~Process: close() again, kill(SIGTERM), and waitpid.
Terminate ==
  /\ pc["parent"] = "closed" /\ Go("parent", "waiting")
  /\ sigterm' = TRUE
  /\ UNCHANGED <<pipe, frame, size, body, moved, asked, printed>>

TakeSignal ==
  /\ sigterm /\ pc["child"] \notin Ended /\ Go("child", "killed")
  /\ UNCHANGED <<pipe, frame, size, body, moved, asked, printed, sigterm>>

Waited ==
  /\ pc["parent"] = "waiting" /\ pc["child"] \in Ended /\ Go("parent", "ended")
  /\ UNCHANGED <<pipe, frame, size, body, moved, asked, printed, sigterm>>

\* Somebody else kills a program.
Crash(p) ==
  /\ pc[p] \notin Ended /\ Go(p, "killed")
  /\ UNCHANGED <<pipe, frame, size, body, moved, asked, printed, sigterm>>

Protocol(p) ==
  Write(p) \/ BrokenPipe(p) \/ StartRead(p) \/ ReadSize(p) \/ ReadBody(p) \/ Eof(p)

Program(p) ==
  \/ Protocol(p)
  \/ p = "child" /\ (Answer \/ TakeSignal)
  \/ p = "parent" /\ (PrintAnswer \/ Terminate \/ Waited)

User == GetLine \/ EndOfInput \/ \E p \in Programs : Crash(p)

Next == User \/ \E p \in Programs : Program(p)

Spec == Init /\ [][Next]_vars

\* Both programs are scheduled; the user and whoever kills them owe nothing.
FairSpec == Spec /\ \A p \in Programs : WF_vars(Program(p))

-----------------------------------------------------------------------------
\* Types; a pipe never holds more than it has room for, and what is read as a
\* length is a length, what is read as text is text.
TypeOK ==
  /\ pipe \in [Programs -> Seq(SizeByte \cup Char)]
  /\ \A p \in Programs : Len(pipe[p]) <= Capacity
  /\ pc \in [Programs -> {"getline", "write", "size", "body", "closed", "waiting"} \cup Ended]
  /\ frame \in [Programs -> Seq(SizeByte \cup Char)]
  /\ moved \in [Programs -> Nat] /\ \A p \in Programs : moved[p] <= Len(frame[p])
  /\ size \in [Programs -> Seq(SizeByte)]
  /\ \A p \in Programs : Len(size[p]) <= SizeLen
  /\ body \in [Programs -> Seq(Char)]
  /\ asked \in Seq(Lines) /\ printed \in Seq(Seq(Char))
  /\ sigterm \in BOOLEAN

\* "child process returns sended message in UPPERCASE" (parent.cpp:14): however
\* the bytes are cut, the answers printed are the lines in upper case, in their
\* order, and at most the last line has no answer yet.
AnswersInOrder ==
  /\ Len(printed) \in {Len(asked), Len(asked) - 1}
  /\ \A i \in DOMAIN printed : printed[i] = UpperOf(asked[i])

\* Both ends agree where a message begins: while the parent waits for a line,
\* no byte of an earlier exchange is left in a pipe or half read by the child.
QuietBetweenLines ==
  pc["parent"] = "getline" =>
    /\ \A p \in Programs : pipe[p] = <<>>
    /\ pc["child"] \in {"write", "size"} \cup Ended
    /\ pc["child"] = "size" => size["child"] = <<>>
    /\ pc["child"] = "write" => moved["child"] = Len(frame["child"])

\* Messages longer than a pipe do not make both wait: every line sent is
\* answered, unless a program is killed.
LinesAreAnswered ==
  \A n \in 1 .. MaxLines :
    Len(asked) = n ~> (Len(printed) >= n \/ \E p \in Programs : pc[p] = "killed")

\* Once the parent leaves its loop, or is killed, both programs end: the child
\* sees the end of the file or the signal, and waitpid returns.
BothEnd ==
  pc["parent"] \in {"closed", "waiting"} \cup Ended ~> \A p \in Programs : pc[p] \in Ended
=============================================================================
