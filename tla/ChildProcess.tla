---------------------------- MODULE ChildProcess ----------------------------
(***************************************************************************)
(* hw-1: class Process.  A program builds Process objects one after the    *)
(* other; each forks a child whose stdin and stdout are pipes.  A child    *)
(* keeps what it inherits: nothing is closed on exec, so that the children *)
(* of later objects hold the ends of earlier ones.  The executed program   *)
(* is a filter that copies its stdin to its stdout until the end of the    *)
(* file, as example/child.cpp is, and that may end when it likes.  One     *)
(* thread of the program calls writeExact, readExact, closeStdin and close.*)
(***************************************************************************)
EXTENDS Integers, FiniteSets

CONSTANTS
  NObjects,  (* Process objects a program builds *)
  FdLimit,   (* descriptors the program may have for pipes *)
  Capacity,  (* bytes a pipe has room for *)
  MaxLen     (* the longest writeExact and readExact; 0: none is called *)

\* What the constants have to be; the module that instantiates this one asserts it.
ChildProcessAssumption ==
  NObjects \in Nat /\ FdLimit \in Nat /\ Capacity \in Nat \ {0} /\ MaxLen \in Nat

Objects == 1 .. NObjects
Parent == 0
Processes == {Parent} \cup Objects   \* the child of object i is process i

VARIABLES
  ends,   (* [Processes -> the pipe ends in its descriptor table] *)
  obj,    (* [Objects -> how far its constructor or destructor is] *)
  child,  (* [Objects -> the state of its child] *)
  input, held, output,  (* [Objects -> bytes in stdin, in the filter, in stdout] *)
  call    (* the writeExact or readExact that runs *)

vars == <<ends, obj, child, input, held, output, call>>

In(i, side) == <<i, "in", side>>
Out(i, side) == <<i, "out", side>>
Ends == Objects \X {"in", "out"} \X {"r", "w"}

NoCall == [fun |-> "none", on |-> 0, left |-> 0]
Building == {"in", "both", "forked"}
Live == {"forked", "exec", "running"}

Alive == \A i \in Objects : obj[i] # "lost"
Idle == Alive /\ call = NoCall /\ \A i \in Objects : obj[i] \notin Building \cup {"waiting"}
Held(e) == \E p \in Processes : e \in ends[p]

Init ==
  /\ ends = [p \in Processes |-> {}]
  /\ obj = [i \in Objects |-> "none"]
  /\ child = [i \in Objects |-> "none"]
  /\ input = [i \in Objects |-> 0] /\ held = [i \in Objects |-> 0]
  /\ output = [i \in Objects |-> 0]
  /\ call = NoCall

bytes == <<input, held, output>>
Own(p, S) == ends' = [ends EXCEPT ![p] = S]
Goes(i, state) == obj' = [obj EXCEPT ![i] = state]
Turns(i, state) == child' = [child EXCEPT ![i] = state]

-----------------------------------------------------------------------------
\* Process::Process, in the parent

\* Mutated form: the limit of descriptors is not looked at.
NewPipeUnchecked(i, pipe) == Own(Parent, ends[Parent] \cup {<<i, pipe, "r">>, <<i, pipe, "w">>})

NewPipe(i, pipe) ==
  /\ Cardinality(ends[Parent]) + 2 <= FdLimit
  /\ Own(Parent, ends[Parent] \cup {<<i, pipe, "r">>, <<i, pipe, "w">>})

FirstPipe(i) ==
  /\ Idle /\ obj[i] = "none" /\ \A j \in 1 .. i - 1 : obj[j] # "none"
  /\ NewPipe(i, "in") /\ Goes(i, "in")
  /\ UNCHANGED <<child, bytes, call>>

SecondPipe(i) ==
  /\ obj[i] = "in"
  /\ NewPipe(i, "out") /\ Goes(i, "both")
  /\ UNCHANGED <<child, bytes, call>>

\* Mutated form: the numbers of the first pipe are never given to a Descriptor.
ConstructorFailsBare(i) ==
  /\ obj[i] \in {"in", "both"} /\ Goes(i, "failed")
  /\ Own(Parent, ends[Parent] \ {Out(i, "r"), Out(i, "w")})
  /\ UNCHANGED <<child, bytes, call>>

\* No second pipe (PipeError), or no child: the local descriptors are closed.
\* The destructor does not run, which would call kill(-1, SIGTERM).
ConstructorFails(i) ==
  /\ \/ obj[i] = "in" /\ Cardinality(ends[Parent]) + 2 > FdLimit
     \/ obj[i] = "both"
  /\ Goes(i, "failed")
  /\ Own(Parent, {e \in ends[Parent] : e[1] # i})
  /\ UNCHANGED <<child, bytes, call>>

Fork(i) ==
  /\ obj[i] = "both" /\ Goes(i, "forked")
  /\ Own(i, ends[Parent]) /\ Turns(i, "forked")
  /\ UNCHANGED <<bytes, call>>

\* Mutated form: the end the child writes to stays open in the parent.
AdoptAll(i) ==
  /\ obj[i] = "forked" /\ Goes(i, "alive")
  /\ Own(Parent, ends[Parent] \ {In(i, "r")})
  /\ UNCHANGED <<child, bytes, call>>

\* The members take the parent's ends; the locals close the child's.
Adopt(i) ==
  /\ obj[i] = "forked" /\ Goes(i, "alive")
  /\ Own(Parent, ends[Parent] \ {In(i, "r"), Out(i, "w")})
  /\ UNCHANGED <<child, bytes, call>>

-----------------------------------------------------------------------------
\* Process::Process in the child, and the filter it executes

\* Mutated form: the child does not close the end its parent writes to.
CloseOutOnly(i) ==
  /\ child[i] = "forked" /\ Turns(i, "exec")
  /\ Own(i, ends[i] \ {Out(i, "r")})
  /\ UNCHANGED <<obj, bytes, call>>

CloseFarEnds(i) ==
  /\ child[i] = "forked" /\ Turns(i, "exec")
  /\ Own(i, ends[i] \ {In(i, "w"), Out(i, "r")})
  /\ UNCHANGED <<obj, bytes, call>>

\* dup2 gives the child's own ends the numbers 0 and 1 and keeps them open.
Exec(i) ==
  /\ child[i] = "exec" /\ Turns(i, "running")
  /\ UNCHANGED <<ends, obj, bytes, call>>

Ends0(i) == Turns(i, "ended") /\ Own(i, {}) /\ UNCHANGED <<obj, bytes, call>>

\* execvp fails: runtime_error, which nobody catches.
ExecFails(i) == child[i] = "exec" /\ Ends0(i)

\* The filter ends when it likes, or takes the SIGTERM of ~Process.
Exits(i) == child[i] = "running" /\ Ends0(i)

\* Mutated form: no signal is sent.
SignalLost(i) == FALSE /\ UNCHANGED vars

TakeSignal(i) == child[i] \in Live /\ obj[i] = "waiting" /\ Ends0(i)

FilterReads(i) ==
  /\ child[i] = "running" /\ held[i] = 0
  /\ \E n \in 1 .. input[i] :
       input' = [input EXCEPT ![i] = @ - n] /\ held' = [held EXCEPT ![i] = n]
  /\ UNCHANGED <<ends, obj, child, output, call>>

FilterWrites(i) ==
  /\ child[i] = "running" /\ Held(Out(i, "r"))
  /\ \E n \in 1 .. held[i] :
       /\ output[i] + n <= Capacity
       /\ held' = [held EXCEPT ![i] = @ - n] /\ output' = [output EXCEPT ![i] = @ + n]
  /\ UNCHANGED <<ends, obj, child, input, call>>

\* End of the file, or SIGPIPE because nobody can read what it writes.
FilterEnds(i) ==
  /\ child[i] = "running"
  /\ \/ held[i] = 0 /\ input[i] = 0 /\ ~Held(In(i, "w"))
     \/ held[i] > 0 /\ ~Held(Out(i, "r"))
  /\ Ends0(i)

-----------------------------------------------------------------------------
\* The other members of Process

CloseStdin(i) ==
  /\ Idle /\ obj[i] = "alive" /\ In(i, "w") \in ends[Parent]
  /\ Own(Parent, ends[Parent] \ {In(i, "w")})
  /\ UNCHANGED <<obj, child, bytes, call>>

Close(i) ==
  /\ Idle /\ obj[i] = "alive" /\ Out(i, "r") \in ends[Parent]
  /\ Own(Parent, ends[Parent] \ {In(i, "w"), Out(i, "r")})
  /\ UNCHANGED <<obj, child, bytes, call>>

\* ~Process: close(), kill(SIGTERM) and waitpid.
Destroy(i) ==
  /\ Idle /\ obj[i] = "alive" /\ Goes(i, "waiting")
  /\ Own(Parent, ends[Parent] \ {In(i, "w"), Out(i, "r")})
  /\ UNCHANGED <<child, bytes, call>>

Waited(i) ==
  /\ obj[i] = "waiting" /\ child[i] = "ended"
  /\ Goes(i, "gone") /\ Turns(i, "reaped")
  /\ UNCHANGED <<ends, bytes, call>>

\* The program is killed, or takes a SIGPIPE: its descriptors are closed.
Dies == /\ obj' = [i \in Objects |-> "lost"]
        /\ Own(Parent, {}) /\ call' = NoCall
        /\ UNCHANGED <<child, bytes>>
Killed == Alive /\ Dies

Call(fun, i) ==
  /\ Idle /\ obj[i] = "alive"
  /\ \E n \in 1 .. MaxLen : call' = [fun |-> fun, on |-> i, left |-> n]
  /\ UNCHANGED <<ends, obj, child, bytes>>

\* WriteError, ReadError: the descriptor is -1, or the end of the file.
CallThrows ==
  /\ \/ call.fun = "writeExact" /\ In(call.on, "w") \notin ends[Parent]
     \/ call.fun = "readExact" /\ Out(call.on, "r") \notin ends[Parent]
     \/ call.fun = "readExact" /\ output[call.on] = 0 /\ ~Held(Out(call.on, "w"))
  /\ call' = NoCall
  /\ UNCHANGED <<ends, obj, child, bytes>>

CallReturns ==
  /\ call.fun # "none" /\ call.left = 0 /\ call' = NoCall
  /\ UNCHANGED <<ends, obj, child, bytes>>

\* Mutated form: no loop, one call of write has to take all bytes.
WriteAll ==
  /\ call.fun = "writeExact" /\ In(call.on, "w") \in ends[Parent] /\ Held(In(call.on, "r"))
  /\ call.left > 0 /\ input[call.on] + call.left <= Capacity
  /\ input' = [input EXCEPT ![call.on] = @ + call.left]
  /\ call' = [call EXCEPT !.left = 0]
  /\ UNCHANGED <<ends, obj, child, held, output>>

Write ==
  /\ call.fun = "writeExact" /\ In(call.on, "w") \in ends[Parent] /\ Held(In(call.on, "r"))
  /\ \E n \in 1 .. call.left :
       /\ input[call.on] + n <= Capacity
       /\ input' = [input EXCEPT ![call.on] = @ + n]
       /\ call' = [call EXCEPT !.left = @ - n]
  /\ UNCHANGED <<ends, obj, child, held, output>>

WriteBroken ==
  /\ call.fun = "writeExact" /\ call.left > 0
  /\ In(call.on, "w") \in ends[Parent] /\ ~Held(In(call.on, "r"))
  /\ Dies

Read ==
  /\ call.fun = "readExact" /\ Out(call.on, "r") \in ends[Parent]
  /\ \E n \in 1 .. call.left :
       /\ n <= output[call.on]
       /\ output' = [output EXCEPT ![call.on] = @ - n]
       /\ call' = [call EXCEPT !.left = @ - n]
  /\ UNCHANGED <<ends, obj, child, input, held>>

-----------------------------------------------------------------------------
Constructor(i) ==
  SecondPipe(i) \/ ConstructorFails(i) \/ Fork(i) \/ Adopt(i)
Library ==
  \/ \E i \in Objects : Constructor(i) \/ Waited(i)
  \/ CallThrows \/ CallReturns \/ Write \/ WriteBroken \/ Read
Child(i) ==
  \/ CloseFarEnds(i) \/ Exec(i) \/ ExecFails(i) \/ TakeSignal(i)
  \/ FilterReads(i) \/ FilterWrites(i) \/ FilterEnds(i)
User ==
  \/ Killed
  \/ \E i \in Objects :
       \/ FirstPipe(i) \/ CloseStdin(i) \/ Close(i) \/ Destroy(i) \/ Exits(i)
       \/ \E fun \in {"writeExact", "readExact"} : Call(fun, i)

Next == User \/ Library \/ \E i \in Objects : Child(i)

Spec == Init /\ [][Next]_vars

\* The program runs the library's code to its end, and every child runs.
FairSpec == Spec /\ WF_vars(Library) /\ \A i \in Objects : WF_vars(Child(i))

-----------------------------------------------------------------------------
\* Types; neither the descriptors nor the pipes exceed what there is.
TypeOK ==
  /\ ends \in [Processes -> SUBSET Ends]
  /\ Cardinality(ends[Parent]) <= FdLimit
  /\ obj \in [Objects -> {"none", "alive", "waiting", "gone", "failed", "lost"} \cup Building]
  /\ child \in [Objects -> Live \cup {"none", "ended", "reaped"}]
  /\ \A i \in Objects : input[i] \in 0 .. Capacity /\ output[i] \in 0 .. Capacity
  /\ held \in [Objects -> 0 .. Capacity]
  /\ call \in [fun : {"none", "writeExact", "readExact"}, on : Nat, left : 0 .. MaxLen]

\* Whatever constructor threw and whatever was closed, between calls the program
\* has only the two ends of each object that lives.
NothingLeaks ==
  Idle => \A e \in ends[Parent] :
            obj[e[1]] = "alive" /\ e \in {In(e[1], "w"), Out(e[1], "r")}

\* Only the child can write to its stdout, so that the end of the file that
\* readExact meets ("EOF founded") means that the child has ended.
EndOfFileIsTheEnd ==
  \A i \in Objects : obj[i] = "alive" /\ child[i] \in Live =>
    {p \in Processes : Out(i, "w") \in ends[p]} = {i}

Owed(i) == input[i] + held[i] + output[i]

\* A filter ends once its stdin and those of all later objects are closed, the
\* program's death included: later children that hold its stdin go first.
ChildrenEnd ==
  \A i \in Objects :
    (/\ child[i] \in Live
     /\ \A j \in i .. NObjects : In(j, "w") \notin ends[Parent] /\ Owed(j) = 0)
    ~> child[i] \in {"ended", "reaped"}

\* ~Process returns, also when later children keep the stdin of this one open.
DestructorReturns == \A i \in Objects : obj[i] = "waiting" ~> obj[i] \in {"gone", "lost"}

\* writeExact returns or throws when what the filter owes and the new bytes fit
\* into the two pipes, and readExact when the filter owes as much as it wants.
CallsReturn ==
  \A i \in Objects :
    /\ (call.fun = "writeExact" /\ call.on = i /\ Owed(i) + call.left <= 2 * Capacity)
         ~> call = NoCall
    /\ (call.fun = "readExact" /\ call.on = i /\ call.left <= Owed(i)) ~> call = NoCall
=============================================================================
