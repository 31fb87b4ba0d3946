------------------------------- MODULE Logger -------------------------------
(***************************************************************************)
(* hw-6/Logger_lib used by several threads: BaseLogger::debug .. error     *)
(* with the mutex of each logger, and the global logger of Logger.cpp that *)
(* the free functions use.  Levels may be set at any time by any thread;   *)
(* the global logger is replaced only while no thread is in a call, since  *)
(* it is destroyed by that.  Loggers may share a stream, as the global     *)
(* StdoutLogger and the one of the HTTP example do.                        *)
(***************************************************************************)
EXTENDS Integers, Sequences, FiniteSets

CONSTANTS
  Threads, Loggers, Streams,
  Own,           (* loggers that are objects of the program, with level DEBUG *)
  StreamOf,      (* [Loggers -> Streams]: `stream_' *)
  FirstGlobal,   (* the logger of Logger::Logger *)
  UsedLevels,    (* the levels of messages and of set_level *)
  End,           (* std::endl *)
  MaxMessages    (* bound on the messages of a thread *)

\* enum class t_level
ERROR == 0
WARNING == 1
INFO == 2
DEBUG == 3
Levels == ERROR .. DEBUG

\* What the constants have to be; the module that instantiates this one asserts it.
LoggerAssumption ==
  /\ StreamOf \in [Loggers -> Streams] /\ Own \subseteq Loggers /\ FirstGlobal \in Loggers \ Own
  /\ UsedLevels \subseteq Levels /\ MaxMessages \in Nat

VARIABLES
  level,   (* [Loggers -> level_] *)
  mutex,   (* [Loggers -> the threads that are inside log_mutex_] *)
  global,  (* global_logger_ *)
  out,     (* [Streams -> what was written: notes and ends of lines] *)
  pc,      (* [Threads -> where in a call it is] *)
  note,    (* [Threads -> the message of its call] *)
  errors   (* [Threads -> the calls of error() that returned] *)

vars == <<level, mutex, global, out, pc, note, errors>>

NoCall == [at |-> "idle", on |-> FirstGlobal]
Note == [by : Threads, nr : 0 .. MaxMessages, level : Levels]

Init ==
  /\ level = [l \in Loggers |-> IF l \in Own THEN DEBUG ELSE INFO]
  /\ mutex = [l \in Loggers |-> {}]
  /\ global = FirstGlobal
  /\ out = [s \in Streams |-> <<>>]
  /\ pc = [t \in Threads |-> NoCall]
  /\ note = [t \in Threads |-> [by |-> t, nr |-> 0, level |-> ERROR]]
  /\ errors = [t \in Threads |-> 0]

Goes(t, place) == pc' = [pc EXCEPT ![t].at = place]
Returned(t, lev) == errors' = [errors EXCEPT ![t] = IF lev = ERROR THEN @ + 1 ELSE @]
Put(s, x) == out' = [out EXCEPT ![s] = Append(@, x)]

\* Mutated form: only what is below the level is written.
PassesBelow(l, lev) == level[l] > lev

\* debug, info, warn and error: what is above the level is not written.
Passes(l, lev) == level[l] >= lev

\* A call of a logger: the level is read without the mutex; the note is built.
Call(t, l, lev) ==
  /\ pc[t].at = "idle" /\ note[t].nr < MaxMessages
  /\ note' = [note EXCEPT ![t] = [by |-> t, nr |-> @.nr + 1, level |-> lev]]
  /\ \/ /\ Passes(l, lev) /\ pc' = [pc EXCEPT ![t] = [at |-> "lock", on |-> l]]
        /\ UNCHANGED errors
     \/ /\ ~Passes(l, lev) /\ Returned(t, lev)
        /\ UNCHANGED pc
  /\ UNCHANGED <<level, mutex, global, out>>

\* The free functions call the global logger.
CallGlobal(t, lev) == Call(t, global, lev)

\* Mutated form: no mutex, as in hw-2.
EnterUnlocked(t) ==
  /\ pc[t].at = "lock" /\ Goes(t, "note")
  /\ mutex' = [mutex EXCEPT ![pc[t].on] = @ \cup {t}]
  /\ UNCHANGED <<level, global, out, note, errors>>

Lock(t) ==
  /\ pc[t].at = "lock" /\ mutex[pc[t].on] = {} /\ Goes(t, "note")
  /\ mutex' = [mutex EXCEPT ![pc[t].on] = {t}]
  /\ UNCHANGED <<level, global, out, note, errors>>

\* *stream_ << note.str() << std::endl: two operators.
WriteNote(t) ==
  /\ pc[t].at = "note" /\ Goes(t, "end")
  /\ Put(StreamOf[pc[t].on], note[t])
  /\ UNCHANGED <<level, mutex, global, note, errors>>

\* Mutated form: the mutex is locked and never unlocked.
WriteEndLocked(t) ==
  /\ pc[t].at = "end" /\ pc' = [pc EXCEPT ![t] = NoCall]
  /\ Put(StreamOf[pc[t].on], End)
  /\ Returned(t, note[t].level)
  /\ UNCHANGED <<level, mutex, global, note>>

WriteEnd(t) ==
  /\ pc[t].at = "end" /\ pc' = [pc EXCEPT ![t] = NoCall]
  /\ Put(StreamOf[pc[t].on], End)
  /\ mutex' = [mutex EXCEPT ![pc[t].on] = @ \ {t}]
  /\ Returned(t, note[t].level)
  /\ UNCHANGED <<level, global, note>>

\* set_level, by any thread and without the mutex.
SetLevel(l, lev) ==
  /\ level' = [level EXCEPT ![l] = lev]
  /\ UNCHANGED <<mutex, global, out, pc, note, errors>>

\* A null pointer is ignored; otherwise the old logger is destroyed, which no
\* thread may be using.
SetGlobal(l) ==
  /\ \A t \in Threads : pc[t].at = "idle"
  /\ l \in Loggers \ (Own \cup {global}) /\ global' = l
  /\ level' = [level EXCEPT ![l] = INFO]
  /\ UNCHANGED <<mutex, out, pc, note, errors>>

Log(t) == Lock(t) \/ WriteNote(t) \/ WriteEnd(t)

Next ==
  \/ \E t \in Threads :
       \/ Log(t)
       \/ \E lev \in UsedLevels : CallGlobal(t, lev) \/ \E l \in Own : Call(t, l, lev)
  \/ \E lev \in UsedLevels : SetLevel(global, lev)
  \/ \E l \in Loggers : SetGlobal(l)

Spec == Init /\ [][Next]_vars

\* Every thread that is in a call runs; the others log finitely often meanwhile.
FairSpec == Spec /\ \A t \in Threads : WF_vars(Log(t))

-----------------------------------------------------------------------------
\* Types; a mutex has one owner, which is inside the logger.
TypeOK ==
  /\ level \in [Loggers -> Levels]
  /\ mutex \in [Loggers -> SUBSET Threads]
  /\ \A l \in Loggers :
       mutex[l] = {t \in Threads : pc[t].at \in {"note", "end"} /\ pc[t].on = l}
  /\ \A l \in Loggers : Cardinality(mutex[l]) <= 1
  /\ global \in Loggers \ Own
  /\ out \in [Streams -> Seq(Note \cup {End})]
  /\ pc \in [Threads -> [at : {"idle", "lock", "note", "end"}, on : Loggers]]
  /\ note \in [Threads -> Note]
  /\ errors \in [Threads -> 0 .. MaxMessages]

\* A stream with one logger has whole lines, whatever threads write to it.
LinesAreWhole ==
  \A s \in Streams : Cardinality({l \in Loggers : StreamOf[l] = s}) = 1 =>
    \A i \in DOMAIN out[s] : (out[s][i] = End) <=> (i % 2 = 0)

\* Errors are never below a level: when error() has returned its note is in a
\* stream, whatever set_level and set_global_logger did in the meantime.
NotesOf(t, lev) ==
  {x \in UNION {{s} \X DOMAIN out[s] : s \in Streams} :
     LET n == out[x[1]][x[2]] IN n # End /\ n.by = t /\ n.level = lev}
ErrorsAreNeverLost ==
  \A t \in Threads : pc[t].at = "idle" =>
    Cardinality(NotesOf(t, ERROR)) = errors[t]

\* A thread that logs is not kept in the mutex of a logger for ever.
CallsReturn == \A t \in Threads : pc[t].at # "idle" ~> pc[t].at = "idle"
=============================================================================
