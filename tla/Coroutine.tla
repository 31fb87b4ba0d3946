------------------------------ MODULE Coroutine ------------------------------
(***************************************************************************)
(* hw-6/Coroutine_lib/src/coroutine.cpp: the ordinator of one thread.      *)
(*                                                                         *)
(* The ordinator is thread_local, so nothing runs concurrently with it;    *)
(* the steps of this module are the stretches of code between two context  *)
(* switches or two calls.  Code runs either on the main stack or on the    *)
(* stack of one routine; resume and kill are called on the main stack and  *)
(* yield on a routine's, as in every caller of the repository (a resume    *)
(* inside a routine would overwrite the only saved main context).          *)
(***************************************************************************)
EXTENDS Integers, FiniteSets, Functions

CONSTANTS
  Ids,          (* the routine_t values given to create *)
  Exceptions,   (* exceptions a routine may throw and kill may inject *)
  OutOfRange,   (* std::out_of_range, thrown by routines.at *)
  NoEx          (* the empty exception_ptr *)

Main == 0       (* routine_t 0 is the main routine *)

ASSUME IdsAssumption == Ids \subseteq Nat \ {Main} /\ IsFiniteSet(Ids)
ASSUME ExceptionsAssumption ==
  NoEx # OutOfRange /\ NoEx \notin Exceptions

VARIABLES
  routines,   (* ordinator.routines: what each id in the table maps to *)
  finished,   (* how many nodes wait in ordinator.finished for reuse *)
  current,    (* ordinator.current *)
  running,    (* whose stack executes: Main or an id *)
  call,       (* the resume or kill the main stack is blocked in *)
  raised,     (* exception propagating in the running routine, or NoEx *)
  result      (* how the last call made on the main stack ended *)

vars == <<routines, finished, current, running, call, raised, result>>

Thrown == Exceptions \union {OutOfRange}

\* `ctx' is the point swapcontext jumps to: the start of entry() or the
\* inside of yield().
Routine == [ctx: {"entry", "yield"}, finished: BOOLEAN,
            exception: Thrown \union {NoEx}]

NewRoutine == [ctx |-> "entry", finished |-> FALSE, exception |-> NoEx]

\* The arguments of the call the main stack is in; resume takes no exception.
NoCall == [op |-> "none", id |-> Main, ex |-> NoEx]

Calls == {NoCall} \union [op: {"resume"}, id: Ids, ex: {NoEx}]
                  \union [op: {"kill"}, id: Ids, ex: Exceptions]

Results == [op: {"none", "resume", "kill", "yield"},
            value: {"none", "true", "false", "invalid_argument", "logic_error"}
                     \union Thrown]

-----------------------------------------------------------------------------
(* Helpers *)

\* The caller of the library is executing, and not inside resume or kill.
MainIdle == running = Main /\ call = NoCall

\* The function of the running routine is executing, nothing in flight.
BodyRuns == running # Main /\ raised = NoEx

Return(op, value) == result' = [op |-> op, value |-> value]

\* Mutated form: insert_or_assign instead of insert.
InsertOrAssign(id) ==
  [i \in DOMAIN routines \union {id} |->
     IF i = id THEN NewRoutine ELSE routines[i]]

\* std::map::emplace and insert(node): an existing key is left alone.
Insert(id) ==
  [i \in DOMAIN routines \union {id} |->
     IF i \in DOMAIN routines THEN routines[i] ELSE NewRoutine]

\* swapcontext(&o.ctx, &routine.ctx): a routine that is inside yield() finds
\* its exception there; one that starts does not look at it.
SwitchTo(op, id, ex, table) ==
  /\ current' = id
  /\ running' = id
  /\ call' = [op |-> op, id |-> id, ex |-> ex]
  /\ raised' = IF table[id].ctx = "yield" THEN table[id].exception ELSE NoEx

-----------------------------------------------------------------------------
(* Calls on the main stack *)

\* Mutated form: a node of the queue is never reused.
CreateWithoutReuse(id) ==
  /\ MainIdle \/ BodyRuns
  /\ routines' = Insert(id)
  /\ UNCHANGED <<finished, current, running, call, raised, result>>

\* Mutated form: the queue is popped without looking whether it is empty.
CreatePopsEmpty(id) ==
  /\ MainIdle \/ BodyRuns
  /\ routines' = Insert(id)
  /\ finished' = finished - 1
  /\ UNCHANGED <<current, running, call, raised, result>>

\* create: a node waiting in the queue is taken for the new routine, and
\* destroyed when the id is in the table already.  Routines may call it too.
Create(id) ==
  /\ MainIdle \/ BodyRuns
  /\ routines' = Insert(id)
  /\ finished' = IF finished = 0 THEN 0 ELSE finished - 1
  /\ UNCHANGED <<current, running, call, raised, result>>

\* resume, the paths that do not reach swapcontext.
ResumeRejected(id) ==
  /\ MainIdle
  /\ \/ id = Main /\ Return("resume", "false")
     \/ id # Main /\ id \notin DOMAIN routines /\ Return("resume", OutOfRange)
     \/ id \in DOMAIN routines /\ routines[id].finished /\ Return("resume", "false")
  /\ UNCHANGED <<routines, finished, current, running, call, raised>>

\* resume: the routine runs, or swapcontext fails.
Resume(id) ==
  /\ MainIdle
  /\ id \in DOMAIN routines
  /\ ~routines[id].finished
  /\ \/ SwitchTo("resume", id, NoEx, routines) /\ UNCHANGED result
     \/ /\ current' = Main
        /\ Return("resume", "false")
        /\ UNCHANGED <<running, call, raised>>
  /\ UNCHANGED <<routines, finished>>

KillRejected(id, ex) ==
  /\ MainIdle
  /\ \/ /\ id = Main \/ ex = NoEx
        /\ Return("kill", "invalid_argument")
     \/ id # Main /\ ex # NoEx /\ id \notin DOMAIN routines
        /\ Return("kill", OutOfRange)
  /\ UNCHANGED <<routines, finished, current, running, call, raised>>

\* kill: the exception is stored, then the routine is resumed.  A resume
\* that cannot switch returns false and kill throws logic_error.
Kill(id, ex) ==
  /\ MainIdle
  /\ id \in DOMAIN routines
  /\ ex # NoEx
  /\ routines' = [routines EXCEPT ![id].exception = ex]
  /\ \/ /\ ~routines[id].finished
        /\ SwitchTo("kill", id, ex, routines')
        /\ UNCHANGED result
     \/ /\ current' = IF routines[id].finished THEN current ELSE Main
        /\ Return("kill", "logic_error")
        /\ UNCHANGED <<running, call, raised>>
  /\ UNCHANGED finished

\* Mutated form: the node of a finished routine stays in the table.
ReturnWithoutExtract ==
  /\ running = Main
  /\ call # NoCall
  /\ call' = NoCall
  /\ Return(call.op, IF routines[call.id].exception # NoEx
                     THEN routines[call.id].exception ELSE "true")
  /\ UNCHANGED <<routines, finished, current, running, raised>>

\* resume after swapcontext came back, and the end of kill: the node of a
\* finished routine moves to the queue and its exception is rethrown.
ReturnToMain ==
  LET routine == routines[call.id]
      normal  == IF call.op = "kill" THEN "logic_error" ELSE "true"
  IN /\ running = Main
     /\ call # NoCall
     /\ call' = NoCall
     /\ IF routine.finished
        THEN /\ routines' = Restrict(routines, DOMAIN routines \ {call.id})
             /\ finished' = finished + 1
             /\ Return(call.op, IF routine.exception # NoEx
                                THEN routine.exception ELSE normal)
        ELSE Return(call.op, normal) /\ UNCHANGED <<routines, finished>>
     /\ UNCHANGED <<current, running, raised>>

\* yield on the main stack: no routine has the id `current', at() throws.
YieldOnMain ==
  /\ MainIdle
  /\ current \notin DOMAIN routines
  /\ Return("yield", OutOfRange)
  /\ UNCHANGED <<routines, finished, current, running, call, raised>>

-----------------------------------------------------------------------------
(* Code on the stack of the running routine *)

\* Mutated form: yield looks at the exception only after the switch back.
YieldUnchecked ==
  /\ BodyRuns
  /\ current \in DOMAIN routines
  /\ current' = Main
  /\ running' = Main
  /\ routines' = [routines EXCEPT ![current].ctx = "yield"]
  /\ UNCHANGED <<finished, call, raised, result>>

\* yield: `current' is cleared before the exception is looked at, so after
\* the throw a second yield finds no routine.
Yield ==
  /\ BodyRuns
  /\ IF current \notin DOMAIN routines
     THEN raised' = OutOfRange /\ UNCHANGED <<current, running, routines>>
     ELSE /\ current' = Main
          /\ IF routines[current].exception # NoEx
             THEN /\ raised' = routines[current].exception
                  /\ UNCHANGED <<running, routines>>
             ELSE /\ \/ /\ running' = Main
                        /\ routines' = [routines EXCEPT ![current].ctx = "yield"]
                     \/ UNCHANGED <<running, routines>>  \* swapcontext failed
                  /\ UNCHANGED raised
  /\ UNCHANGED <<finished, call, result>>

\* The function of the routine throws an exception of its own ...
Throw(ex) ==
  /\ BodyRuns
  /\ raised' = ex
  /\ UNCHANGED <<routines, finished, current, running, call, result>>

\* ... or handles the one in flight.
Catch ==
  /\ running # Main
  /\ raised # NoEx
  /\ raised' = NoEx
  /\ UNCHANGED <<routines, finished, current, running, call, result>>

\* Mutated form: entry() leaves `current' alone.
FinishKeepsCurrent ==
  /\ running # Main
  /\ routines' = [routines EXCEPT ![running].finished = TRUE]
  /\ running' = Main
  /\ raised' = NoEx
  /\ UNCHANGED <<finished, current, call, result>>

\* The rest of entry(): an escaping exception replaces the stored one; then
\* uc_link brings the main stack back.
Finish ==
  /\ running # Main
  /\ routines' = [routines EXCEPT ![running] =
       [ctx |-> @.ctx, finished |-> TRUE,
        exception |-> IF raised # NoEx THEN raised ELSE @.exception]]
  /\ current' = Main
  /\ running' = Main
  /\ raised' = NoEx
  /\ UNCHANGED <<finished, call, result>>

-----------------------------------------------------------------------------
Init ==
  /\ routines = [id \in {} |-> NewRoutine]
  /\ finished = 0
  /\ current = Main
  /\ running = Main
  /\ call = NoCall
  /\ raised = NoEx
  /\ result = [op |-> "none", value |-> "none"]

MainStep ==
  \/ \E id \in Ids \union {Main} : ResumeRejected(id)
  \/ \E id \in Ids : Resume(id)
  \/ \E id \in Ids \union {Main}, ex \in Exceptions \union {NoEx} : KillRejected(id, ex)
  \/ \E id \in Ids, ex \in Exceptions : Kill(id, ex)
  \/ ReturnToMain
  \/ YieldOnMain

RoutineStep ==
  \/ Yield
  \/ \E ex \in Exceptions : Throw(ex)
  \/ Catch
  \/ Finish

Next ==
  \/ \E id \in Ids : Create(id)
  \/ MainStep
  \/ RoutineStep

Spec == Init /\ [][Next]_vars

-----------------------------------------------------------------------------
(* Properties *)

\* Type invariant: the records of the table, the counters and the results
\* of the calls are of the kinds coroutine.cpp stores and returns.
TypeOK ==
  /\ DOMAIN routines \subseteq Ids
  /\ routines \in [DOMAIN routines -> Routine]
  /\ finished \in Nat
  /\ current \in Ids \union {Main}
  /\ running \in Ids \union {Main}
  /\ call \in Calls
  /\ raised \in Thrown \union {NoEx}
  /\ result \in Results

\* `current' never names a routine whose stack is not the executing one:
\* the id a routine reads with current() is its own or 0, and no routine is
\* current when the main stack is back, whatever path brought it back
\* (coroutine.cpp:95, 118, 169).
CurrentIsTheRunningRoutine == current \in {Main, running}

\* A finished routine is in the table only between the end of its function
\* and the return of the resume that ran it: nobody can call resume or kill
\* on it, so the test of coroutine.cpp:90 never succeeds.
FinishedIsTransient ==
  \A id \in DOMAIN routines :
    routines[id].finished => running = Main /\ call.id = id

\* The stacks (256 KiB each) that were allocated and not freed are at most
\* one per id, however many routines were created, ended and created again
\* under an id that is in use: create takes a waiting node first.
StackBound == Cardinality(DOMAIN routines) + finished <= Cardinality(Ids)

\* A kill that switched to its routine leaves by an exception and the
\* routine is gone, even when the routine had not started, swallowed the
\* exception, threw another or called yield again: the logic_error of
\* coroutine.cpp:146 is thrown after a failed swapcontext only.
KillEndsTheRoutine ==
  [][call.op = "kill" /\ call' = NoCall =>
       call.id \notin DOMAIN routines' /\ result'.value \in Thrown]_vars

\* A routine leaves the table only after its function ended, and until then
\* its saved point of execution never moves back to the start: a create with
\* an id in use does not restart or evict the routine that has it.
LiveRoutineIsKept ==
  [][\A id \in DOMAIN routines :
       /\ id \notin DOMAIN routines' => routines[id].finished
       /\ id \in DOMAIN routines' /\ routines[id].ctx = "yield"
            => routines'[id].ctx = "yield"]_vars

\* The comment of coroutine.cpp:145, "must throw ex": the exception a kill
\* ends with is the one it was given.
KillThrowsItsException ==
  [][call.op = "kill" /\ call' = NoCall =>
       result'.value = call.ex]_vars

-----------------------------------------------------------------------------
(* Refinement: what a caller of the library sees *)

\* A routine whose function ended is absent although its node is in the
\* table until resume returns.
Status(id) ==
  IF id \in DOMAIN routines /\ ~routines[id].finished
  THEN IF running = id THEN "running" ELSE "ready"
  ELSE "absent"

Doomed == {id \in DOMAIN routines :
             ~routines[id].finished /\ routines[id].exception # NoEx}

Lifecycle == INSTANCE RoutineLifecycle
               WITH status <- [id \in Ids |-> Status(id)], doomed <- Doomed

\* The ordinator implements the life cycle: one routine runs at a time, it is
\* resumed where it was left, and a killed routine never becomes ready again.
ImplementsLifecycle == Lifecycle!Spec
=============================================================================
