--------------------------- MODULE Coroutine_proofs ---------------------------
(***************************************************************************)
(* Proofs about Coroutine, for every finite set of ids and every set of    *)
(* exceptions.                                                             *)
(***************************************************************************)
EXTENDS Coroutine, FiniteSetTheorems, TLAPS

\* The executing routine is in the table and is the target of the call the
\* main stack is blocked in.
CallMatchesStack ==
  /\ call # NoCall => call.id \in DOMAIN routines
  /\ running # Main => call # NoCall /\ call.id = running

\* The routine a kill switched to has an exception from then on, and when
\* control is back on the main stack its function has ended.
KilledRoutineEnds ==
  call.op = "kill" =>
    /\ routines[call.id].exception # NoEx
    /\ running = Main => routines[call.id].finished

\* The inductive invariant: the type invariant, the two safety invariants it
\* strengthens and the two facts above.
IInv ==
  /\ TypeOK
  /\ CurrentIsTheRunningRoutine
  /\ FinishedIsTransient
  /\ CallMatchesStack
  /\ KilledRoutineEnds

-----------------------------------------------------------------------------
\* The initial state, an empty ordinator, satisfies the inductive invariant.
LEMMA InitInvariant == Init => IInv
<1> SUFFICES ASSUME Init PROVE IInv
  OBVIOUS
<1> USE DEF Init
<1>1. TypeOK
  BY DEF TypeOK, Routine, Calls, Results
<1>2. CurrentIsTheRunningRoutine /\ FinishedIsTransient
  BY DEF CurrentIsTheRunningRoutine, FinishedIsTransient
<1>3. CallMatchesStack /\ KilledRoutineEnds
  BY DEF CallMatchesStack, KilledRoutineEnds, NoCall
<1>4. QED
  BY <1>1, <1>2, <1>3 DEF IInv

\* Every step of the ordinator keeps the inductive invariant.
LEMMA StepInvariant == IInv /\ [Next]_vars => IInv'
<1> SUFFICES ASSUME IInv, [Next]_vars PROVE IInv'
  OBVIOUS
<1> USE IdsAssumption, ExceptionsAssumption
       DEF IInv, Main, Thrown
<1>1. ASSUME NEW id \in Ids, Create(id) PROVE IInv'
  <2>1. TypeOK'
    BY <1>1 DEF Create, Insert, TypeOK, Routine, NewRoutine
  <2>2. CurrentIsTheRunningRoutine' /\ FinishedIsTransient'
    BY <1>1 DEF Create, Insert, NewRoutine, MainIdle, BodyRuns, TypeOK,
                CurrentIsTheRunningRoutine, FinishedIsTransient
  <2>3. CallMatchesStack' /\ KilledRoutineEnds'
    BY <1>1 DEF Create, Insert, CallMatchesStack, KilledRoutineEnds, NoCall
  <2>4. QED
    BY <2>1, <2>2, <2>3
<1>2. ASSUME NEW id \in Ids \union {Main}, ResumeRejected(id) PROVE IInv'
  BY <1>2 DEF ResumeRejected, Return, Results, TypeOK, CurrentIsTheRunningRoutine,
              FinishedIsTransient, CallMatchesStack, KilledRoutineEnds
<1>3. ASSUME NEW id \in Ids, Resume(id) PROVE IInv'
  <2>1. TypeOK'
    BY <1>3 DEF Resume, SwitchTo, Return, Results, Calls, TypeOK, Routine
  <2>2. CurrentIsTheRunningRoutine' /\ FinishedIsTransient'
    BY <1>3 DEF Resume, SwitchTo, MainIdle, NoCall, TypeOK,
                CurrentIsTheRunningRoutine, FinishedIsTransient
  <2>3. CallMatchesStack' /\ KilledRoutineEnds'
    BY <1>3 DEF Resume, SwitchTo, MainIdle, NoCall, CallMatchesStack,
                KilledRoutineEnds
  <2>4. QED
    BY <2>1, <2>2, <2>3
<1>4. ASSUME NEW id \in Ids \union {Main}, NEW ex \in Exceptions \union {NoEx},
             KillRejected(id, ex)
      PROVE  IInv'
  BY <1>4 DEF KillRejected, Return, Results, TypeOK, CurrentIsTheRunningRoutine,
              FinishedIsTransient, CallMatchesStack, KilledRoutineEnds
<1>5. ASSUME NEW id \in Ids, NEW ex \in Exceptions, Kill(id, ex) PROVE IInv'
  <2>1. TypeOK'
    BY <1>5 DEF Kill, SwitchTo, Return, Results, Calls, TypeOK, Routine
  <2>2. CurrentIsTheRunningRoutine' /\ FinishedIsTransient'
    BY <1>5 DEF Kill, SwitchTo, MainIdle, NoCall, TypeOK, Routine,
                CurrentIsTheRunningRoutine, FinishedIsTransient
  <2>3. CallMatchesStack' /\ KilledRoutineEnds'
    BY <1>5 DEF Kill, SwitchTo, MainIdle, NoCall, TypeOK, Routine,
                CallMatchesStack, KilledRoutineEnds
  <2>4. QED
    BY <2>1, <2>2, <2>3
<1>6. ASSUME ReturnToMain PROVE IInv'
  <2> DEFINE id == call.id
  <2>1. id \in Ids /\ id \in DOMAIN routines /\ call.op \in {"resume", "kill"}
    BY <1>6 DEF ReturnToMain, CallMatchesStack, TypeOK, Calls
  <2>2. TypeOK'
    BY <1>6, <2>1 DEF ReturnToMain, Return, Results, Restrict, TypeOK, Routine, Calls
  <2>3. CurrentIsTheRunningRoutine' /\ FinishedIsTransient'
    BY <1>6, <2>1 DEF ReturnToMain, Restrict, CurrentIsTheRunningRoutine,
                      FinishedIsTransient
  <2>4. CallMatchesStack' /\ KilledRoutineEnds'
    BY <1>6 DEF ReturnToMain, NoCall, CallMatchesStack, KilledRoutineEnds
  <2>5. QED
    BY <2>2, <2>3, <2>4
<1>7. ASSUME YieldOnMain PROVE IInv'
  BY <1>7 DEF YieldOnMain, Return, Results, TypeOK, CurrentIsTheRunningRoutine,
              FinishedIsTransient, CallMatchesStack, KilledRoutineEnds
<1>8. ASSUME Yield PROVE IInv'
  <2>1. TypeOK'
    BY <1>8 DEF Yield, TypeOK, Routine
  <2>2. CurrentIsTheRunningRoutine' /\ FinishedIsTransient'
    BY <1>8 DEF Yield, BodyRuns, TypeOK, Routine,
                CurrentIsTheRunningRoutine, FinishedIsTransient
  <2>3. CallMatchesStack' /\ KilledRoutineEnds'
    BY <1>8 DEF Yield, BodyRuns, TypeOK, Routine, CurrentIsTheRunningRoutine,
                CallMatchesStack, KilledRoutineEnds
  <2>4. QED
    BY <2>1, <2>2, <2>3
<1>9. ASSUME NEW ex \in Exceptions, Throw(ex) PROVE IInv'
  BY <1>9 DEF Throw, TypeOK, CurrentIsTheRunningRoutine, FinishedIsTransient,
              CallMatchesStack, KilledRoutineEnds
<1>10. ASSUME Catch PROVE IInv'
  BY <1>10 DEF Catch, TypeOK, CurrentIsTheRunningRoutine, FinishedIsTransient,
               CallMatchesStack, KilledRoutineEnds
<1>11. ASSUME Finish PROVE IInv'
  <2>1. running \in DOMAIN routines /\ call.id = running
    BY <1>11 DEF Finish, CallMatchesStack
  <2>2. TypeOK'
    BY <1>11, <2>1 DEF Finish, TypeOK, Routine
  <2>3. CurrentIsTheRunningRoutine' /\ FinishedIsTransient'
    BY <1>11, <2>1 DEF Finish, TypeOK, Routine, CurrentIsTheRunningRoutine,
                       FinishedIsTransient
  <2>4. CallMatchesStack' /\ KilledRoutineEnds'
    BY <1>11, <2>1 DEF Finish, TypeOK, Routine, CallMatchesStack, KilledRoutineEnds
  <2>5. QED
    BY <2>2, <2>3, <2>4
<1>12. CASE UNCHANGED vars
  BY <1>12 DEF vars, TypeOK, CurrentIsTheRunningRoutine, FinishedIsTransient,
               CallMatchesStack, KilledRoutineEnds
<1>13. QED
  BY <1>1, <1>2, <1>3, <1>4, <1>5, <1>6, <1>7, <1>8, <1>9, <1>10, <1>11, <1>12
     DEF Next, MainStep, RoutineStep

\* The invariant holds in every reachable state of the ordinator.
THEOREM Invariance == Spec => []IInv
<1>1. QED
  BY InitInvariant, StepInvariant, PTL DEF Spec

\* The state keeps its types.
THEOREM TypeCorrect == Spec => []TypeOK
<1>1. IInv => TypeOK
  BY DEF IInv
<1>2. QED
  BY <1>1, Invariance, PTL

\* `current' names the executing routine or nobody, for any set of ids.
THEOREM CurrentIsTheRunningRoutineHolds == Spec => []CurrentIsTheRunningRoutine
<1>1. IInv => CurrentIsTheRunningRoutine
  BY DEF IInv
<1>2. QED
  BY <1>1, Invariance, PTL

\* No finished routine is left in the table when a caller can reach it.
THEOREM FinishedIsTransientHolds == Spec => []FinishedIsTransient
<1>1. IInv => FinishedIsTransient
  BY DEF IInv
<1>2. QED
  BY <1>1, Invariance, PTL

-----------------------------------------------------------------------------
\* One step that ends a kill leaves by an exception, the routine gone.
LEMMA KillStep ==
  ASSUME IInv, [Next]_vars, call.op = "kill", call' = NoCall
  PROVE  call.id \notin DOMAIN routines' /\ result'.value \in Thrown
<1>1. call # NoCall /\ call' # call
  BY DEF NoCall
<1>2. ReturnToMain
  <2>1. CASE Next
    <3>1. ASSUME MainIdle PROVE FALSE
      BY <1>1, <3>1 DEF MainIdle
    <3>2. QED
      BY <2>1, <1>1, <3>1
         DEF Next, MainStep, RoutineStep, Create, ResumeRejected, Resume,
             KillRejected, Kill, YieldOnMain, Yield, Throw, Catch, Finish
  <2>2. QED
    BY <2>1, <1>1 DEF vars
<1>3. /\ call.id \in DOMAIN routines
      /\ routines[call.id].finished
      /\ routines[call.id].exception \in Thrown
  BY <1>1, <1>2 DEF ReturnToMain, IInv, CallMatchesStack, KilledRoutineEnds,
                    TypeOK, Routine
<1>4. QED
  BY <1>2, <1>3, ExceptionsAssumption
     DEF ReturnToMain, Restrict, Return, Thrown, IInv, TypeOK, Routine

\* A kill always ends its routine and leaves by an exception: the "Resume had
\* to throw exception, but didn't" of kill needs a failed swapcontext.
THEOREM KillEndsTheRoutineHolds == Spec => KillEndsTheRoutine
<1>1. IInv /\ [Next]_vars =>
        [call.op = "kill" /\ call' = NoCall =>
           call.id \notin DOMAIN routines' /\ result'.value \in Thrown]_vars
  BY KillStep
<1>2. QED
  BY <1>1, Invariance, PTL DEF Spec, KillEndsTheRoutine

-----------------------------------------------------------------------------
\* The stacks in the table and in the queue are at most one per id.
LEMMA StackBoundStep == IInv /\ StackBound /\ [Next]_vars => StackBound'
<1> SUFFICES ASSUME IInv, StackBound, [Next]_vars PROVE StackBound'
  OBVIOUS
<1>1. /\ IsFiniteSet(DOMAIN routines)
      /\ Cardinality(DOMAIN routines) \in Nat
      /\ Cardinality(Ids) \in Nat
      /\ finished \in Nat
  BY IdsAssumption, FS_Subset, FS_CardinalityType DEF IInv, TypeOK
<1>2. ASSUME NEW id \in Ids, Create(id) PROVE StackBound'
  <2>1. DOMAIN routines' = DOMAIN routines \union {id}
    BY <1>2 DEF Create, Insert
  <2> Cardinality(DOMAIN routines') \in Nat
    BY <1>1, <2>1, FS_AddElement, FS_CardinalityType
  <2>2. CASE finished = 0
    <3>1. Cardinality(DOMAIN routines') <= Cardinality(Ids)
      BY <2>1, IdsAssumption, FS_Subset DEF IInv, TypeOK
    <3>2. QED
      BY <1>2, <1>1, <2>2, <3>1 DEF Create, StackBound
  <2>3. CASE finished # 0
    <3>1. Cardinality(DOMAIN routines') <= Cardinality(DOMAIN routines) + 1
      BY <1>1, <2>1, FS_AddElement
    <3>2. QED
      BY <1>2, <1>1, <2>3, <3>1 DEF Create, StackBound
  <2>4. QED
    BY <2>2, <2>3
<1>3. ASSUME ReturnToMain PROVE StackBound'
  <2>1. CASE routines[call.id].finished
    <3>1. call.id \in DOMAIN routines
      BY <1>3 DEF ReturnToMain, IInv, CallMatchesStack
    <3>2. DOMAIN routines' = DOMAIN routines \ {call.id}
      BY <1>3, <2>1 DEF ReturnToMain, Restrict
    <3>3. Cardinality(DOMAIN routines') = Cardinality(DOMAIN routines) - 1
      BY <1>1, <3>1, <3>2, FS_RemoveElement
    <3>4. QED
      BY <1>3, <1>1, <2>1, <3>3 DEF ReturnToMain, StackBound
  <2>2. CASE ~routines[call.id].finished
    BY <1>3, <2>2 DEF ReturnToMain, StackBound
  <2>3. QED
    BY <2>1, <2>2
<1>4. ASSUME UNCHANGED finished, DOMAIN routines' = DOMAIN routines
      PROVE  StackBound'
  BY <1>4 DEF StackBound
<1>5. QED
  BY <1>2, <1>3, <1>4
     DEF Next, MainStep, RoutineStep, ResumeRejected, Resume, KillRejected, Kill,
         YieldOnMain, Yield, Throw, Catch, Finish, vars

\* Reusing the nodes of finished routines keeps the allocated stacks within
\* one per id, whatever the sequence of calls.
THEOREM StackBoundHolds == Spec => []StackBound
<1>1. Init => StackBound
  <2>1. ASSUME Init PROVE DOMAIN routines = {} /\ finished = 0
    BY <2>1 DEF Init
  <2>2. QED
    BY <2>1, IdsAssumption, FS_EmptySet, FS_CardinalityType DEF StackBound
<1>2. QED
  BY <1>1, StackBoundStep, Invariance, PTL DEF Spec

-----------------------------------------------------------------------------
\* One step keeps every live routine in the table and its saved point of
\* execution inside yield once it is there.
LEMMA LiveRoutineStep ==
  ASSUME IInv, [Next]_vars, NEW id \in DOMAIN routines
  PROVE  /\ id \notin DOMAIN routines' => routines[id].finished
         /\ id \in DOMAIN routines' /\ routines[id].ctx = "yield"
              => routines'[id].ctx = "yield"
<1> USE DEF IInv, TypeOK
<1>1. ASSUME NEW i \in Ids, Create(i) PROVE routines'[id] = routines[id]
                                         /\ id \in DOMAIN routines'
  BY <1>1 DEF Create, Insert
<1>2. CASE UNCHANGED routines
  BY <1>2
<1>3. ASSUME NEW i \in Ids, NEW ex \in Exceptions, Kill(i, ex)
      PROVE  routines'[id].ctx = routines[id].ctx /\ id \in DOMAIN routines'
  BY <1>3 DEF Kill, Routine
<1>4. CASE ReturnToMain
  BY <1>4 DEF ReturnToMain, Restrict
<1>5. CASE Yield
  BY <1>5 DEF Yield, Routine
<1>6. CASE Finish
  BY <1>6 DEF Finish, Routine
<1>7. QED
  BY <1>1, <1>2, <1>3, <1>4, <1>5, <1>6
     DEF Next, MainStep, RoutineStep, ResumeRejected, Resume, KillRejected,
         YieldOnMain, Throw, Catch, vars

\* Creating a routine with an id in use never restarts or evicts the routine
\* that has it.
THEOREM LiveRoutineIsKeptHolds == Spec => LiveRoutineIsKept
<1>1. IInv /\ [Next]_vars =>
        [\A id \in DOMAIN routines :
           /\ id \notin DOMAIN routines' => routines[id].finished
           /\ id \in DOMAIN routines' /\ routines[id].ctx = "yield"
                => routines'[id].ctx = "yield"]_vars
  BY LiveRoutineStep
<1>2. QED
  BY <1>1, Invariance, PTL DEF Spec, LiveRoutineIsKept

-----------------------------------------------------------------------------
(* The ordinator implements the abstract life cycle of its routines. *)

\* The empty ordinator: every routine absent, none doomed.
LEMMA LifecycleInit == Init => Lifecycle!Init
<1> SUFFICES ASSUME Init PROVE Lifecycle!Init
  OBVIOUS
<1>1. DOMAIN routines = {}
  BY DEF Init
<1>2. QED
  BY <1>1 DEF Lifecycle!Init, Status, Doomed

\* The status of each routine after a step that leaves the table and the
\* executing stack alone.
LEMMA LifecycleStutter ==
  ASSUME UNCHANGED <<routines, running>>
  PROVE  UNCHANGED Lifecycle!vars
  BY DEF Lifecycle!vars, Status, Doomed

\* On the main stack no routine has the status running.
LEMMA IdleMeansNobodyRuns ==
  ASSUME running = Main
  PROVE  Lifecycle!NobodyRuns
  BY IdsAssumption DEF Lifecycle!NobodyRuns, Status, Main

\* Every step of the ordinator is a step of the life cycle or changes nothing
\* a caller sees.
LEMMA LifecycleStep == IInv /\ [Next]_vars => [Lifecycle!Next]_(Lifecycle!vars)
<1> SUFFICES ASSUME IInv, [Next]_vars
             PROVE  Lifecycle!Next \/ UNCHANGED Lifecycle!vars
  OBVIOUS
<1> DEFINE status == [id \in Ids |-> Status(id)]
<1> USE IdsAssumption, ExceptionsAssumption DEF IInv, TypeOK, Main
<1>1. ASSUME NEW id \in Ids, Create(id)
      PROVE  Lifecycle!Next \/ UNCHANGED Lifecycle!vars
  <2>1. CASE id \in DOMAIN routines
    <3>1. routines' = routines /\ running' = running
      BY <1>1, <2>1 DEF Create, Insert
    <3>2. QED
      BY <3>1, LifecycleStutter
  <2>2. CASE id \notin DOMAIN routines
    <3>1. status[id] = "absent" /\ id # running
      BY <2>2 DEF Status, CallMatchesStack
    <3>2. status' = [status EXCEPT ![id] = "ready"]
      BY <1>1, <2>2, <3>1 DEF Create, Insert, NewRoutine, Status
    <3>3. Doomed' = Doomed
      BY <1>1, <2>2 DEF Create, Insert, NewRoutine, Doomed
    <3>4. Lifecycle!Create(id)
      BY <3>1, <3>2, <3>3 DEF Lifecycle!Create
    <3>5. QED
      BY <3>4 DEF Lifecycle!Next
  <2>3. QED
    BY <2>1, <2>2
<1>2. ASSUME NEW id \in Ids, Resume(id)
      PROVE  Lifecycle!Next \/ UNCHANGED Lifecycle!vars
  <2>1. CASE running' = running
    BY <1>2, <2>1, LifecycleStutter DEF Resume
  <2>2. CASE running' # running
    <3>1. running = Main /\ running' = id /\ routines' = routines
      BY <1>2, <2>2 DEF Resume, SwitchTo, MainIdle
    <3>2. status[id] = "ready" /\ status' = [status EXCEPT ![id] = "running"]
      BY <1>2, <3>1 DEF Resume, Status
    <3>3. Doomed' = Doomed
      BY <3>1 DEF Doomed
    <3>4. Lifecycle!Resume(id)
      BY <3>1, <3>2, <3>3, IdleMeansNobodyRuns DEF Lifecycle!Resume
    <3>5. QED
      BY <3>4 DEF Lifecycle!Next
  <2>3. QED
    BY <2>1, <2>2
<1>3. ASSUME NEW id \in Ids, NEW ex \in Exceptions, Kill(id, ex)
      PROVE  Lifecycle!Next \/ UNCHANGED Lifecycle!vars
  <2>1. /\ id \in DOMAIN routines
        /\ routines' = [routines EXCEPT ![id].exception = ex]
        /\ running = Main
        /\ running' \in {Main, id}
    BY <1>3 DEF Kill, SwitchTo, MainIdle
  <2>2. ~routines[id].finished
    BY <1>3, <2>1 DEF Kill, MainIdle, NoCall, FinishedIsTransient
  <2>3. /\ \A i \in DOMAIN routines : routines'[i].finished = routines[i].finished
        /\ \A i \in DOMAIN routines \ {id} :
             routines'[i].exception = routines[i].exception
        /\ routines'[id].exception = ex
        /\ DOMAIN routines' = DOMAIN routines
    BY <2>1 DEF Routine
  <2>4. status[id] = "ready"
    BY <2>1, <2>2 DEF Status
  <2>5. Doomed' = Doomed \union {id}
    BY <2>1, <2>2, <2>3 DEF Doomed
  <2>6. status' \in {status, [status EXCEPT ![id] = "running"]}
    <3>1. CASE running' = Main
      BY <2>1, <2>3, <3>1 DEF Status
    <3>2. CASE running' = id
      BY <2>1, <2>2, <2>3, <3>2 DEF Status
    <3>3. QED
      BY <2>1, <3>1, <3>2
  <2>7. Lifecycle!Kill(id)
    BY <2>1, <2>4, <2>5, <2>6, IdleMeansNobodyRuns DEF Lifecycle!Kill
  <2>8. QED
    BY <2>7 DEF Lifecycle!Next
<1>4. ASSUME ReturnToMain
      PROVE  UNCHANGED Lifecycle!vars
  <2>1. CASE UNCHANGED routines
    BY <1>4, <2>1, LifecycleStutter DEF ReturnToMain
  <2>2. CASE routines[call.id].finished
    <3>1. /\ routines' = Restrict(routines, DOMAIN routines \ {call.id})
          /\ running = Main /\ running' = Main
      BY <1>4, <2>2 DEF ReturnToMain
    <3>2. status' = status
      BY <2>2, <3>1 DEF Restrict, Status
    <3>3. Doomed' = Doomed
      BY <2>2, <3>1 DEF Restrict, Doomed
    <3>4. QED
      BY <3>2, <3>3 DEF Lifecycle!vars
  <2>3. QED
    BY <1>4, <2>1, <2>2 DEF ReturnToMain
<1>5. ASSUME Yield
      PROVE  Lifecycle!Next \/ UNCHANGED Lifecycle!vars
  <2>1. CASE UNCHANGED <<routines, running>>
    BY <2>1, LifecycleStutter
  <2>2. CASE ~UNCHANGED <<routines, running>>
    <3>1. /\ running # Main /\ running' = Main
          /\ current = running
          /\ running \in DOMAIN routines
          /\ routines[running].exception = NoEx
          /\ routines' = [routines EXCEPT ![running].ctx = "yield"]
      BY <1>5, <2>2 DEF Yield, BodyRuns, CurrentIsTheRunningRoutine
    <3>2. ~routines[running].finished
      BY <3>1 DEF FinishedIsTransient
    <3>3. /\ DOMAIN routines' = DOMAIN routines
          /\ \A i \in DOMAIN routines :
               /\ routines'[i].finished = routines[i].finished
               /\ routines'[i].exception = routines[i].exception
      BY <3>1 DEF Routine
    <3>4. running \in Ids /\ status[running] = "running" /\ running \notin Doomed
      BY <3>1, <3>2 DEF Status, Doomed
    <3>5. status' = [status EXCEPT ![running] = "ready"]
      BY <3>1, <3>2, <3>3, <3>4 DEF Status
    <3>6. Doomed' = Doomed
      BY <3>3 DEF Doomed
    <3>7. Lifecycle!Suspend(running)
      BY <3>4, <3>5, <3>6 DEF Lifecycle!Suspend
    <3>8. QED
      BY <3>4, <3>7 DEF Lifecycle!Next
  <2>3. QED
    BY <2>1, <2>2
<1>6. ASSUME Finish
      PROVE  Lifecycle!Next \/ UNCHANGED Lifecycle!vars
  <2>1. /\ running # Main /\ running' = Main
        /\ running \in DOMAIN routines
        /\ ~routines[running].finished
    BY <1>6 DEF Finish, CallMatchesStack, FinishedIsTransient
  <2>2. /\ DOMAIN routines' = DOMAIN routines
        /\ routines'[running].finished
        /\ \A i \in DOMAIN routines \ {running} : routines'[i] = routines[i]
    BY <1>6, <2>1 DEF Finish, Routine
  <2>3. running \in Ids /\ status[running] = "running"
    BY <2>1 DEF Status
  <2>4. status' = [status EXCEPT ![running] = "absent"]
    BY <2>1, <2>2, <2>3 DEF Status
  <2>5. Doomed' = Doomed \ {running}
    BY <2>1, <2>2 DEF Doomed
  <2>6. Lifecycle!End(running)
    BY <2>3, <2>4, <2>5 DEF Lifecycle!End
  <2>7. QED
    BY <2>3, <2>6 DEF Lifecycle!Next
<1>7. CASE UNCHANGED <<routines, running>>
  BY <1>7, LifecycleStutter
<1>8. QED
  BY <1>1, <1>2, <1>3, <1>4, <1>5, <1>6, <1>7
     DEF Next, MainStep, RoutineStep, ResumeRejected, KillRejected, YieldOnMain,
         Throw, Catch, vars

\* The ordinator, with its single `current' variable, its reused nodes and
\* its exception slot, keeps the promise RoutineLifecycle states.
THEOREM Refinement == Spec => ImplementsLifecycle
<1>1. QED
  BY LifecycleInit, LifecycleStep, Invariance, PTL
     DEF Spec, ImplementsLifecycle, Lifecycle!Spec
=============================================================================
