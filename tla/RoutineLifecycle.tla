-------------------------- MODULE RoutineLifecycle --------------------------
(***************************************************************************)
(* What hw-6/Coroutine_lib promises to the code that uses it, with no      *)
(* mention of contexts, stacks, nodes or the `current' variable.           *)
(*                                                                         *)
(* A routine is absent, ready or running; at most one runs.  A running     *)
(* routine goes back to ready (yield) or is absent again (its function     *)
(* ended).  A routine that was killed is doomed: it may still be run, but  *)
(* once it runs it can only end.                                           *)
(***************************************************************************)
CONSTANT Ids

VARIABLES
  status,   (* [Ids -> {"absent", "ready", "running"}] *)
  doomed    (* the routines that were killed and have not ended yet *)

vars == <<status, doomed>>

NobodyRuns == \A id \in Ids : status[id] # "running"

Init ==
  /\ status = [id \in Ids |-> "absent"]
  /\ doomed = {}

Create(id) ==
  /\ status[id] = "absent"
  /\ status' = [status EXCEPT ![id] = "ready"]
  /\ UNCHANGED doomed

Resume(id) ==
  /\ NobodyRuns
  /\ status[id] = "ready"
  /\ status' = [status EXCEPT ![id] = "running"]
  /\ UNCHANGED doomed

\* A kill marks the routine whether or not the switch to it succeeds.
Kill(id) ==
  /\ NobodyRuns
  /\ status[id] = "ready"
  /\ doomed' = doomed \union {id}
  /\ status' \in {status, [status EXCEPT ![id] = "running"]}

Suspend(id) ==
  /\ status[id] = "running"
  /\ id \notin doomed
  /\ status' = [status EXCEPT ![id] = "ready"]
  /\ UNCHANGED doomed

End(id) ==
  /\ status[id] = "running"
  /\ status' = [status EXCEPT ![id] = "absent"]
  /\ doomed' = doomed \ {id}

Next == \E id \in Ids :
  Create(id) \/ Resume(id) \/ Kill(id) \/ Suspend(id) \/ End(id)

Spec == Init /\ [][Next]_vars
=============================================================================
