------------------------------ MODULE SharedMap ------------------------------
(***************************************************************************)
(* What shmem::Map (hw-5) promises the processes that share it: each call   *)
(* takes effect at one moment between its invocation and its return, as on  *)
(* a std::map, or fails with bad_alloc and changes nothing.  What at        *)
(* returns is a reference: its caller reads the value later, and reads      *)
(* anything if the key was erased in between.                               *)
(***************************************************************************)
EXTENDS Functions

CONSTANTS Procs, Keys, Values

VARIABLES
  contents,  (* the map: a function from some of Keys to Values *)
  call       (* [Procs -> the call a process is in, or None] *)

vars == <<contents, call>>

None == [kind |-> "none"]
Pending == [is |-> "pending"]
Reference == [is |-> "reference"]
Dangling == [is |-> "dangling"]

Ops == [kind: {"insert"}, key: Keys, value: Values]
         \union [kind: {"at", "erase"}, key: Keys]

Put(k, v) == [x \in DOMAIN contents \union {k} |-> IF x = k THEN v ELSE contents[x]]

Init == contents = [k \in {} |-> Values] /\ call = [p \in Procs |-> None]

Invoke(p, op) ==
  /\ call[p] = None
  /\ call' = [call EXCEPT ![p] = [kind |-> "call", op |-> op, result |-> Pending]]
  /\ UNCHANGED contents

IsPending(p, kind) ==
  call[p] # None /\ call[p].result = Pending /\ call[p].op.kind = kind

Take(p, result) == call' = [call EXCEPT ![p].result = result]

Insert(p) ==
  /\ IsPending(p, "insert")
  /\ contents' = Put(call[p].op.key, call[p].op.value)
  /\ Take(p, [is |-> "done"])

At(p) ==
  /\ IsPending(p, "at")
  /\ Take(p, IF call[p].op.key \in DOMAIN contents THEN Reference ELSE [is |-> "out_of_range"])
  /\ UNCHANGED contents

Refers(q, key) == call[q] # None /\ call[q].result = Reference /\ call[q].op.key = key

Erase(p) ==
  LET key == call[p].op.key
      erased == [is |-> "erased", found |-> key \in DOMAIN contents]
  IN /\ IsPending(p, "erase")
     /\ contents' = Restrict(contents, DOMAIN contents \ {key})
     /\ call' = [q \in Procs |->
          IF q = p THEN [call[q] EXCEPT !.result = erased]
          ELSE IF Refers(q, key) THEN [call[q] EXCEPT !.result = Dangling] ELSE call[q]]

\* The caller of at reads the reference.
Read(p) ==
  /\ call[p] # None
  /\ \E v \in Values :
       /\ \/ call[p].result = Reference /\ v = contents[call[p].op.key]
          \/ call[p].result = Dangling
       /\ Take(p, [is |-> "value", value |-> v])
  /\ UNCHANGED contents

BadAlloc(p) ==
  /\ \E kind \in {"insert", "at", "erase"} : IsPending(p, kind)
  /\ Take(p, [is |-> "bad_alloc"])
  /\ UNCHANGED contents

Return(p) ==
  /\ call[p] # None /\ call[p].result \notin {Pending, Reference, Dangling}
  /\ call' = [call EXCEPT ![p] = None]
  /\ UNCHANGED contents

Next ==
  \E p \in Procs :
    \/ \E op \in Ops : Invoke(p, op)
    \/ Insert(p) \/ At(p) \/ Erase(p) \/ BadAlloc(p)
    \/ Read(p) \/ Return(p)

Spec == Init /\ [][Next]_vars
=============================================================================
