----------------------------- MODULE MCShmemMap -----------------------------
(***************************************************************************)
(* ShmemMap for TLC.  Some keys and values are strings with a buffer of    *)
(* their own.  `part' says who calls: two processes that use numbers only, *)
(* twice each, or one process that uses strings as well, and the other     *)
(* never calls.  "any" has no such bound.                                  *)
(***************************************************************************)
EXTENDS ShmemMap

CONSTANTS p1, p2, k1, k2, k3, v1, v2, v3,
  Kinds  (* the values of `part' *)

VARIABLE part

HasString(o) == o.key \in BigKeys \/ (o.kind = "insert" /\ o.value \in BigValues)
HasThird(o) == o.key = k3 \/ (o.kind = "insert" /\ o.value = v3)

MayCall(p, o) ==
  /\ part = "numbers" => ~HasString(o) /\ calls[p] < 2
  /\ part = "strings" => ~HasThird(o) /\ p = p1

PartInit == Init /\ part \in Kinds
PartNext ==
  /\ \E p \in Procs :
       (\E o \in Ops : MayCall(p, o) /\ Call(p, o)) \/ Step(p) \/ Die(p)
  /\ UNCHANGED part

Parts ==
  PartInit /\ [][PartNext]_<<vars, part>> /\ \A p \in Procs : WF_vars(Step(p) /\ UNCHANGED part)
=============================================================================
