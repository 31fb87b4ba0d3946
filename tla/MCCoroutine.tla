----------------------------- MODULE MCCoroutine -----------------------------
(***************************************************************************)
(* Coroutine for TLC: the exceptions are interchangeable, the ids too      *)
(* (routine_t 0 is not among them), but ids are numbers, so only the       *)
(* exceptions are declared symmetric.                                      *)
(***************************************************************************)
EXTENDS Coroutine, TLC

ExceptionSymmetry == Permutations(Exceptions)
=============================================================================
