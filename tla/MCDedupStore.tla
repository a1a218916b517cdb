---------------------------- MODULE MCDedupStore ----------------------------
(* Small instances of DedupStore for TLC.                                   *)
EXTENDS DedupStore, TLC

(* Requests are interchangeable: none is singled out by an action.          *)
RequestSymmetry == Permutations(Requests)

(* Calls may fail, and DELETEs may be retried while they run.               *)
AnyMishap == SUBSET {"faults", "retries"}

Undisturbed == {{}}
=============================================================================
