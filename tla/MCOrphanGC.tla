----------------------------- MODULE MCOrphanGC -----------------------------
(* Small instances of OrphanGC for TLC.                                     *)
EXTENDS OrphanGC, TLC

(* Requests are interchangeable, and the sweep singles out none of them.    *)
RequestSymmetry == Permutations(Requests)

(* Everything goes wrong on an S3 backend; DELETEs are retried on one that  *)
(* answers an error for a missing piece.                                    *)
BackendKinds == {{"faults", "retries"}, {"retries", "strict"}}

Undisturbed == {{}}
=============================================================================
