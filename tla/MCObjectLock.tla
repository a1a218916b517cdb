---------------------------- MODULE MCObjectLock ----------------------------
(* Object Lock on small instances. Requests are interchangeable, and none   *)
(* of the properties checked with the symmetry is a liveness property.      *)
EXTENDS ObjectLock, TLC

Symmetry == Permutations(Requests)
=============================================================================
