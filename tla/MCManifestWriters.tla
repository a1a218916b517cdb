-------------------------- MODULE MCManifestWriters --------------------------
(* Instances of ManifestWriters for TLC.                                   *)
EXTENDS ManifestWriters, TLC

CONSTANTS v0, v1

OneLegacy == <<v0>>
TwoLegacy == <<v0, v1>>

OnSource == {[v \in Range(Legacy) |-> <<"source">>]}

\* The older legacy object has one piece, on the source.  The newer one, the
\* latest, has one too, or two there, or one of two on a third backend.
SpreadOut ==
    {[v \in Range(Legacy) |-> IF v = v1 THEN l ELSE <<"source">>] :
        l \in {<<"source">>, <<"source", "source">>, <<"source", "other">>}}

\* Mixes in which every two operations meet.  (All of them at once are out
\* of reach.)
EveryPair ==
    {{"put", "mark", "amend", "get", "cutover", "rebalance"},
     {"put", "mark", "delete", "amend"},
     {"put", "mark", "delete", "aad"},
     {"delete", "get", "cutover", "rebalance"},
     {"amend", "aad"},
     {"cutover", "rebalance", "aad"},
     {"cutover", "get", "aad"}}

\* The mixes with a worker in which nothing undoes its work for good.
WorkerMixes ==
    {{"put", "amend", "get", "cutover", "rebalance"}, {"put", "delete", "aad"}}

DeleteRebalance == {{"delete", "cutover", "rebalance"}}

RequestSymmetry == Permutations(Requests)
=============================================================================
