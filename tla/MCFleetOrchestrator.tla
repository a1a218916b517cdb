------------------------ MODULE MCFleetOrchestrator ------------------------
(* Small instances of FleetOrchestrator for TLC.                            *)
EXTENDS FleetOrchestrator, TLC

CONSTANT c1

OneCell == [j \in Jobs |-> c1]
OneAtATime == [c \in Cells |-> 1]

(* From the fleet where nothing goes wrong to the one where everything may. *)
AllRegimes == {{}, {"stall"}, {"crash", "fault"}, {"stall", "crash"}, Mishaps}

CrashRegime == {{"crash"}}

Symmetry == Permutations(Nodes)
=============================================================================
