SPECIFICATION Spec
CONSTANTS
    Requests = {r1, r2, r3, r4, r5}
    Keys = {k1}
    Hashes = {h1}
    NoHash = NoHash
    NoRow = NoRow
    Regimes <- Undisturbed
SYMMETRY RequestSymmetry
INVARIANTS
    NoZombieManifest
CHECK_DEADLOCK FALSE
