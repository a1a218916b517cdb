SPECIFICATION GCSpec
CONSTANTS
    Requests = {r1, r2}
    Keys = {k1}
    Hashes = {h1}
    NoHash = NoHash
    NoRow = NoRow
    Regimes <- Undisturbed
SYMMETRY RequestSymmetry
INVARIANTS
    DeletedPieceIsUnreferenced
