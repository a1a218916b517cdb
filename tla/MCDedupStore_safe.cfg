SPECIFICATION Spec
CONSTANTS
    Requests = {r1, r2, r3, r4, r5}
    Keys = {k1}
    Hashes = {h1}
    NoHash = NoHash
    NoRow = NoRow
    Regimes <- AnyMishap
SYMMETRY RequestSymmetry
INVARIANTS
    TypeOK
    RowPieceStored
    PlainManifestStored
    RefsCoverReferences
    NoStrandedRow
CHECK_DEADLOCK FALSE
