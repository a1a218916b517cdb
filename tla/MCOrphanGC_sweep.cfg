SPECIFICATION FairGCSpec
CONSTANTS
    Requests = {r1, r2, r3}
    Keys = {k1}
    Hashes = {h1}
    NoHash = NoHash
    NoRow = NoRow
    Regimes <- BackendKinds
INVARIANTS
    GCTypeOK
    SweepSparesPlainObjects
PROPERTIES
    LeakedRowsDrain
