SPECIFICATION Spec
CONSTANTS
    v0 = v0
    v1 = v1
    NoManifest = NoManifest
    Marker = Marker
    Requests = {r1, r2, r3}
    Legacy <- TwoLegacy
    Layouts <- SpreadOut
    Mixes <- EveryPair
    MaxReseals = 2
    Faults = TRUE
CHECK_DEADLOCK FALSE
INVARIANTS TypeOK ReadableUnlessOverwritten AdvancedMeansLocal
SYMMETRY RequestSymmetry
