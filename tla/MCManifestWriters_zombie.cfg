SPECIFICATION Spec
CONSTANTS
    v0 = v0
    v1 = v1
    NoManifest = NoManifest
    Marker = Marker
    Requests = {r1}
    Legacy <- OneLegacy
    Layouts <- OnSource
    Mixes <- DeleteRebalance
    MaxReseals = 0
    Faults = FALSE
CHECK_DEADLOCK FALSE
INVARIANT ManifestReadable
