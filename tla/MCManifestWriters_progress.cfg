SPECIFICATION FairSpec
CONSTANTS
    v0 = v0
    v1 = v1
    NoManifest = NoManifest
    Marker = Marker
    Requests = {r1, r2}
    Legacy <- TwoLegacy
    Layouts <- SpreadOut
    Mixes <- WorkerMixes
    MaxReseals = 3
    Faults = FALSE
CHECK_DEADLOCK FALSE
PROPERTIES MigrationCompletes FleetConvergesOnV1
