SPECIFICATION Spec
CONSTANTS
    Requests = {r1, r2, r3}
    First = v0
    Shared = p0
    NoVersion = noVersion
    Absent = absent
    Marker = marker
    MaxTime = 1
    MaxDays = 1
SYMMETRY Symmetry
CHECK_DEADLOCK FALSE
PROPERTY CopyKeepsCompliance
