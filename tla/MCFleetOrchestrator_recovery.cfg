SPECIFICATION FairSpec
CONSTANTS
    Nodes = {n1, n2}
    Jobs = {1, 2}
    c1 = c1
    Cells = {c1}
    CellOf <- OneCell
    Limit <- OneAtATime
    NoNode = NoNode
    Regimes <- CrashRegime
PROPERTIES
    LapsedClaimRecovered
