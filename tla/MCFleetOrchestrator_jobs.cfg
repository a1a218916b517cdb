SPECIFICATION Spec
CONSTANTS
    Nodes = {n1, n2, n3}
    Jobs = {1, 2}
    c1 = c1
    Cells = {c1}
    CellOf <- OneCell
    Limit <- OneAtATime
    NoNode = NoNode
    Regimes <- AllRegimes
SYMMETRY Symmetry
INVARIANTS
    TypeOK
    OneRunner
    NodeWithinLimit
    RunningHasWorker
PROPERTY TerminalIsFinal
