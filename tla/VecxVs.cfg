SPECIFICATION VecSpec
CONSTANTS
    Key = {0, 1}
    Value = {x}
    NULL = NULL
    BrName = {master, b1}
    VerName = {v0, v1, v2}
    MASTER = master
    USIZE_MAX = 1
    MaxBrId = 1
    MaxVerId = 2
SYMMETRY Symmetry
INVARIANTS
    Dense
PROPERTIES
    HistoryKept
