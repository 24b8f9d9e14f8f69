SPECIFICATION Spec
CONSTANTS
    Key <- MCKey
    KeyPrefix <- MCKeyPrefix
    key_size = 2
    Value = {x}
    NULL = NULL
    BrName = {master, b1}
    VerName = {v0, v1}
    MASTER = master
    USIZE_MAX = 1
    MaxBrId = 1
    MaxVerId = 1
INVARIANTS
    IterationSkipsDeleted
