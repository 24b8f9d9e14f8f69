SPECIFICATION Spec
CONSTANTS
    Thread = {t1, t2}
    Key = {1, 2}
    Engine = "rocks"
    NoThread = NoThread
    U64_MAX = 2
    FIRST_BYTE = 4
    DATA_SET_NUM = 2
    RESERVED_ID_CNT = 1
    MaxId = 2
SYMMETRY Symmetry
INVARIANTS
    LastIsGreatest
