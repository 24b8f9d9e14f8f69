SPECIFICATION CrashSpec
CONSTANTS
    Thread = {t1}
    Key = {1, 2}
    Engine = "rocks"
    NoThread = NoThread
    U64_MAX = 2
    FIRST_BYTE = 4
    DATA_SET_NUM = 2
    RESERVED_ID_CNT = 1
    MaxId = 2
INVARIANTS
    TypeOK
    LastIsGreatest
