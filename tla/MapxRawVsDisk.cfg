SPECIFICATION DiskSpec
CONSTANTS
    Key = {k1}
    Value = {x}
    NULL = NULL
    BrName = {master, b1}
    VerName = {v0, v1, v2}
    MASTER = master
    USIZE_MAX = 2
    MaxBrId = 1
    MaxVerId = 2
CONSTRAINT Recovered
VIEW vars
SYMMETRY Symmetry
INVARIANTS
    TypeOK
    ChangeSetExact
PROPERTIES
    RestartRecovers
    OrphansStayOrphans
    WholeVersions
    CutStaysLocal
    WritesMakeTheStep
