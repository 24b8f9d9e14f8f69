SPECIFICATION Spec
CONSTANTS
    Key = {k1}
    Value = {x}
    NULL = NULL
    BrName = {master, b1}
    VerName = {v0, v1, v2}
    MASTER = master
    USIZE_MAX = 2
    MaxBrId = 2
    MaxVerId = 2
CONSTRAINT FewIds
SYMMETRY Symmetry
INVARIANTS
    NamesConsistent
    VersionsKnown
    SharedHistory
PROPERTIES
    CompactKeepsHeads
    PruneReserves
    MergeCatchesUp
    ImplementsSnapshots
