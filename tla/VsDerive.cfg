SPECIFICATION Spec
CONSTANTS
    BrName = {master, b1}
    VerName = {v0, v1}
    MASTER = master
    USIZE_MAX = 1
    Kinds <- MCKinds
    MaxBrId = 2
    MaxVerId = 1
CONSTRAINT InStep
SYMMETRY Symmetry
INVARIANTS
    TypeOK
    LikeOneValue
PROPERTIES
    AgreementKept
    FailureAtomic
