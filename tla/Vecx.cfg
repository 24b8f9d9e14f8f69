SPECIFICATION Spec
CONSTANTS
    Value = {a, b, c}
    MaxLen = 5
SYMMETRY Symmetry
INVARIANTS
    TypeOK
    AtMostOneLost
PROPERTIES
    ImplementsSeq
