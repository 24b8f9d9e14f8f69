SPECIFICATION Spec
CONSTANTS
    Value = {a, b, c}
    MaxLen = 5
SYMMETRY Symmetry
PROPERTIES
    AssignmentKept
