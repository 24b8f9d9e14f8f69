SPECIFICATION Spec
CONSTANTS
    BYTE_MAX = 1
    PREFIX_SIZE = 2
    Maps <- MCMaps
    KeyType <- MCKeyType
    ByteKey <- MCByteKey
INVARIANTS
    TypeOK
    RangeExact
    NeighboursBySign
