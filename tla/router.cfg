SPECIFICATION MCSpec
CONSTANTS
    Scalar <- MCScalar
    Mul <- MCMul
    Zero = 0
    Generator = 1
    Component <- MCComponent
    hash_to_g1 <- MCHash
    Uris <- MCUris
    Hashes <- MCHashes
    DataPacket = {d1}
    MaxRows = 4
    MaxLookups = 2
    MaxPending = 1
INVARIANTS
    TypeOK
    TableSorted
    CacheIndexed
PROPERTIES
    WarmStaysWarm
CHECK_DEADLOCK FALSE
