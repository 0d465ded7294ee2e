SPECIFICATION Spec
CONSTANTS
    Scalar <- MCScalar
    Mul <- MCMul
    Zero = 0
    Generator = 1
    Component <- MCComponent
    hash_to_g1 <- MCHash
    private_key = 2
    prefix <- MCPrefix
    Names <- NestedNames
    Nonces <- ThreeDraws
    Foreign <- CutShort
    Faults = {}
    MaxFaults = 0
    MaxRegistrations = 2
INVARIANTS
    TypeOK
    NoPanic
    LatestServed
    PendingAccounted
    StagedAccounted
PROPERTIES
    MonotoneCache
CHECK_DEADLOCK FALSE
