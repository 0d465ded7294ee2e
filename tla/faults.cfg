SPECIFICATION Spec
CONSTANTS
    Scalar <- MCScalar
    Mul <- MCMul
    Zero = 0
    Generator = 1
    Component <- MCComponent
    hash_to_g1 <- MCHash
    private_key = 2
    prefix <- MCPrefix
    Names <- NestedNames
    Nonces <- TwoDraws
    Foreign = {}
    Faults = {"reorder", "duplicate", "lose"}
    MaxFaults = 1
    MaxRegistrations = 2
INVARIANTS
    CacheSound
    CacheReachable
PROPERTIES
    ImplementsService
CHECK_DEADLOCK FALSE
