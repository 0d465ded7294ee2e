SPECIFICATION Spec
CONSTANTS
    Scalar <- MCScalar
    Mul <- MCMul
    Zero = 0
    Generator = 1
    Component <- MCComponent
    hash_to_g1 <- MCHash
    private_key = 2
    prefix <- MCPrefix
    Names <- AliasNames
    Nonces <- TwoDraws
    Foreign <- OneForeign
    Faults = {"lose"}
    MaxFaults = 2
    MaxRegistrations = 2
INVARIANTS
    OutstandingIsPending
PROPERTIES
    ImplementsService
CHECK_DEADLOCK FALSE
