SPECIFICATION Spec
CONSTANTS
    Scalar <- MCScalar
    Mul <- MCMul
    Zero = 0
    Generator = 1
    Component <- MCComponent
    hash_to_g1 <- MCHash
    private_key = 2
    prefix <- LongPrefix
    Names <- MixedNames
    Nonces <- ZeroDraws
    Foreign = {}
    Faults = {"reorder"}
    MaxFaults = 0
    MaxRegistrations = 2
INVARIANTS
    CacheSound
    AnswerSound
    RoutedByFirstComponent
CHECK_DEADLOCK FALSE
