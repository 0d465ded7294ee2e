SPECIFICATION Spec
CONSTANTS
    Scalar <- MCScalar
    Mul <- MCMul
    Zero = 0
    Generator = 1
    Component <- MCComponent
    hash_to_g1 <- MCHash
    private_key = 2
    prefix <- MCPrefix
    Files <- SiblingFiles
    NUM_REQUESTS = 2
    nonce <- SiblingNonce
INVARIANTS
    PrefixIsLongestMatch
CHECK_DEADLOCK FALSE
