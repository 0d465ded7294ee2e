SPECIFICATION FairSpec
CONSTANTS
    Scalar <- MCScalar
    Mul <- MCMul
    Zero = 0
    Generator = 1
    Component <- MCComponent
    hash_to_g1 <- MCHash
    private_key = 2
    prefix <- MCPrefix
    Files <- MCFiles
    NUM_REQUESTS = 4
    nonce <- MCNonce
INVARIANTS
    NothingLeftOver
    HitIffAskedBefore
    ContentAsExpected
    ReportAddsUp
PROPERTIES
    ImplementsCache
    Finishes
CHECK_DEADLOCK FALSE
