SPECIFICATION Spec
CONSTANTS
    Scalar <- MCScalar
    Mul <- MCMul
    Zero = 0
    Generator = 1
    Component <- MCComponent
    hash_to_g1 <- MCHash
    private_key = 3
    nonce <- MCNonce
    Byte <- MCByte
    Size <- MCSize
    serialize_compressed <- MCBytes
    MaxSegments = 4
INVARIANTS
    TestsCompareNames
    KeysCompareNames
    BytesOrderTrapdoors
CHECK_DEADLOCK FALSE
