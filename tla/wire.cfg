SPECIFICATION Spec
CONSTANTS
    Scalar <- MCScalar
    Mul <- MCMul
    Zero = 0
    Generator = 1
    Component <- MCComponent
    hash_to_g1 <- MCHash
    CiphertextNames <- MCCiphertextNames
    TrapdoorNames <- MCTrapdoorNames
    Digests <- MCDigests
    OtherBytes <- MCOtherBytes
    MaxSlashes = 2
INVARIANTS
    RoundTrip
    OnlyItsOwnFormat
CHECK_DEADLOCK FALSE
