SPECIFICATION Spec
CONSTANTS
    Scalar <- MCScalar
    Mul <- MCMul
    Zero = 0
    Generator = 1
    Component <- MCComponent
    hash_to_g1 <- MCHash
    Tables <- MCTables
    Ciphertexts <- MCCiphertexts
INVARIANTS
    TypeOK
    MatchCorrect
CHECK_DEADLOCK FALSE
