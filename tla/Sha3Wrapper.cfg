CONSTANTS
    Word = {w1, w2}
    NoWord = NoWord
    RateWords = 2
    Rounds = 5
    FifoDepth = 2
    MaxWords = 7
SPECIFICATION Spec
SYMMETRY WordSymmetry
INVARIANTS
    UnitInv
    DigestIsFirstMessage
PROPERTIES
    DigestFrozen
