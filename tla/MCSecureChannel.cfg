CONSTANTS
    BITS = 2
    WORDS = 2
    Tasks = {t1, t2}
    Garbage = Garbage
    Forged = {5}
    Idle = Idle
    MaxSend <- MCMaxSend
SPECIFICATION Spec

INVARIANT DecisionExact
PROPERTIES NonceOnce ServiceSpec
SYMMETRY TaskSymmetry
CHECK_DEADLOCK FALSE
