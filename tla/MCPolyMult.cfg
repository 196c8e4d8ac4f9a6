CONSTANTS
    Q = 17
    N = 4
    Zeta = 2
    RBits = 6
    L = 1
    Inputs <- MCInputs

SPECIFICATION Spec

\* The pipeline returns its product: the finished state has no successor.
CHECK_DEADLOCK FALSE

INVARIANTS
    TypeOK
    ProductIsNegacyclic
