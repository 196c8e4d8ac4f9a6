CONSTANTS
    Q = 17
    N = 4
    Zeta = 2
    RBits = 6
    Inputs <- MCInputs

SPECIFICATION Spec

\* scalar_ntt returns: the finished state has no successor.
CHECK_DEADLOCK FALSE

INVARIANT TypeOK

PROPERTY ImplementsNTTSpec
