\* ML-DSA-65 has L = 5; three attempts (kappa 0, 5, 10) reach the reuse of
\* every buffer from one attempt to the next.
CONSTANTS
    L = 5
    MaxKappa = 10
SPECIFICATION Spec
INVARIANTS
    KeysAreFIPS
    SignIsFIPS
    VerifyIsFIPS
CHECK_DEADLOCK FALSE
