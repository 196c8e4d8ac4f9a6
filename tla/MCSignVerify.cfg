CONSTANTS
    Contexts <- MCContexts
    Messages <- MCMessages
    YValues <- MCYValues
    WValues <- MCWValues
    CSValues <- MCCSValues
    CT0Values <- MCCT0Values
    OtherOnes <- MCOtherOnes
    MaxKappa = 10
    NDEBUG = FALSE

SPECIFICATION Spec

\* A signing call ends: it fails, is signed, or has made MaxKappa / 5
\* attempts; the code itself returns after it signs or fails.
CHECK_DEADLOCK FALSE

INVARIANTS
    TypeOK
    SignedVerifies
    VerifiesOnlyWhatWasSigned
