CONSTANTS
    Contexts <- MCContexts
    Messages <- MCMessages
    YValues <- MCYValues
    WValues <- MCWValues
    CSValues <- MCCSValues
    CT0Values <- MCCT0Values
    OtherOnes <- MCOtherOnes
    MaxKappa = 65540
    NDEBUG = TRUE

SPECIFICATION Spec

\* The loop only stops at the model's bound MaxKappa.
CHECK_DEADLOCK FALSE

PROPERTY
    AttemptNoncesFresh
