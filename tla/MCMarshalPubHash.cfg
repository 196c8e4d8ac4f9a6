CONSTANTS
    K = 2
    L = 1
    A = A
    B = B
    Payloads <- MCPayloads
    Seeds = {e1}
    SeedLens = {31, 32}
    BadFirst = BadFirst
    BadLater = BadLater
    BadHint = BadHint
    Torn = Torn
    PubInputs <- MCPubInputs
    PrivInputs <- MCPrivInputs
    SigInputs <- MCSigInputs
    PubStructs <- MCPubStructs
    PrivStructs <- MCPrivStructs
    SigStructs <- MCSigStructs
    PubBuffers <- MCPubBuffers
SPECIFICATION Spec
\* A public key derived from a parsed private key whose tr is not the hash
\* of its rho and t1.
INVARIANT
    PublicKeyCachesItsHash
