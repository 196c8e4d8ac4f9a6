CONSTANTS
    K = 2
    L = 1
    A = A
    B = B
    Payloads <- MCPayloads
    Seeds = {e1}
    SeedLens = {31, 32}
    BadFirst = BadFirst
    BadLater = BadLater
    BadHint = BadHint
    Torn = Torn
    PubInputs <- MCPubInputs
    PrivInputs <- MCPrivInputs
    SigInputs <- MCSigInputs
    PubStructs <- MCPubStructs
    PrivStructs <- MCPrivStructs
    SigStructs <- MCSigStructs
    PubBuffers <- MCPubBuffers
SPECIFICATION Spec
INVARIANTS
    ParseAcceptsExactlyEncodings
    MarshalParseRoundTrip
    PublicKeyHashMatchesEncoding
    GeneratedKeyPairMatches
PROPERTY
    FailedKeyGenLeavesKeys
