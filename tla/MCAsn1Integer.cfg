CONSTANTS
    WordBytes = 2
    DERInputs <- MCDERInputs
    RawInputs <- MCRawInputs
    LongInputs <- MCLongInputs
    Uint64Inputs <- MCUint64Inputs
    BnInputs <- MCBnInputs
SPECIFICATION Spec
INVARIANTS
    StoredObjectIsMinimal
    StoreDenotesInput
    EncodingIsMinimalDER
    CmpOrdersValues
