CONSTANTS
    Structs <- MCValidatorStructs
    ReaderBasic <- ProtocolReadBasic
    ReaderStructBegin <- ProtocolReadStructBegin
    ReaderFieldBegin <- ProtocolReadFieldBegin
    ReaderContainerBegin <- ProtocolReadContainerBegin
    ReaderMapBegin <- ProtocolReadMapBegin
    ReaderSkip <- ProtocolSkipType
    ValidatorObjects <- MCAttributedObjects
    ValidatorSchema <- MCValidatorSchema
SPECIFICATION ValidatorSpec
INVARIANT ValidatorFindsUnknown
CHECK_DEADLOCK FALSE
