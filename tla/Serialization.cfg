SPECIFICATION MCSpec
CONSTANTS
    Structs <- MCStructs
    ReaderBasic <- ProtocolReadBasic
    ReaderStructBegin <- ProtocolReadStructBegin
    ReaderFieldBegin <- ProtocolReadFieldBegin
    ReaderContainerBegin <- ProtocolReadContainerBegin
    ReaderMapBegin <- ProtocolReadMapBegin
    ReaderSkip <- ProtocolSkipType
    Samples <- MCSamples
    Followers <- MCFollowers
    Targets <- MCTargets
    MaxObjects = 2
    MapObjects <- MCMapObjects
    MapTargets = {"View", "Part"}
    MapMappings <- MCMapMappings
    ValidatorObjects <- MCValidatorObjects
    ValidatorSchema <- MCValidatorSchema
    JsonObjects <- MCJsonObjects
    JsonViews <- MCJsonViews
    JsonTargets <- MCJsonTargets
    Schema <- MCSchema
    Payloads <- MCPayloads
    Parses <- AllParses
    UnknownTypes = {"int32"}
    KnownTypes = {"int16", "int32", "struct", "list"}
INVARIANTS RoundTrip SkipAgreesWithRead TruncationContained MapToMapsWithBases ValidatorFindsUnknown ObjectMatchesPayload UnknownFieldsKept MergeLossIsKnown JsonRoundTrip
CHECK_DEADLOCK FALSE
