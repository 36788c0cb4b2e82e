CONSTANTS
    Structs <- MCMapStructs
    ReaderBasic <- ProtocolReadBasic
    ReaderStructBegin <- ProtocolReadStructBegin
    ReaderFieldBegin <- ProtocolReadFieldBegin
    ReaderContainerBegin <- ProtocolReadContainerBegin
    ReaderMapBegin <- ProtocolReadMapBegin
    ReaderSkip <- ProtocolSkipType
    MapObjects <- MCMapObjects
    MapTargets = {"View", "Part"}
    MapMappings <- MCMapMappings
SPECIFICATION MappingSpec
INVARIANT MapToMaps
CHECK_DEADLOCK FALSE
