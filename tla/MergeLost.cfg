SPECIFICATION ParserSpec
CONSTANTS
    Schema <- MCSchema
    Payloads <- MCPayloads
    Parses <- Merging
    UnknownTypes = {"int32"}
    KnownTypes = {"int32"}
INVARIANT MergeWritesObject
