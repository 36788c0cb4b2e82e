CONSTANTS
    Structs <- MCSchemaStructs
    ReaderBasic <- ProtocolReadBasic
    ReaderStructBegin <- ProtocolReadStructBegin
    ReaderFieldBegin <- ProtocolReadFieldBegin
    ReaderContainerBegin <- ProtocolReadContainerBegin
    ReaderMapBegin <- ProtocolReadMapBegin
    ReaderSkip <- ProtocolSkipType
    Decls <- MCDecls
    StructIn <- StructOf
    TypeDef <- GetTypeDef
    Roots <- MCRoots
    SchemaObjects <- MCSchemaObjects
    MaxSchemas = 2
    Threads = {t1, t2}
SPECIFICATION SchemasSpec
INVARIANT IdenticalIsEquivalent
