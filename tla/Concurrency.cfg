SPECIFICATION MCSpec
CONSTANTS
    b = b
    c0 = c0
    c1 = c1
    c2 = c2
    c3 = c3
    f1 = f1
    h1 = h1
    h2 = h2
    i1 = i1
    i2 = i2
    o1 = o1
    o2 = o2
    t1 = t1
    t2 = t2
    w1 = w1
    w2 = w2
    None = None
    Workers = {w1, w2}
    Callers = {c1, c2}
    Ops = {o1, o2}
    PoolThreads = {t1, t2}
    Handles = {h1, h2}
    First = h1
    Callbacks = {c1, c2, c3}
    Invokers = {i1, i2}
    Waiters = {w1, w2}
    Timed = {f1}
    Callback = {}
    Future = {b}
    NoCallback = {c0}
    IoThreads = {t1, t2}
    Threads = {t1, t2}
    Structs <- MCSchemaStructs
    ReaderBasic <- ProtocolReadBasic
    ReaderStructBegin <- ProtocolReadStructBegin
    ReaderFieldBegin <- ProtocolReadFieldBegin
    ReaderContainerBegin <- ProtocolReadContainerBegin
    ReaderMapBegin <- ProtocolReadMapBegin
    ReaderSkip <- ProtocolSkipType
    Decls <- MCDecls
    StructIn <- StructOf
    TypeDef <- GetTypeDef
    Roots <- MCRoots
    SchemaObjects <- MCSchemaObjects
    MaxSchemas = 2
INVARIANTS WaitMeansStopped NoUseAfterFree ValidatedIsReadable
PROPERTIES GetSeesCompleteSchema GetReturnsEventually ManagerDrains PoolDrains OutcomeMatchesResult WaitersComeBack SuccessIsDelivered EverythingReleased
CHECK_DEADLOCK FALSE
