SPECIFICATION MCSpec
CONSTANTS
    a1 = a1
    a2 = a2
    b1 = b1
    b2 = b2
    b3 = b3
    bonded1 = bonded1
    bonded2 = bonded2
    null1 = null1
    null2 = null2
    Blocks = {b1, b2, b3}
    Word = 7
    ElemSize = 2
    MaxValue = 3
    Base = 1
    Keeping = {b3}
    More = 4
    InitialSize = 4
    MaxBufferSize = 12
    Reserves = {0, 3, 11}
    MinChaining = 2
    MaxChain = 3
    Items <- MCItems
    MaxItems = 3
    NullVars = {null1, null2}
    NullCells = {"c1", "c2", "c3", "c4"}
    NullAllocators = {a1, a2}
    Structs <- MCStructs
    ReaderBasic <- ProtocolReadBasic
    ReaderStructBegin <- ProtocolReadStructBegin
    ReaderFieldBegin <- ProtocolReadFieldBegin
    ReaderContainerBegin <- ProtocolReadContainerBegin
    ReaderMapBegin <- ProtocolReadMapBegin
    ReaderSkip <- ProtocolSkipType
    Objects <- MCObjects
    Bases <- MCBases
    Slots = {bonded1, bonded2}
    MaxSteps = 3
SYMMETRY Symmetry
INVARIANTS CounterExact BytesWithinCap ContentIsLog HandedOutIsStable ReadsWhatWasWritten NullableOwnsItsValue BondedKeepsStruct ReaderIsBehindField
CHECK_DEADLOCK FALSE
