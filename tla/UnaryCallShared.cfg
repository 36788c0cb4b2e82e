SPECIFICATION Spec
CONSTANTS
    a = a
    b = b
    c = c
    Owners = {a, b, c}
    First = a
    MayThrow = TRUE
INVARIANTS RefCountExact NoUseAfterFree AtMostOneResponse InternalErrorOnlyFromLast
PROPERTIES FinishedCallIsFreed
CHECK_DEADLOCK FALSE
