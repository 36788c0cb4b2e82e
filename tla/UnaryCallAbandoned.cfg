SPECIFICATION Spec
CONSTANTS
    a = a
    b = b
    c = c
    Owners = {a, b, c}
    First = a
    MayThrow = FALSE
INVARIANTS AbandonedCallIsAnswered
CHECK_DEADLOCK FALSE
