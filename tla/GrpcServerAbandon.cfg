SPECIFICATION Spec
CONSTANTS
    m1 = m1
    m2 = m2
    t1 = t1
    t2 = t2
    None = None
    Methods = {m1, m2}
    OneWay = {m2}
    IoThreads = {t1, t2}
    MaxRequests = 2
    MayAbandon = TRUE
INVARIANTS ReceiveIsExclusive ReceiveBuffersLive NothingAfterCqShutdown
PROPERTIES CallsFollowUnaryCall
SYMMETRY IoThreadsAreAlike
CHECK_DEADLOCK FALSE
