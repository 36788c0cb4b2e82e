SPECIFICATION Spec
CONSTANTS
    m1 = m1
    m2 = m2
    t1 = t1
    t2 = t2
    None = None
    Methods = {m1}
    OneWay = {m1}
    IoThreads = {t1, t2}
    MaxRequests = 1
    MayAbandon = FALSE
PROPERTIES CallbackEntersLiveService
