SPECIFICATION Spec
CONSTANTS
    m1 = m1
    m2 = m2
    t1 = t1
    t2 = t2
    None = None
    Methods = {m1}
    OneWay = {}
    IoThreads = {t1, t2}
    MaxRequests = 2
    MayAbandon = FALSE
PROPERTIES CallbackEntersLiveService EveryRequestAnswered DestructionCompletes
