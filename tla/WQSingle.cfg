SPECIFICATION FairSpec
CONSTANTS
    Keys = {k1, k2}
    Producers = {p1}
    Workers = {w1, w2}
    Timers = {t1, t2, t3}
    None = None
    Debounce = TRUE
    Requeues = {}
    Cancels = TRUE
    MaxVersion = 2
INVARIANTS
    OneTimerPerKey
PROPERTIES
    DeliveryInOrder
    CallsReturn
    NewestHandled
