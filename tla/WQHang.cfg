SPECIFICATION FairSpec
CONSTANTS
    Keys = {k1}
    Producers = {p1, p2}
    Workers = {w1}
    Timers = {t1, t2, t3}
    None = None
    Debounce = TRUE
    Requeues = {}
    Cancels = FALSE
    MaxVersion = 4
PROPERTIES
    CallsReturn
