SPECIFICATION Spec
CONSTANTS
    Keys = {k1}
    Producers = {p1}
    Workers = {w1, w2}
    Timers = {t1, t2, t3}
    None = None
    Debounce = TRUE
    Requeues = {"reschedule"}
    Cancels = TRUE
    MaxVersion = 2
INVARIANTS
    NewestNotLost
