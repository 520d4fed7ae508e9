SPECIFICATION Spec
CONSTANTS
    Keys = {k1}
    Producers = {p1, p2}
    Workers = {w1, w2}
    Timers = {t1, t2, t3, t4}
    None = None
    Debounce = FALSE
    Requeues = {"reschedule", "waiting"}
    Cancels = TRUE
    MaxVersion = 2
SYMMETRY Symmetry
INVARIANTS
    IInv
PROPERTIES
    ImplementsKeyedQueue
