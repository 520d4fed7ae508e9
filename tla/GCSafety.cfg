SPECIFICATION Spec
CONSTANTS
    p = p
    c = c
    d = d
    a = a
    Refs = {p, c, d, a}
    Null = Null
    Finalizers <- MCFinalizers
    Specs = {"plain"}
    Hooked = {}
    Reflectors = {"project", "cluster", "app"}
    KindOf <- MCKindOf
    Workers = {w1, w2}
    Guarded = {a}
    Scenarios <- AllCases
    Outages = 1
SYMMETRY WorkerSymmetry
INVARIANTS
    CollectorInv
    CascadeInv
PROPERTIES
    DependentsFirst
CHECK_DEADLOCK FALSE
