SPECIFICATION Spec
CONSTANTS
    p = p
    c = c
    d = d
    a = a
    Refs = {p, c, d, a}
    Null = Null
    Finalizers <- MCFinalizers
    Specs = {"plain"}
    Hooked = {}
    Reflectors = {"project", "cluster", "app"}
    KindOf <- MCKindOf
    Workers = {w1, w2}
    Guarded = {a}
    Scenarios <- DiamondScenario
    Outages = 0
INVARIANTS
    GraphMatches
CHECK_DEADLOCK FALSE
