SPECIFICATION FairSpec
CONSTANTS
    p = p
    c = c
    d = d
    a = a
    Refs = {p, c, a}
    Null = Null
    Finalizers <- MCFinalizers
    Specs = {"plain"}
    Hooked = {}
    Reflectors = {"project", "cluster", "app"}
    KindOf <- MCKindOf
    Workers = {w1, w2}
    Guarded = {a}
    Scenarios <- StuckScenario
    Outages = 0
PROPERTIES
    DeletionCompletes
CHECK_DEADLOCK FALSE
