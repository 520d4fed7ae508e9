SPECIFICATION FairSpec
CONSTANTS
    o1 = o1
    o2 = o2
    Clusters = {a, b}
    Objects = {o1, o2}
    Manifests <- MCManifests
    Null = Null
    ShutdownRetries = 1
    Scenarios <- Lives
INVARIANTS
    AppInv
    PlacementInv
PROPERTIES
    GuardedApply
    Converges
    DeletionCompletes
CHECK_DEADLOCK FALSE
