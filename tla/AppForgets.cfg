SPECIFICATION Spec
CONSTANTS
    o1 = o1
    o2 = o2
    Clusters = {a, b}
    Objects = {o1, o2}
    Manifests <- MCManifests
    Null = Null
    ShutdownRetries = 1
    Scenarios <- Interrupted
INVARIANT
    NoOrphans
CHECK_DEADLOCK FALSE
