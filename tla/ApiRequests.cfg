SPECIFICATION FairSpec
CONSTANTS
    user = user
    gc = gc
    app = app
    Clients = {user, app}
    Names = {n1}
    Refs = {c1}
    Null = Null
    Finalizers <- MCFinalizers
    Owned <- MCOwned
    Specs = {"plain", "hook"}
    Hooked = {"hook"}
    Retries = 1
    Reported = {"DEGRADED"}
    AllowForce = TRUE
    MaxRevision = 3
INVARIANTS
    TxInv
PROPERTIES
    ImplementsAtomicApi
    DeletionIrreversible
    RemovedOnlyInDeletion
    RequestsAnswered
