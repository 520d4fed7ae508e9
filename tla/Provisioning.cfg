SPECIFICATION FairSpec
CONSTANTS
    Null = Null
    Ids = {"i1", "i2", "i3", "i4"}
    Toscas = {0, 1, 2}
    MaxLag = 2
    Scenarios <- Lives
INVARIANTS
    ProvisioningInv
PROPERTIES
    CreatedUnderFinalizer
    DeletionEnds
    Provisioned
    HealthTold
CHECK_DEADLOCK FALSE
