SPECIFICATION FairSpec
CONSTANTS
    Null = Null
    Ids = {"i1", "i2", "i3", "i4"}
    Toscas = {0, 1, 2}
    MaxLag = 2
    Scenarios <- Flapping
PROPERTIES
    HealthSettles
CHECK_DEADLOCK FALSE
