SPECIFICATION MagnumSpec
CONSTANTS
    Null = Null
    Ids = {"m1", "m2", "m3", "m4"}
    Projects = {"p1", "p2"}
    MaxLag = 2
    MagnumScenarios <- MCMagnumScenarios
INVARIANTS
    MagnumInv
PROPERTIES
    MagnumDeletionEnds
    MagnumServes
CHECK_DEADLOCK FALSE
