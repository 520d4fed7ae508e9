SPECIFICATION MagnumSpec
CONSTANTS
    Null = Null
    Ids = {"m1", "m2", "m3", "m4"}
    Projects = {"p1", "p2"}
    MaxLag = 2
    MagnumScenarios <- TwoProjects
PROPERTIES
    NotRescheduled
CHECK_DEADLOCK FALSE
