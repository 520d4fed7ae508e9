SPECIFICATION MCSpec
CONSTANTS
    Stickiness <- MCStickiness
    Described <- MCDescribed
    Demands <- MCDemands
    Spare = {"auto", "more"}
    Namespaced <- MCNamespaced
    Global <- MCGlobal
    Readings <- MCReadings
    Null = Null
    MaxLag = 2
    MaxRetry = 2
    Scenarios <- Outage
PROPERTY
    DegradedRetried
CHECK_DEADLOCK FALSE
