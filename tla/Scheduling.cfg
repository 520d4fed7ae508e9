SPECIFICATION MCSpec
CONSTANTS
    Stickiness <- MCStickiness
    Described <- MCDescribed
    Demands <- MCDemands
    Spare = {"auto", "more"}
    Namespaced <- MCNamespaced
    Global <- MCGlobal
    Readings <- MCReadings
    Null = Null
    MaxLag = 2
    MaxRetry = 2
    Scenarios <- Lives
INVARIANTS
    SchedulerInv
    LanguageSound
    ChosenIsAllowed
    RankingSound
PROPERTIES
    BindingsStay
    Settles
CHECK_DEADLOCK FALSE
