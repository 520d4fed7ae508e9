CONSTANTS
    Null = Null
    first = first
    second = second
    Clients = {first, second}
    Retries = 1
    Starts <- MCStarts
SPECIFICATION Spec
INVARIANTS
    CatalogueInv
    RollbackInv
PROPERTIES
    NeverOverwritten
    HandlersKeepApart
    CommandsExact
    AccessByRoles
CHECK_DEADLOCK FALSE
