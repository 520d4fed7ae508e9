CONSTANTS
    Null = Null
    first = first
    second = second
    Clients = {first, second}
    Retries = 1
    Starts <- MCStarts
SPECIFICATION Spec
INVARIANTS
    NoPartialInsertion
CHECK_DEADLOCK FALSE
