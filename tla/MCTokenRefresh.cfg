SPECIFICATION MCSpec
CONSTANTS
    Emails = {ann}
    Requests = {1, 2}
    Calls <- MCCalls
    AccessLife = 1
    RefreshLife = 2
    MaxTime = 2
    None = None
INVARIANTS
    TypeOK
    OneAccountPerEmail
    OneRefresh
    RefusedForAReason
PROPERTIES
    EveryRequestEnds
CHECK_DEADLOCK FALSE
