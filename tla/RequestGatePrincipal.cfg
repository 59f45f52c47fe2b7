SPECIFICATION MCSpec
CONSTANTS
    Requests = {1, 2}
    Users = {u1, u2}
    Addresses = {a1}
    Limit = 1
    Window = 2
    MaxTime = 2
    PoolSize = 2
    NoRequest = NoRequest
    NoBucket = NoBucket
INVARIANTS
    LimitIsPerPrincipal
CHECK_DEADLOCK FALSE
