SPECIFICATION MCSpec
CONSTANTS
    Requests = {1, 2, 3}
    Users = {u1}
    Addresses = {a1}
    Limit = 1
    Window = 2
    MaxTime = 2
    PoolSize = 2
    NoRequest = NoRequest
    NoBucket = NoBucket
INVARIANTS
    TypeOK
    SpanBudget
    ConnectionsComeBack
    LocksHaveTransactions
PROPERTIES
    RevocationIsFinal
    EveryCallEnds
CHECK_DEADLOCK FALSE
