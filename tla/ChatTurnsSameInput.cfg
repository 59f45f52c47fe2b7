SPECIFICATION MCSpec
CONSTANTS
    Requests = {1, 2, 3}
    Kinds = {"send", "regenerate"}
    NoRequest = NoRequest
    NoMessage = NoMessage
INVARIANTS
    RegeneratesSameInput
CHECK_DEADLOCK FALSE
