SPECIFICATION MCSpec
CONSTANTS
    Requests = {1, 2}
    Kinds = {"send", "stream", "rename"}
    NoRequest = NoRequest
    NoMessage = NoMessage
PROPERTIES
    ChosenTitleStays
CHECK_DEADLOCK FALSE
