SPECIFICATION MCSpec
CONSTANTS
    Requests = {1, 2, 3}
    Kinds = {"send", "stream", "regenerate", "delete"}
    NoRequest = NoRequest
    NoMessage = NoMessage
    Window = 1
    PageSize = 1
INVARIANTS
    TypeOKHistory
    SummaryIsHistory
    SummaryIsOld
    PagesDescend
    PagesCover
CHECK_DEADLOCK FALSE
