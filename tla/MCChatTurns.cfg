SPECIFICATION MCSpec
CONSTANTS
    Requests = {1, 2, 3}
    Kinds = {"send", "stream", "regenerate", "rename", "delete"}
    NoRequest = NoRequest
    NoMessage = NoMessage
INVARIANTS
    TypeOK
    AnswersHaveQuestions
    BlockingTurnIsAtomic
    OnlyBlockingTurnsTie
PROPERTIES
    AnswersAreReplaced
    QuestionsAreKept
    EveryRequestEnds
CHECK_DEADLOCK FALSE
