SPECIFICATION MCSpec
CONSTANTS
    MaxEvents = 3
    ToolNames = {"calculator", "web_search"}
INVARIANTS
    ScreenTypeOK
    TextIsWhatWasStreamed
    FailureIsNotAnAnswer
    AnnouncedIsStored
    EveryEventDelivered
    ScreenIsHistory
    EarlierAnswersStay
PROPERTIES
    EveryStreamCloses
    ComposerComesBack
CHECK_DEADLOCK FALSE
