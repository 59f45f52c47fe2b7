SPECIFICATION Spec
CONSTANTS
    MaxEvents = 2
    ToolNames = {"calculator", "web_search"}
INVARIANTS
    EveryToolCallIsAudited
CHECK_DEADLOCK FALSE
