SPECIFICATION Spec
CONSTANTS
    Transports = {"google"}
    Names = {"a", "b"}
    SendsIds = FALSE
    MaxReplies = 3
    MaxCalls = 1
    MaxMade = 3
INVARIANTS
    ResultsMatchCalls
CHECK_DEADLOCK FALSE
