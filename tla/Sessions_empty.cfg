SPECIFICATION Spec
CONSTANTS
    Windows = {1}
    MaxSessions = 3
    MaxTurns = 2
    Faults = {"half"}
INVARIANTS
    SavedTurnsStay
CHECK_DEADLOCK FALSE
