SPECIFICATION Spec
CONSTANTS
    Runs = {r1}
    Faults = {}
    MaxCrashes = 0
INVARIANTS
    CancelledBeforeStartNeverRan
CHECK_DEADLOCK FALSE
