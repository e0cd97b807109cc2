SPECIFICATION Spec
CONSTANTS
    Faults = {"stubborn"}
    LongGrace = TRUE
    Slow = FALSE
INVARIANTS
    ClosedLifetimeReaps
CHECK_DEADLOCK FALSE
