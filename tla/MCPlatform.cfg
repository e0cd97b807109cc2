SPECIFICATION MCSpec
CONSTANTS
    Faults <- FaultKinds
    LongGrace = TRUE
    Slow = TRUE
    Lives = {p1}
    Rivals = {p1, p2}
    Backlog = {r1, r2}
    Contested = {r1}
    ClaimLimit = 2
    ShortLimit = 1
INVARIANTS
    WellTyped
    GateHolds
    ExitMeansOver
    CleanedMeansStopped
    RecoveryIsTrue
    LifetimeReaps
    VerdictsAreTrue
    BackendsTellTruly
PROPERTIES
    CallsSettle
    EvidenceStays
    RunsReturn
CHECK_DEADLOCK FALSE
