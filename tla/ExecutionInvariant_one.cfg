SPECIFICATION Spec
CONSTANTS
    Runs = {r1}
    Faults <- FaultKinds
    MaxCrashes = 2
INVARIANTS
    TypeOK
    LaunchIsAuthorised
    WritesAreAccepted
    SilentVerdictsAreTrue
    StoppedWhenTerminal
    AnswersMatchEvidence
    StagesMatchEvidence
    OutcomesHaveCauses
PROPERTIES
    KeepsContract
    VerdictIsFinal
    CancelHoldsTheGate
CHECK_DEADLOCK FALSE
