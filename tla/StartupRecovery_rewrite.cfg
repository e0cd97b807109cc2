SPECIFICATION Spec
CONSTANTS
    Processes = {p1, p2}
    Runs = {r1}
    Limit = 1
    Faults = {"together", "rewrite"}
PROPERTIES
    EvidenceIsKept
CHECK_DEADLOCK FALSE
