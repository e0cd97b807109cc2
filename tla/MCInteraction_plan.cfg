SPECIFICATION MCSpec
CONSTANTS
    Capacity = 2
    MaxEvents = 5
    Prompts = 2
    Iterations = 2
    Chats = 1
    Batches <- SomeBatches
    Scopes = {"once", "session"}
    Hooked = {"turn_start", "turn_end"}
    Windows = {1, 2}
    Sessions = 2
    Exchanges = 2
    Paths = {"p", "g"}
    Contents = {"x", "y"}
    Ignored = {"g"}
    Limit = 2
    Edits = 2
    Captures = 3
    Writes = {c1, c2}
    ByOthers = 1
    Budget = 12
    Ceiling = 4
    Envelope = 1
    System = 1
    Summary = 1
    Plan = 1
    Texts = {1, 3}
    Results = {0, 6}
    Exchanged = 3
    KeepRecent = 1
    Identical = 2
    Changing = 3
    Signatures = {1, 2}
    MaxRounds = 3
    Time = 5
    Expiry = 4
    Pauses = {0, 1, 4}
    Usual = 2
    Shortest = 2
    Interval = 3
    Slowing = 2
    Flows = 2
    NoteWindows = {"w", "u"}
    Workspace <- SomeWorkspaces
    Notes <- SomeNotes
    Kept = 2
    Noting = 3
    Vendors = {"p", "q"}
    DefaultVendor = "p"
    Variables = {"p"}
    Legacy = TRUE
    Issuing = 2
INVARIANTS
    PlanWithholds
CHECK_DEADLOCK FALSE
