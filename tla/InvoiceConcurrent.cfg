SPECIFICATION Spec
CONSTANTS
    w1 = w1
    w2 = w2
    h1 = h1
    h2 = h2
    None = None
    Workers = {w1, w2}
    MaxId = 2
    Amounts = {}
    Heads = {h1, h2}
    NewStatuses = {"DRAFT", "SENT"}
    PatchStatuses = {"DRAFT", "SENT"}
    InitStatuses = {}
    Endpoints = {"create", "patch", "mark_as_sent", "delete", "cancel"}
    LinesOfLocked = FALSE
    MayCrash = TRUE
INVARIANT LockFollowsStatus
INVARIANT CancelledByIsStorno
PROPERTY StornoFrozen
CHECK_DEADLOCK FALSE
SYMMETRY WorkerSymmetry
