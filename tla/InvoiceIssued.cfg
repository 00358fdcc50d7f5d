SPECIFICATION Spec
CONSTANTS
    w1 = w1
    w2 = w2
    h1 = h1
    h2 = h2
    None = None
    Workers = {w1, w2}
    MaxId = 3
    Amounts = {1, 2}
    Heads = {h1, h2}
    NewStatuses = {"DRAFT", "SENT"}
    PatchStatuses = {}
    InitStatuses = {"SENT"}
    Endpoints = {"patch", "generate_pdf", "cancel"}
    LinesOfLocked = FALSE
    MayCrash = FALSE
 
PROPERTY LockedFrozen
CHECK_DEADLOCK FALSE
SYMMETRY WorkerSymmetry
