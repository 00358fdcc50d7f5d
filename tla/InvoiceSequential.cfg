SPECIFICATION Spec
CONSTANTS
    w1 = w1
    w2 = w2
    h1 = h1
    h2 = h2
    None = None
    Workers = {w1}
    MaxId = 2
    Amounts = {1, 2}
    Heads = {h1, h2}
    NewStatuses = {"DRAFT", "SENT"}
    PatchStatuses = {"DRAFT", "OVERDUE"}
    InitStatuses = {"DRAFT"}
    Endpoints = {"patch", "mark_as_sent", "mark_as_paid", "generate_pdf", "delete", "cancel", "save_line", "delete_line", "ten_years"}
    LinesOfLocked = FALSE
    MayCrash = TRUE
INVARIANT TypeOK
INVARIANT SealedIntact
INVARIANT StornoTotals
CHECK_DEADLOCK FALSE
