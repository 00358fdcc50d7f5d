SPECIFICATION Spec
CONSTANTS
    w1 = w1
    w2 = w2
    old = old
    new = new
    None = None
    Writers = {w1, w2}
    MaxEvents = 3
    MaxClock = 1
    MaxYears = 1
    Short = 0
    Long = 1
    Limit = 2
    Values = {old, new}
    Sources = {"event","direct","update","change"}
    MayFail = TRUE
    Tampering = 1
INVARIANT TypeOK
INVARIANT VerifyExact
INVARIANT LinksBack
CHECK_DEADLOCK FALSE
SYMMETRY WriterSymmetry
