SPECIFICATION Spec
CONSTANTS
    Jobs = {j1, j2}
    j1 = j1
    j2 = j2
    OpsOf <- Crossing
    MaxVersion = 1
    MaxSecond = 1
    MaxTouches = 1
    MaxAttempts = 2
    Partners <- All
    Faults = {"disabled", "refused", "unanswered", "ghostscript", "crash"}
    None = None
INVARIANT TypeOK
INVARIANT TrackedMeansMailed
INVARIANT AnswersTrue
INVARIANT NamedPdfWhole
CHECK_DEADLOCK FALSE
