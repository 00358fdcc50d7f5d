SPECIFICATION Spec
CONSTANTS
    s1 = s1
    s2 = s2
    Scans = {s1, s2}
    Documents <- Files
    Validator = "pair"
    MaxRounds = 1
    Faults = {"attachment", "database", "copy", "gone", "crash"}
    None = None
INVARIANT TypeOK
INVARIANT ReportsTrue
INVARIANT NothingHalfBooked
CHECK_DEADLOCK FALSE
SYMMETRY RunsAlike
