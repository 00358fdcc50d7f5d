SPECIFICATION Spec
CONSTANTS
    c1 = c1
    c2 = c2
    p1 = p1
    p2 = p2
    None = None
    Clients = {c1, c2}
    MaxNumber = 2
    Amounts = {1}
    Partners = {p1, p2}
    Targets = {0, 1}
    Keep = 1
    MaxDay = 1
    Start = 0
    End = 0
    Overlap = FALSE
INVARIANT TypeOK
INVARIANT NumberFree
 
 
CHECK_DEADLOCK FALSE
SYMMETRY Interchangeable
