SPECIFICATION TotalsSpec
CONSTANTS
    h1 = h1
    h2 = h2
    l1 = l1
    l2 = l2
    l3 = l3
    c1 = c1
    c2 = c2
    Absent = Absent
    Header = Header
    Handlers = {h1, h2}
    LineIds = {l1, l2}
    ChargeIds = {c1, c2}
    Nets = {50}
    Offers <- Catalog
    Rates = {19}
    Amounts = {15}
    Buyers <- Both
    MaxRequests = 4
    MayMove = TRUE
    MayDie = TRUE
    Shapes <- Some
INVARIANT TotalsTypeOK
 
INVARIANT StatesTheBooked
INVARIANT RejectsExactly
INVARIANT AnswersExactly
PROPERTY AloneHeals
CHECK_DEADLOCK FALSE
SYMMETRY Interchangeable
