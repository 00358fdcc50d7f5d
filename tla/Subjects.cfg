SPECIFICATION Spec
CONSTANTS
    p1 = p1
    p2 = p2
    u1 = u1
    d1 = d1
    h1 = h1
    h2 = h2
    Partners = {p1, p2}
    Users = {u1}
    Requests = {d1}
    Questions <- Asks
    EmailOf <- Emails
    Handlers = {h1, h2}
    Endpoints = {"process", "patch", "partner", "password", "settings"}
    Term = 1
    Soon = 1
    MaxDay = 2
    MayFail = TRUE
    None = None
INVARIANT TypeOK
PROPERTY ErasedStaysOut
 
 
CHECK_DEADLOCK FALSE
SYMMETRY HandlersAlike
