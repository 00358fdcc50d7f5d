SPECIFICATION Spec
CONSTANTS
    f1 = f1
    f2 = f2
    f3 = f3
    ada = ada
    bob = bob
    Nobody = Nobody
    Forms = {f1, f2}
    Users = {ada, bob}
    UserOf <- OneEach
    Timeout = 2
    MaxVersion = 2
    Faults = {}
INVARIANT TypeOK
INVARIANT HeldIsBacked
PROPERTY LeaseKept
CHECK_DEADLOCK FALSE
