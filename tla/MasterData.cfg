SPECIFICATION Spec
CONSTANTS
    w1 = w1
    w2 = w2
    None = None
    Workers = {w1, w2}
    ProductRows <- SomeProducts
    PartnerRows <- SomePartners
    Quantities = {1}
    TaxRates <- SomeRates
    MaxStock = 1
    MaxId = 3
    MaxDay = 2
    MaxSteps = 4
INVARIANT TypeOK
INVARIANT NextCodeFree
INVARIANT SuccessMeansThere
PROPERTY RatesContinuous
CHECK_DEADLOCK FALSE
SYMMETRY WorkerSymmetry
