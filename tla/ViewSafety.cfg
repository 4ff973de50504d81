SPECIFICATION Spec
CONSTANTS
    Pollers = {p1, p2}
    Values = {nil, x, y}
    Nil = nil
    MaxIndex = 2
    MaxRetries = 1
    MaxErrors = 1
    Cap = 1
    UseMaxStale = TRUE
    BlockingQuery = TRUE
SYMMETRY Symmetry
INVARIANTS
    TypeOK
    SinglePoller
    SingleFetch
    NoLostUpdate
    IndexMatchesData
    AtMostOneLateDelivery
PROPERTIES
    NeverTooOld
