SPECIFICATION FairSpec
CONSTANTS
    Pollers = {p1}
    Values = {nil, x}
    Nil = nil
    MaxIndex = 2
    MaxRetries = 1
    MaxErrors = 1
    Cap = 1
    UseMaxStale = FALSE
    BlockingQuery = FALSE
PROPERTIES
    StopReleases
    Converges
