CHECK_DEADLOCK FALSE
SPECIFICATION FairSpec
CONSTANTS
    Notifiers = {n1}
    Deps = {d1}
    Objects = 2
    MaxVersion = 1
    Cap = 1
    MayFail = TRUE
    MayStop = TRUE
    None = None
PROPERTIES
    StopEndsWait
    CompleteMeansRecalled
