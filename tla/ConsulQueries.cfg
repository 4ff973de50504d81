SPECIFICATION FairSpec
CONSTANTS
    Templates <- MCTemplates
    Worlds <- MCWorlds
    MaxIndex = 3
    MaxErrors = 1
    MaxRetryWait = 60
    MaxCreates = 2
CHECK_DEADLOCK FALSE
INVARIANTS
    ReadsItsType
    LeaderGetsItsTime
    SetHoldsWorkingClients
PROPERTIES
    NoSpuriousUpdate
    RestsBetweenAnswers
    StopEndsFetch
    Converges
