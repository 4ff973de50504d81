\* A query that was stopped does nothing any more.
CHECK_DEADLOCK FALSE
SPECIFICATION FairSpec
CONSTANTS
    Kinds <- AllKinds
    Engines <- AllEngines
    MaxLease = 1
    DefaultLease = 2
    MaxErrors = 1
    MaxTime = 3
    None = None
INVARIANTS
    SleepWithinLease
    RenewalKeepsData
    WaitEndsInTime
PROPERTIES
    RestsBetweenAnswers
    StopEndsFetch
    FirstSecret
