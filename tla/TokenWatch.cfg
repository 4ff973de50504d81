\* The query may be stopped and the context cancelled.
CHECK_DEADLOCK FALSE
SPECIFICATION FairSpec
CONSTANTS
    Contents = {t0, t1, blank}
    Blank = blank
    Configured = t0
    MaxStat = 2
    MaxSlips = 1
    Cap = 1
    MaxWaits = 2
    None = None
INVARIANTS
    FollowsFile
    FileIsUsed
PROPERTIES
    StopEndsWatch
