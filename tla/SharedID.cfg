SPECIFICATION Spec
CONSTANTS
    Templates <- CollidingTemplates
    Worlds <- MCWorlds
    MaxIndex = 3
    MaxErrors = 1
    MaxRetryWait = 60
    MaxCreates = 2
CHECK_DEADLOCK FALSE
INVARIANTS
    AnswersOwnQuestion
