SPECIFICATION Spec
CONSTANTS
    N = 2
    MAXSTEAL = 2
    StealHalf = {TRUE}
    LoopSizes <- SmallLoops
    Strict = FALSE
    UserPolls = TRUE
    MaxTasks = 3
INVARIANTS
    TerminationSound
    OneTokenPerChannel
    RequestsAccounted
    IdleWorkersHaveNoTasks
    NoTaskLost
PROPERTIES
    ExecutedOnce
