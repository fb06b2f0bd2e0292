SPECIFICATION FairSpec
CONSTANTS
    N = 2
    MAXSTEAL = 1
    StealHalf <- StealOne
    LoopSizes <- NoLoops
    Strict = TRUE
    UserPolls = FALSE
    MaxTasks = 4
PROPERTIES
    AwaitReturns
    EveryTaskRuns
    NoLostWakeup
    ExitReachesAll
