SPECIFICATION PollingFairSpec
CONSTANTS
    N = 2
    MAXSTEAL = 1
    StealHalf <- StealOne
    LoopSizes <- NoLoops
    Strict = FALSE
    UserPolls = TRUE
    MaxTasks = 4
PROPERTY AwaitReturns
