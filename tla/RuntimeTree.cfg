SPECIFICATION FairSpec
CONSTANTS
    N = 3
    MAXSTEAL = 1
    StealHalf <- StealOne
    LoopSizes <- NoLoops
    Strict = FALSE
    UserPolls = FALSE
    MaxTasks = 2
INVARIANTS
    TypeOK
    TerminationSound
    IdleSubtreesBackedOff
    SingleConsumer
    RequestAssertions
    CleanExit
PROPERTIES
    BarrierReturnsUnlessFlooded
