SPECIFICATION FairSpec
CONSTANTS
    num_workers = 3
    MAXSTEAL = 1
    Strategies = {"half", "guided", "adaptive"}
    Programs <- LongAndShort
INVARIANTS
    IterationsOnce
    ResultComplete
    FutureProtocol
    SetAtHome
PROPERTIES
    LoopEnds
