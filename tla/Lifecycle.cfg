SPECIFICATION FairSpec
CONSTANTS
    N = 3
    MAXSTEAL = 2
    Capacities = {0, 1}
    MaxFutures = 2
    MaxRuns = 2
INVARIANTS
    UsesAlive
    ChannelsOwned
    ResultsArrive
PROPERTIES
    ExitReturns
