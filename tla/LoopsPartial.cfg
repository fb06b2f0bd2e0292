SPECIFICATION Spec
CONSTANTS
    num_workers = 2
    MAXSTEAL = 1
    Strategies = {"half", "guided", "adaptive"}
    Programs <- LongAndShort
INVARIANT ResultAlwaysComplete
