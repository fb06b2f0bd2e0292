SPECIFICATION Spec
CONSTANTS
    MaxWorkers = 9
CHECK_DEADLOCK FALSE
INVARIANTS
    MarksSubtree
    CoversSubtree
    WordsAreSets
    SentToPotentialVictims
