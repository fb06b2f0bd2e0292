SPECIFICATION Spec
CONSTANTS
    W = 2
    MaxTasks = 4
INVARIANTS
    WellLinked
    OneOwner
PROPERTIES
    ImplementsSequence
