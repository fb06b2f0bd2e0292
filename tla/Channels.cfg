SPECIFICATION FairSpec
CONSTANTS
    s1 = s1  s2 = s2  r1 = r1  r2 = r2
    Uses <- AllUses
    Senders <- TwoSenders
    Receivers <- TwoReceivers
    MaxSends = 4
INVARIANTS
    TypeOK
    SlotsExclusive
PROPERTIES
    ImplementsFifo
    RangeDrains
    RangeEnds
    SendEnds
