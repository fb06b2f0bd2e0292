SPECIFICATION Spec
CONSTANTS
    s1 = s1  s2 = s2  r1 = r1  r2 = r2
    Uses <- RequestUse
    Senders <- TwoSenders
    Receivers <- TwoReceivers
    MaxSends = 5
INVARIANTS
    NeverBlocked
