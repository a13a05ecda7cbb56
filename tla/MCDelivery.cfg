CONSTANTS
    None = None
    Server = {s1, s2}
    Deployment = {d1}
    MaxVersion = 2
    MaxFaults = 3
SPECIFICATION DeliveryFairSpec
CHECK_DEADLOCK FALSE
INVARIANT
    NothingMissed
PROPERTY
    KnownChangesRead
