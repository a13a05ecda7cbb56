CONSTANTS
    Edge = {e1, e2}
    Domain = {d1, d2}
    MaxFaults = 2
SPECIFICATION FairSpec
CHECK_DEADLOCK FALSE
INVARIANT
    OneVerified
PROPERTIES
    LeaseSpec
    Certified
