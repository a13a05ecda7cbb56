CONSTANTS
    s1 = s1
    s2 = s2
    Server = {s1, s2}
    Caller = {c1, c2}
    Vm = {1, 2}
    Size = 6
    Compiled = FALSE
    Given <- NoneOrBoth
    None = None
    MaxFaults <- Faults
SPECIFICATION FairSpec
CHECK_DEADLOCK FALSE
INVARIANT AllocationsHold
INVARIANT Routable
PROPERTY DrainEnds
