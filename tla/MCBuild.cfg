CONSTANTS
    Server = {s1, s2}
    Vm = {1, 2, 3, 4}
    None = None
    StuckAfter = 1
    StaleAfter = 2
    MaxFaults = 3
SPECIFICATION FairSpec
INVARIANT
    OneExecutor
PROPERTIES
    LeaseSpec
    OutcomeStable
    EveryBuildEnds
    ExecutedVmReleased
