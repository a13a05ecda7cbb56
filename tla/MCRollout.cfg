CONSTANTS
    Deployment = {1, 2}
    Live = {1}
    Vm = {1, 2, 3}
    None = None
    MaxFaults = 2
SPECIFICATION FairSpec
CHECK_DEADLOCK FALSE
INVARIANTS
    DomainStaysUp
    NoVmLeak
PROPERTIES
    ReplacesOld
    TerminalReleasesVm
