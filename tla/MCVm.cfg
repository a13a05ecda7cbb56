CONSTANTS
    VM = {v1}
    Slot = {p1, p2}
    NoSlot = NoSlot
    MaxFaults <- Faults
SPECIFICATION FairSpec
INVARIANTS
    OneHypervisor
    NoOrphan
    ListenerKept
PROPERTIES
    DeletedVmGone
    AlwaysRuns
