CONSTANTS
    File <- Files
    Trees <- Tarballs
    MaxPings = 2
    MaxOutput = 3
    MaxFaults = 2
SPECIFICATION FairSpec
CHECK_DEADLOCK FALSE
INVARIANTS
    ContextWhole
    SuccessIsPushed
    LogsComplete
    ContainerGone
PROPERTY
    GoroutinesEnd
