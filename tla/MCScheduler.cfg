CONSTANTS
    Object = {o1, o2, o3}
    Worker = {w1, w2}
    Idle = Idle
SPECIFICATION FairSpec
INVARIANTS
    OneWorkerPerObject
    NoLostWakeup
    RunningIsInFlight
PROPERTIES
    QueueSpec
    EveryChangeServed
    Revisited
