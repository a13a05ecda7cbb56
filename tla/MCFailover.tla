---------------------------- MODULE MCFailover ----------------------------
(* Three servers: one dies and two are left to compete for the leadership  *)
(* and for the failover.                                                   *)
EXTENDS Failover, TLC

CONSTANTS s1, s2, s3, d1, d2

OnePlace  == d1 :> s1 @@ d2 :> s1   \* both deployments on one server
TwoPlaces == d1 :> s1 @@ d2 :> s2

Budget(crash, late, drop, abort, exit) ==
    ("crash" :> crash) @@ ("late" :> late) @@ ("drop" :> drop)
        @@ ("abort" :> abort) @@ ("exit" :> exit)

TwoDead    == Budget(1, 2, 1, 0, 1)   \* two dead servers, two leaders at them
OneDead    == Budget(1, 0, 1, 1, 0)   \* one dies, perhaps the leader
OneCrash   == Budget(1, 0, 0, 0, 0)
OneExit    == Budget(1, 0, 0, 0, 1)   \* a VM exits before its server dies
OneDrop    == Budget(0, 0, 1, 0, 0)   \* the leader's session drops
OneSilence == Budget(0, 2, 0, 0, 0)   \* a heartbeat is late by a minute
=============================================================================
