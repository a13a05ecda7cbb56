---------------------------- MODULE MCScheduler ----------------------------
(* Three objects compete for two workers: a batch larger than the free     *)
(* workers blocks the ticker.  The cfg gives the constants model values.   *)
EXTENDS Scheduler
=============================================================================
