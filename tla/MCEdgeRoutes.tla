---------------------------- MODULE MCEdgeRoutes ----------------------------
(* One name that moves between two deployments, one spare VM, two timer    *)
(* goroutines that overlap with the poll.                                  *)
EXTENDS EdgeRoutes
=============================================================================
