----------------------------- MODULE MCRollout -----------------------------
(* A deployment, which may run already, and its successor; one VM more     *)
(* than deployments allows for a replacement.                              *)
EXTENDS Rollout
=============================================================================
