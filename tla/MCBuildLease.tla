---------------------------- MODULE MCBuildLease ----------------------------
(* Two servers can compete for a lease; a third adds nothing a second does *)
(* not do.                                                                 *)
EXTENDS BuildLease
=============================================================================
