---------------------------- MODULE MCPlacement ----------------------------
(* Two servers; two calls of VMCreate run at once.  A range of 6 addresses *)
(* has two for VMs.                                                        *)
EXTENDS Placement, TLC

CONSTANTS s1, s2

(* Nobody is registered, or both are, with a range each like the first.    *)
NoneOrBoth == {(s1 :> None) @@ (s2 :> None), (s1 :> <<0, 6>>) @@ (s2 :> <<6, 6>>)}

(* Nobody is registered; one of the two is.                                *)
Nobody == {(s1 :> None) @@ (s2 :> None)}
OneOld == {(s1 :> <<0, 6>>) @@ (s2 :> None)}

Faults == ("stop" :> 1) @@ ("query" :> 1)

=============================================================================
