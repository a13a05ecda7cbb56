----------------------------- MODULE LeaseLock -----------------------------
(***************************************************************************)
(* What a lock kept as an expiring row of the database promises, and all   *)
(* it promises: one holder at a time, until some holder outstays its       *)
(* lease.  From then on nothing is exclusive any more, because neither the *)
(* late holder nor the one that took the lease over learns of the other.   *)
(*                                                                         *)
(* zeitwork has two such locks: the lease of a build (internal/zeitwork/   *)
(* build.go) and the certificate locks (internal/edgeproxy/                *)
(* certmagic_storage.go).                                                  *)
(***************************************************************************)
EXTENDS FiniteSets, Naturals

CONSTANT Holder

VARIABLES
    holders,   \* who acts as the holder of the lock
    broken     \* some holder has outstayed its lease

vars == <<holders, broken>>

Init ==
    /\ holders = {}
    /\ broken = FALSE

Acquire(h) ==
    /\ holders = {} \/ broken
    /\ holders' = holders \union {h}
    /\ UNCHANGED broken

(* Given back, or its process died.                                        *)
Release(h) ==
    /\ h \in holders
    /\ holders' = holders \ {h}
    /\ UNCHANGED broken

Outstay ==
    /\ holders # {}
    /\ broken' = TRUE
    /\ UNCHANGED holders

Next ==
    \/ \E h \in Holder : Acquire(h)
    \/ \E h \in Holder : Release(h)
    \/ Outstay

Spec == Init /\ [][Next]_vars
=============================================================================
