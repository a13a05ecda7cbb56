---------------------------- MODULE Certificates ----------------------------
(***************************************************************************)
(* How a custom domain gets its certificate: reconcileDomain (module       *)
(* DomainVerify) verifies one of the rows that claim the name, the edge    *)
(* proxies of all servers ask for that row in the handshakes that reach    *)
(* them (DecisionFunc in internal/edgeproxy/edgeproxy.go), and the lock of *)
(* the name (module CertLock) keeps them from ordering the certificate     *)
(* twice.  certmagic takes the lock, looks into the storage again, orders, *)
(* stores, unlocks; one order per proxy and name.                          *)
(***************************************************************************)
EXTENDS Naturals, FiniteSets

CONSTANTS
    Edge,         \* the edge proxies
    Domain,       \* rows of domains with the name
    MaxFaults     \* how many kinds of disturbance and mishap may happen

(* A proxy dies, an order outlasts the lock, the issuer refuses an order.  *)
Mishap == {"death", "overrun", "refusal"}

ASSUME BudgetAssumption == MaxFaults \in Nat

VARIABLES
    row, verified, txt, claim, pointsHere, token, pc, copy, conflicts, unchecked,
    faults,
    expires, working, lapsed,
    handshake,    \* how far each proxy is: idle, or the step it takes next
    stored,       \* certmagic_data has the certificate
    mishaps       \* the kinds of mishap that have happened

Domains == INSTANCE DomainVerify
Locks   == INSTANCE CertLock WITH Client <- Edge

lockVars == <<expires, working, lapsed>>
domainVars ==
    <<row, verified, txt, claim, pointsHere, token, pc, copy, conflicts, unchecked,
      faults>>
edgeVars == <<handshake, stored, mishaps>>
vars == <<domainVars, lockVars, edgeVars>>

Init ==
    /\ Domains!Init
    /\ Locks!Init
    /\ handshake = [e \in Edge |-> "idle"]
    /\ stored = FALSE
    /\ mishaps = {}

-----------------------------------------------------------------------------
Suffer(k) ==
    /\ k \notin mishaps
    /\ Cardinality(mishaps) + Cardinality(faults) < MaxFaults
    /\ mishaps' = mishaps \union {k}

At(e, step) == handshake[e] = step
Goto(e, step) == handshake' = [handshake EXCEPT ![e] = step]

(* DomainVerified returns one active row of the name, any of them if there *)
(* are several; only a verified one lets the handshake order.  With        *)
(* another one the handshake is refused, and nothing changes.              *)
Authorized(d) == d \in Domains!Active /\ verified[d]

(* certmagic looks into the storage.                                       *)
Load == stored

Decide(e) ==
    /\ At(e, "idle")
    /\ ~Load
    /\ \E d \in Domain : Authorized(d)
    /\ Goto(e, "lock")
    /\ UNCHANGED <<stored, mishaps, lockVars, domainVars>>

Lock(e) ==
    /\ At(e, "lock")
    /\ Locks!Lock(e)
    /\ Goto(e, IF Load THEN "unlock" ELSE "order")
    /\ UNCHANGED <<stored, mishaps, domainVars>>

(* The handshake fails; the client comes back later.                       *)
LockRefused(e) ==
    /\ At(e, "lock")
    /\ Locks!LockRefused(e)
    /\ Goto(e, "idle")
    /\ UNCHANGED <<stored, mishaps, domainVars>>

(* The order ends and the certificate is stored, or the issuer refuses.    *)
Order(e) ==
    /\ At(e, "order")
    /\ \/ stored' = TRUE /\ UNCHANGED mishaps
       \/ UNCHANGED stored /\ Suffer("refusal")
    /\ Goto(e, "unlock")
    /\ UNCHANGED <<lockVars, domainVars>>

Unlock(e) ==
    /\ At(e, "unlock")
    /\ Locks!Unlock(e)
    /\ Goto(e, "idle")
    /\ UNCHANGED <<stored, mishaps, domainVars>>

(* Five minutes after a lock was taken: its client is gone, or late.       *)
Expire ==
    /\ Locks!Expire
    /\ IF working = {} THEN UNCHANGED mishaps ELSE Suffer("overrun")
    /\ UNCHANGED <<handshake, stored, domainVars>>

Die(e) ==
    /\ Suffer("death")
    /\ Locks!Die(e)
    /\ Goto(e, "idle")
    /\ UNCHANGED <<stored, domainVars>>

Handshake(e) ==
    \/ Decide(e)
    \/ Lock(e)
    \/ LockRefused(e)
    \/ Order(e)
    \/ Unlock(e)

Next ==
    \/ \E e \in Edge : Handshake(e)
    \/ \E e \in Edge : Die(e)
    \/ Expire
    \/ /\ Domains!Next
       /\ Cardinality(mishaps) + Cardinality(faults') <= MaxFaults
       /\ UNCHANGED <<lockVars, edgeVars>>

Spec == Init /\ [][Next]_vars

(* A handshake cannot be refused because of another row.                   *)
DecideAlone(e) == Decide(e) /\ Cardinality(Domains!Active) = 1

(* Clients keep connecting to every proxy, orders end, locks expire and    *)
(* the scheduler visits every row again and again.                         *)
Fairness ==
    /\ \A e \in Edge :
          WF_vars(DecideAlone(e) \/ Lock(e) \/ LockRefused(e) \/ Order(e) \/ Unlock(e))
    /\ WF_vars(Expire)
    /\ \A d \in Domain : WF_vars(Domains!Pass(d) /\ UNCHANGED <<lockVars, edgeVars>>)

FairSpec == Spec /\ Fairness

-----------------------------------------------------------------------------
(* domain.go:73, see DomainVerify: two active rows of one name are never   *)
(* verified both, with the two exceptions named there.                     *)
OneVerified == Domains!OneVerified

(* domain.go:73, see DomainVerify: the same without the first of them.     *)
OneVerifiedEver == Domains!OneVerifiedEver

(* The lock of the name is a lease lock, whatever the proxies do between.  *)
LeaseSpec == Locks!LeaseSpec

(* A row alone with its name whose claim DNS proves for good gets its name *)
(* a certificate, although statements fail, orders are refused, proxies    *)
(* die with the lock and passes of other rows were under way.              *)
Settled == \E d \in Domain : Domains!Active = {d} /\ Domains!Proves(d, txt[d])
Certified == <>[]Settled => <>stored
=============================================================================
