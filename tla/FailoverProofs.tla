--------------------------- MODULE FailoverProofs ---------------------------
(***************************************************************************)
(* For any servers, deployments, VMs, capacities and faults: however many  *)
(* leaders fail servers over at once, a deployment never has two VMs.  The *)
(* argument is about what the open transactions have written: they mark    *)
(* different servers, because a row is locked by its UPDATE; so they       *)
(* delete different VMs, and what one has deleted another cannot still     *)
(* replace; and their new VMs are different ones, because only one at a    *)
(* time is past the advisory lock of the addresses.                        *)
(*                                                                         *)
(* And with room for every VM on every server and a single server lost: a  *)
(* deployment always points to a VM of its own that is not deleted.        *)
(***************************************************************************)
EXTENDS Failover, FiniteSetTheorems, TLAPS

Held == {"live", "ended"}

(* No two transactions have marked one server.                             *)
Exclusive ==
    \A s, t \in Server : s # t => tx[s].marked \intersect tx[t].marked = {}

(* A transaction replaces VMs that exist, on servers it has marked, and    *)
(* replacements of its own, which nobody else has seen yet.                *)
Claimed ==
    \A s \in Server : \A v \in tx[s].todo \union tx[s].gone :
        \/ on[v] \in tx[s].marked /\ row[v] \in Held
        \/ row[v] = "unused" /\ tx[s].gone # {}

(* A VM is deleted once; each replacement is for one deleted VM; what is   *)
(* replaced and does not exist yet is a replacement.                       *)
ReplacementOK(s) ==
    /\ tx[s].todo \intersect tx[s].gone = {}
    /\ \A r \in tx[s].new : /\ r.for \in tx[s].gone /\ row[r.for] \in Held
                            /\ row[r.id] = "unused"
    /\ \A q, r \in tx[s].new : q.for = r.for \/ q.id = r.id => q = r
    /\ \A v \in tx[s].todo : row[v] = "unused" => \E r \in tx[s].new : r.id = v
    /\ \A r \in tx[s].new : r.id \in tx[s].todo \union tx[s].gone => r.to \in tx[s].marked

Replacements == \A s \in Server : ReplacementOK(s)

(* One transaction holds the lock of the addresses.                        *)
Serial == \A s, t \in Server : tx[s].gone # {} /\ tx[t].gone # {} => s = t

TxInv == Exclusive /\ Claimed /\ Replacements /\ Serial

IInv == TypeOK /\ TxInv /\ OneVmPerDeployment

(* All servers are active and no transaction is open.                      *)
LEMMA InitIInv == Init => IInv
  <1> SUFFICES ASSUME Init PROVE IInv
    OBVIOUS
  <1>1. tx \in [Server -> Transaction]
    BY DEF Init, EmptyTx, Transaction
  <1>2. /\ row \in [Vm -> {"unused", "live", "ended", "deleted"}]
        /\ on \in [Vm -> Server \union {None}]
        /\ vmOf \in [Deployment -> Vm]
        /\ owner \in [Vm -> Deployment \union {None}]
    BY PlaceAssumption DEF Init
  <1>3. TypeOK
    BY <1>1, <1>2 DEF Init, TypeOK
  <1>4. TxInv
    BY DEF Init, EmptyTx, TxInv, Exclusive, Claimed, Replacements, ReplacementOK, Serial
  <1>5. OneVmPerDeployment
    BY DEF Init, OneVmPerDeployment
  <1> QED
    BY <1>3, <1>4, <1>5 DEF IInv

USE DEF servers, lead, rows, task

(* What the steps of a failover make of the transaction.                   *)
LEMMA Emptied ==
    ASSUME TypeOK, NEW s \in Server, tx' = [tx EXCEPT ![s] = EmptyTx]
    PROVE  /\ tx' \in [Server -> Transaction]
           /\ \A u \in Server : tx'[u] = IF u = s THEN EmptyTx ELSE tx[u]
  <1>1. EmptyTx \in Transaction
    BY DEF EmptyTx, Transaction
  <1>2. tx \in [Server -> Transaction]
    BY DEF TypeOK
  <1> QED
    BY <1>1, <1>2

LEMMA MarkDeadWrites ==
    ASSUME TypeOK, NEW s \in Server, NEW t \in Server, MarkDead(s, t)
    PROVE  /\ tx' \in [Server -> Transaction]
           /\ \A u \in Server \ {s} : tx'[u] = tx[u]
           /\ tx'[s].todo = VmsToReplace(t) \union PlacedOn(s, t)
           /\ tx'[s].marked = tx[s].marked \union {t}
           /\ tx'[s].gone = tx[s].gone
           /\ tx'[s].new = tx[s].new
  <1>1. tx \in [Server -> Transaction]
    BY DEF TypeOK
  <1>2. tx[s] \in Transaction
    BY <1>1
  <1> DEFINE todo == VmsToReplace(t) \union PlacedOn(s, t)
  <1>3. todo \subseteq Vm
    <2>1. \A r \in tx[s].new : r.id \in Vm
      BY <1>2 DEF Transaction, Replacement
    <2> QED
      BY <2>1 DEF VmsToReplace, PlacedOn
  <1> DEFINE new == [tx[s] EXCEPT !.marked = @ \union {t}, !.todo = todo]
  <1>4. tx' = [tx EXCEPT ![s] = new]
    BY <1>1 DEF MarkDead
  <1>5. /\ new.todo = todo
        /\ new.marked = tx[s].marked \union {t}
        /\ new.gone = tx[s].gone
        /\ new.new = tx[s].new
    BY <1>2 DEF Transaction
  <1>6. new \in Transaction
    BY <1>2, <1>3 DEF Transaction
  <1> HIDE DEF new
  <1> QED
    BY <1>1, <1>4, <1>5, <1>6

(* What a VM stands for is itself, or what the replacement it is was for.  *)
LEMMA OriginalVm ==
    ASSUME NEW s \in Server, tx[s] \in Transaction, NEW v \in Vm
    PROVE  /\ Original(s, v) \in Vm
           /\ \/ Original(s, v) = v /\ \A r \in tx[s].new : r.id # v
              \/ \E r \in tx[s].new : r.id = v /\ Original(s, v) = r.for
  <1>1. CASE \E r \in tx[s].new : r.id = v
    <2>1. (CHOOSE r \in tx[s].new : r.id = v) \in tx[s].new
          /\ (CHOOSE r \in tx[s].new : r.id = v).id = v
      BY <1>1
    <2> QED
      BY <1>1, <2>1 DEF Original, Transaction, Replacement
  <1>2. CASE ~\E r \in tx[s].new : r.id = v
    BY <1>2 DEF Original
  <1> QED
    BY <1>1, <1>2

LEMMA ReplaceWrites ==
    ASSUME TypeOK, NEW s \in Server, NEW v \in Vm, NEW t \in Server, ReplaceVM(s, v, t)
    PROVE  /\ tx' \in [Server -> Transaction]
           /\ \A u \in Server \ {s} : tx'[u] = tx[u]
           /\ tx'[s].todo = tx[s].todo \ {v}
           /\ tx'[s].marked = tx[s].marked
           /\ tx'[s].gone = tx[s].gone \union {v}
           /\ \E id \in Fresh :
                 tx'[s].new = {r \in tx[s].new : r.id # v}
                                \union {[for |-> Original(s, v), to |-> t, id |-> id]}
  <1> DEFINE id == CHOOSE w \in Fresh : TRUE
  <1>1. tx \in [Server -> Transaction]
    BY DEF TypeOK
  <1>2. tx[s] \in Transaction
    BY <1>1
  <1>3. id \in Fresh
    BY DEF ReplaceVM
  <1>4. id \in Vm
    BY <1>3 DEF Fresh
  <1> DEFINE kept == {r \in tx[s].new : r.id # v}
             added == [for |-> Original(s, v), to |-> t, id |-> id]
             new == [tx[s] EXCEPT !.todo = @ \ {v}, !.gone = @ \union {v},
                                  !.new = {r \in @ : r.id # v} \union {added}]
  <1>5. tx' = [tx EXCEPT ![s] = new]
    BY <1>1 DEF ReplaceVM
  <1> HIDE DEF id
  <1>6. /\ new.todo = tx[s].todo \ {v}
        /\ new.marked = tx[s].marked
        /\ new.gone = tx[s].gone \union {v}
        /\ new.new = kept \union {added}
    BY <1>2 DEF Transaction
  <1>7. added \in Replacement
    BY <1>2, <1>4, OriginalVm DEF Replacement
  <1>8. new \in Transaction
    BY <1>2, <1>7 DEF Transaction
  <1> HIDE DEF new
  <1>9. tx'[s] = new /\ \A u \in Server \ {s} : tx'[u] = tx[u]
    BY <1>1, <1>5
  <1> QED
    BY <1>1, <1>3, <1>5, <1>6, <1>8, <1>9

LEMMA FailsWrites ==
    ASSUME TypeOK, NEW s \in Server, NEW v \in Vm, ReplaceFails(s, v)
    PROVE  /\ tx' \in [Server -> Transaction]
           /\ \A u \in Server \ {s} : tx'[u] = tx[u]
           /\ tx'[s].todo = {}
           /\ tx'[s].marked = tx[s].marked
           /\ tx'[s].gone = tx[s].gone \union {v}
           /\ tx'[s].new = tx[s].new
  <1>1. tx \in [Server -> Transaction]
    BY DEF TypeOK
  <1>2. tx[s] \in Transaction
    BY <1>1
  <1> DEFINE new == [tx[s] EXCEPT !.todo = {}, !.gone = @ \union {v}]
  <1>3. tx' = [tx EXCEPT ![s] = new]
    BY <1>1 DEF ReplaceFails
  <1>4. /\ new.todo = {}
        /\ new.marked = tx[s].marked
        /\ new.gone = tx[s].gone \union {v}
        /\ new.new = tx[s].new
    BY <1>2 DEF Transaction
  <1>5. new \in Transaction
    BY <1>2 DEF Transaction
  <1> HIDE DEF new
  <1> QED
    BY <1>1, <1>3, <1>4, <1>5

(* What Commit writes: a VM of a replacement takes the server chosen for   *)
(* it, and the deployment of the VM it replaces.                           *)
Ids(s) == {r.id : r \in tx[s].new}
Of(s, v) == CHOOSE r \in tx[s].new : r.id = v

LEMMA OfId ==
    ASSUME TypeOK, NEW s \in Server, NEW v \in Ids(s)
    PROVE  /\ Of(s, v) \in tx[s].new
           /\ Of(s, v).id = v
           /\ Of(s, v).for \in Vm
           /\ Of(s, v).to \in Server
           /\ v \in Vm
  <1>1. \E r \in tx[s].new : r.id = v
    BY DEF Ids
  <1>2. Of(s, v) \in tx[s].new /\ Of(s, v).id = v
    BY <1>1 DEF Of
  <1>3. tx[s] \in Transaction
    BY DEF TypeOK
  <1>4. Of(s, v) \in Replacement
    BY <1>2, <1>3 DEF Transaction
  <1> QED
    BY <1>2, <1>4 DEF Replacement

LEMMA CommitWrites ==
    ASSUME NEW s \in Server, Commit(s)
    PROVE  /\ status' = [x \in Server |-> IF x \in tx[s].marked THEN "dead"
                                         ELSE status[x]]
           /\ row' = [v \in Vm |-> IF v \in tx[s].gone THEN "deleted"
                                   ELSE IF v \in Ids(s) THEN "live" ELSE row[v]]
           /\ on' = [v \in Vm |-> IF v \in Ids(s) THEN Of(s, v).to ELSE on[v]]
           /\ owner' = [v \in Vm |-> IF v \in Ids(s) THEN owner[Of(s, v).for]
                                     ELSE owner[v]]
           /\ vmOf' = [d \in Deployment |-> Linked(d, tx[s].new)]
  BY DEF Commit, Ids, Of

LEMMA CommitTypes ==
    ASSUME TypeOK, NEW s \in Server, Commit(s)
    PROVE  /\ row' \in [Vm -> {"unused", "live", "ended", "deleted"}]
           /\ on' \in [Vm -> Server \union {None}]
           /\ vmOf' \in [Deployment -> Vm]
           /\ owner' \in [Vm -> Deployment \union {None}]
           /\ status' \in [Server -> {"active", "dead"}]
  <1>1. tx[s].new \subseteq Replacement
    BY DEF TypeOK, Transaction
  <1>2. row \in [Vm -> {"unused", "live", "ended", "deleted"}]
    BY DEF TypeOK
  <1>3. on \in [Vm -> Server \union {None}] /\ owner \in [Vm -> Deployment \union {None}]
    BY DEF TypeOK
  <1>4. vmOf \in [Deployment -> Vm] /\ status \in [Server -> {"active", "dead"}]
    BY DEF TypeOK
  <1>5. on' \in [Vm -> Server \union {None}]
    BY <1>3, OfId, CommitWrites
  <1>6. owner' \in [Vm -> Deployment \union {None}]
    BY <1>3, OfId, CommitWrites
  <1>7. ASSUME NEW d \in Deployment PROVE Linked(d, tx[s].new) \in Vm
    <2>1. CASE \E r \in tx[s].new : r.for = vmOf[d]
      <3>1. (CHOOSE r \in tx[s].new : r.for = vmOf[d]) \in tx[s].new
        BY <2>1
      <3> QED
        BY <1>1, <2>1, <3>1 DEF Linked, Replacement
    <2>2. CASE ~\E r \in tx[s].new : r.for = vmOf[d]
      BY <1>4, <2>2 DEF Linked
    <2> QED
      BY <2>1, <2>2
  <1>8. vmOf' \in [Deployment -> Vm]
    BY <1>7, CommitWrites
  <1>9. row' \in [Vm -> {"unused", "live", "ended", "deleted"}]
    BY <1>2, CommitWrites
  <1>10. status' \in [Server -> {"active", "dead"}]
    BY <1>4, CommitWrites
  <1> QED
    BY <1>5, <1>6, <1>8, <1>9, <1>10

(* Every step keeps the types.                                             *)
LEMMA TypeStep == TypeOK /\ [Next]_vars => TypeOK'
  <1> SUFFICES ASSUME TypeOK, [Next]_vars PROVE TypeOK'
    OBVIOUS
  <1> USE DEF TypeOK
  <1>1. ASSUME NEW k \in FaultKind, Suffer(k) PROVE faults' \in [FaultKind -> Nat]
    <2>1. faults \in [FaultKind -> Nat] /\ faults[k] \in Nat
      OBVIOUS
    <2> QED
      BY <1>1, <2>1 DEF Suffer
  <1>2. {"crash", "late", "drop", "abort", "exit"} \subseteq FaultKind
    BY DEF FaultKind
  <1>3. ASSUME NEW s \in Server, Heartbeat(s) \/ Register(s) PROVE TypeOK'
    <2>1. /\ status' \in [Server -> {"active", "dead"}]
          /\ beat' \in [Server -> {"fresh", "late", "expired"}]
      BY <1>3 DEF Heartbeat, Register
    <2>2. up' \in [Server -> BOOLEAN]
      BY <1>3 DEF Heartbeat, Register
    <2>3. UNCHANGED <<lead, rows, task, faults>>
      BY <1>3 DEF Heartbeat, Register
    <2> QED
      BY <2>1, <2>2, <2>3
  <1>4. ASSUME NEW s \in Server, Silence(s) PROVE TypeOK'
    <2>1. faults' \in [FaultKind -> Nat]
      BY <1>1, <1>2, <1>4 DEF Silence
    <2>2. Later[beat[s]] \in {"late", "expired"}
      BY DEF Later
    <2> QED
      BY <1>4, <2>1, <2>2 DEF Silence
  <1>5. ASSUME NEW s \in Server, Crash(s) PROVE TypeOK'
    <2>1. faults' \in [FaultKind -> Nat]
      BY <1>1, <1>2, <1>5 DEF Crash
    <2>2. tx' \in [Server -> Transaction]
      BY <1>5, Emptied DEF Crash
    <2>3. lock' \in Server \union {None}
      BY <1>5 DEF Crash, LockAfter
    <2>4. up' \in [Server -> BOOLEAN] /\ leader' \in [Server -> BOOLEAN]
      BY <1>5 DEF Crash
    <2>5. pc' \in [Server -> {"idle", "mark", "vm"}] /\ found' \in [Server -> SUBSET Server]
      BY <1>5 DEF Crash
    <2>6. UNCHANGED <<status, beat, rows>>
      BY <1>5 DEF Crash
    <2> QED
      BY <2>1, <2>2, <2>3, <2>4, <2>5, <2>6
  <1>6. ASSUME NEW s \in Server, BecomeLeader(s) PROVE TypeOK'
    BY <1>6 DEF BecomeLeader
  <1>7. ASSUME NEW s \in Server, SessionDrops(s) PROVE TypeOK'
    BY <1>1, <1>2, <1>7 DEF SessionDrops
  <1>8. ASSUME NEW s \in Server, FindDead(s) PROVE TypeOK'
    BY <1>8 DEF FindDead, Dead
  <1>9. ASSUME NEW s \in Server, NEW t \in Server, MarkDead(s, t) PROVE TypeOK'
    <2>1. tx' \in [Server -> Transaction]
      BY <1>9, MarkDeadWrites
    <2>2. pc' \in [Server -> {"idle", "mark", "vm"}] /\ found' \in [Server -> SUBSET Server]
      BY <1>9 DEF MarkDead
    <2>3. UNCHANGED <<servers, lead, rows, faults>>
      BY <1>9 DEF MarkDead
    <2> QED
      BY <2>1, <2>2, <2>3
  <1>10. ASSUME NEW s \in Server, NEW v \in Vm, NEW t \in Server, ReplaceVM(s, v, t)
         PROVE  TypeOK'
    <2>1. tx' \in [Server -> Transaction]
      BY <1>10, ReplaceWrites
    <2>2. UNCHANGED <<servers, lead, rows, pc, found, faults>>
      BY <1>10 DEF ReplaceVM
    <2> QED
      BY <2>1, <2>2
  <1>11. ASSUME NEW s \in Server, NEW v \in Vm, ReplaceFails(s, v) PROVE TypeOK'
    <2>1. tx' \in [Server -> Transaction]
      BY <1>11, FailsWrites
    <2>2. UNCHANGED <<servers, lead, rows, pc, found, faults>>
      BY <1>11 DEF ReplaceFails
    <2> QED
      BY <2>1, <2>2
  <1>12. ASSUME NEW s \in Server, NextServer(s) PROVE TypeOK'
    BY <1>12 DEF NextServer
  <1>13. ASSUME NEW s \in Server, Commit(s) PROVE TypeOK'
    <2>1. tx' \in [Server -> Transaction]
      BY <1>13, Emptied DEF Commit
    <2>2. /\ pc' \in [Server -> {"idle", "mark", "vm"}]
          /\ UNCHANGED <<beat, up, lead, found, faults>>
      BY <1>13 DEF Commit
    <2> QED
      BY <1>13, <2>1, <2>2, CommitTypes
  <1>14. ASSUME NEW s \in Server, RollBack(s), faults' \in [FaultKind -> Nat]
         PROVE  TypeOK'
    <2>1. tx' \in [Server -> Transaction]
      BY <1>14, Emptied DEF RollBack
    <2>2. pc' \in [Server -> {"idle", "mark", "vm"}] /\ found' \in [Server -> SUBSET Server]
      BY <1>14 DEF RollBack
    <2>3. UNCHANGED <<servers, lead, rows>>
      BY <1>14 DEF RollBack
    <2> QED
      BY <1>14, <2>1, <2>2, <2>3
  <1>15. ASSUME NEW s \in Server, Abort(s) \/ DeadlockVictim(s) PROVE TypeOK'
    BY <1>1, <1>2, <1>14, <1>15 DEF Abort, DeadlockVictim
  <1>16. ASSUME NEW v \in Vm, VmEnds(v) PROVE TypeOK'
    BY <1>1, <1>2, <1>16 DEF VmEnds
  <1>17. ASSUME NEW v \in Vm, VmRecovers(v) PROVE TypeOK'
    BY <1>17 DEF VmRecovers
  <1>18. CASE UNCHANGED vars
    BY <1>18 DEF vars
  <1> QED
    BY <1>3, <1>4, <1>5, <1>6, <1>7, <1>8, <1>9, <1>10, <1>11, <1>12, <1>13,
       <1>15, <1>16, <1>17, <1>18 DEF Next, Duty

(* The other transactions do not notice a step of one that leaves the VMs  *)
(* as they are.                                                            *)
LEMMA TxUnchanged ==
    ASSUME TxInv, UNCHANGED <<tx, row, on>>
    PROVE  TxInv'
  BY DEF TxInv, Exclusive, Claimed, Replacements, ReplacementOK, Serial

LEMMA TxEmptied ==
    ASSUME TypeOK, TxInv, NEW s \in Server, tx' = [tx EXCEPT ![s] = EmptyTx],
           UNCHANGED <<row, on>>
    PROVE  TxInv'
  <1>1. \A u \in Server : tx'[u] = IF u = s THEN EmptyTx ELSE tx[u]
    BY Emptied
  <1>2. /\ EmptyTx.todo = {} /\ EmptyTx.marked = {}
        /\ EmptyTx.gone = {} /\ EmptyTx.new = {}
    BY DEF EmptyTx
  <1>3. Exclusive'
    BY <1>1, <1>2 DEF TxInv, Exclusive
  <1>4. Claimed'
    BY <1>1, <1>2 DEF TxInv, Claimed
  <1>5. Replacements'
    <2> SUFFICES ASSUME NEW u \in Server PROVE ReplacementOK(u)'
      BY DEF Replacements
    <2> QED
      BY <1>1, <1>2 DEF TxInv, Replacements, ReplacementOK
  <1>6. Serial'
    BY <1>1, <1>2 DEF TxInv, Serial
  <1> QED
    BY <1>3, <1>4, <1>5, <1>6 DEF TxInv

(* A server that is marked is in no other transaction, and its VMs are not *)
(* yet replaced by this one.                                               *)
LEMMA TxMarkDead ==
    ASSUME TypeOK, TxInv, NEW s \in Server, NEW t \in Server, MarkDead(s, t)
    PROVE  TxInv'
  <1>1. /\ \A u \in Server \ {s} : tx'[u] = tx[u]
        /\ tx'[s].todo = VmsToReplace(t) \union PlacedOn(s, t)
        /\ tx'[s].marked = tx[s].marked \union {t}
        /\ tx'[s].gone = tx[s].gone
        /\ tx'[s].new = tx[s].new
    BY MarkDeadWrites
  <1>2. \A u \in Server : t \notin tx[u].marked
    BY DEF MarkDead, Locked
  <1>3. UNCHANGED <<row, on>>
    BY DEF MarkDead
  <1>4. Exclusive'
    BY <1>1, <1>2 DEF TxInv, Exclusive
  <1>5. \A v \in VmsToReplace(t) : on[v] = t /\ row[v] \in Held
    BY DEF VmsToReplace, Held
  <1>6. \A v \in PlacedOn(s, t) : \E r \in tx[s].new : r.id = v /\ r.to = t
    BY DEF PlacedOn
  <1>7. ReplacementOK(s)
    BY DEF TxInv, Replacements
  <1>8. Claimed'
    <2>1. \A v \in PlacedOn(s, t) : row[v] = "unused" /\ tx[s].gone # {}
      BY <1>6, <1>7 DEF ReplacementOK
    <2> QED
      BY <1>1, <1>3, <1>5, <2>1 DEF TxInv, Claimed
  <1>9. ReplacementOK(s)'
    <2>1. VmsToReplace(t) \intersect tx[s].gone = {}
      BY <1>2, <1>5 DEF TxInv, Claimed, Held
    <2>2. PlacedOn(s, t) \intersect tx[s].gone = {}
      BY <1>2, <1>6, <1>7 DEF ReplacementOK
    <2>3. \A v \in tx'[s].todo : row'[v] = "unused" => \E r \in tx'[s].new : r.id = v
      BY <1>1, <1>3, <1>5, <1>6 DEF Held
    <2>4. \A r \in tx'[s].new :
             r.id \in tx'[s].todo \union tx'[s].gone => r.to \in tx'[s].marked
      <3> SUFFICES ASSUME NEW r \in tx[s].new, r.id \in tx'[s].todo \union tx[s].gone
                   PROVE  r.to \in tx'[s].marked
        BY <1>1
      <3>1. CASE r.id \in tx[s].gone
        BY <1>1, <1>7, <3>1 DEF ReplacementOK
      <3>2. CASE r.id \in VmsToReplace(t)
        BY <1>5, <1>7, <3>2 DEF ReplacementOK, Held
      <3>3. CASE r.id \in PlacedOn(s, t)
        BY <1>1, <1>6, <1>7, <3>3 DEF ReplacementOK
      <3> QED
        BY <1>1, <3>1, <3>2, <3>3
    <2> QED
      BY <1>1, <1>3, <1>7, <2>1, <2>2, <2>3, <2>4 DEF ReplacementOK
  <1>10. Replacements'
    <2> SUFFICES ASSUME NEW u \in Server \ {s} PROVE ReplacementOK(u)'
      BY <1>9 DEF Replacements
    <2> QED
      BY <1>1, <1>3 DEF TxInv, Replacements, ReplacementOK
  <1>11. Serial'
    BY <1>1 DEF TxInv, Serial
  <1> QED
    BY <1>4, <1>8, <1>10, <1>11 DEF TxInv

(* A VM that is replaced stands for one that exists, and that no other     *)
(* replacement of the transaction is for.                                  *)
LEMMA OriginalTaken ==
    ASSUME TypeOK, TxInv, NEW s \in Server, NEW v \in tx[s].todo
    PROVE  /\ Original(s, v) \in tx[s].gone \union {v}
           /\ Original(s, v) \in Vm /\ row[Original(s, v)] \in Held
           /\ \A r \in tx[s].new : r.for = Original(s, v) =>
                                      r.id = v /\ r.to \in tx[s].marked
           /\ \/ Original(s, v) \in tx[s].gone
              \/ Original(s, v) = v /\ on[v] \in tx[s].marked
  <1>1. tx[s] \in Transaction /\ v \in Vm
    BY DEF TypeOK, Transaction
  <1>2. ReplacementOK(s)
    BY DEF TxInv, Replacements
  <1>3. Original(s, v) \in Vm
    BY <1>1, OriginalVm
  <1>4. CASE Original(s, v) = v /\ \A r \in tx[s].new : r.id # v
    <2>1. row[v] \in Held /\ on[v] \in tx[s].marked
      BY <1>2, <1>4 DEF TxInv, Claimed, ReplacementOK
    <2>2. \A r \in tx[s].new : r.for # v
      BY <1>2 DEF ReplacementOK
    <2> QED
      BY <1>3, <1>4, <2>1, <2>2
  <1>5. CASE \E r \in tx[s].new : r.id = v /\ Original(s, v) = r.for
    <2>1. PICK q \in tx[s].new : q.id = v /\ Original(s, v) = q.for
      BY <1>5
    <2>2. q.for \in tx[s].gone /\ row[q.for] \in Held /\ q.to \in tx[s].marked
      BY <1>2, <2>1 DEF ReplacementOK
    <2>3. \A r \in tx[s].new : r.for = q.for => r = q
      BY <1>2 DEF ReplacementOK
    <2> QED
      BY <1>3, <2>1, <2>2, <2>3
  <1> QED
    BY <1>1, <1>4, <1>5, OriginalVm

(* Past the advisory lock, a transaction is alone with its replacement.    *)
LEMMA TxReplaceVM ==
    ASSUME TypeOK, TxInv, NEW s \in Server, NEW v \in Vm, NEW t \in Server,
           ReplaceVM(s, v, t)
    PROVE  TxInv'
  <1>1. /\ \A u \in Server \ {s} : tx'[u] = tx[u]
        /\ tx'[s].todo = tx[s].todo \ {v}
        /\ tx'[s].marked = tx[s].marked
        /\ tx'[s].gone = tx[s].gone \union {v}
    BY ReplaceWrites
  <1>2. PICK id \in Fresh :
          tx'[s].new = {r \in tx[s].new : r.id # v}
                         \union {[for |-> Original(s, v), to |-> t, id |-> id]}
    BY ReplaceWrites
  <1>3. UNCHANGED <<row, on>> /\ v \in tx[s].todo /\ IpLockFree(s)
    BY DEF ReplaceVM
  <1>4. ReplacementOK(s)
    BY DEF TxInv, Replacements
  <1>5. Exclusive'
    BY <1>1 DEF TxInv, Exclusive
  <1>6. Claimed'
    BY <1>1, <1>3 DEF TxInv, Claimed
  <1>7. row[id] = "unused" /\ id \notin tx[s].gone /\ \A r \in tx[s].new : r.id # id
    BY <1>2 DEF Fresh
  <1>8. id \notin tx[s].todo
    BY <1>4, <1>7 DEF ReplacementOK
  <1> DEFINE kept == {r \in tx[s].new : r.id # v}
             added == [for |-> Original(s, v), to |-> t, id |-> id]
             o == Original(s, v)
  <1>9. o \in tx[s].gone \union {v} /\ row[o] \in Held /\ \A r \in kept : r.for # o
    BY <1>3, OriginalTaken
  <1>10. added.for = o /\ added.id = id /\ added.to = t
    OBVIOUS
  <1>11. tx'[s].new = kept \union {added}
    BY <1>2
  <1>12. kept \subseteq tx[s].new /\ \A r \in kept : r.id # v
    OBVIOUS
  <1>13. \A r \in tx[s].new : r.id # v => r \in kept
    OBVIOUS
  <1> HIDE DEF added, kept, o
  <1>14. ReplacementOK(s)'
    <2>1. tx'[s].todo \intersect tx'[s].gone = {}
      BY <1>1, <1>4 DEF ReplacementOK
    <2>2. \A r \in tx'[s].new : /\ r.for \in tx'[s].gone /\ row'[r.for] \in Held
                                /\ row'[r.id] = "unused"
      BY <1>1, <1>3, <1>4, <1>7, <1>9, <1>10, <1>11, <1>12 DEF ReplacementOK
    <2>3. \A q, r \in tx'[s].new : q.for = r.for \/ q.id = r.id => q = r
      BY <1>4, <1>7, <1>9, <1>10, <1>11, <1>12 DEF ReplacementOK
    <2>4. \A w \in tx'[s].todo : row'[w] = "unused" => \E r \in tx'[s].new : r.id = w
      BY <1>1, <1>3, <1>4, <1>11, <1>13 DEF ReplacementOK
    <2>5. \A r \in tx'[s].new :
             r.id \in tx'[s].todo \union tx'[s].gone => r.to \in tx'[s].marked
      BY <1>1, <1>3, <1>4, <1>7, <1>8, <1>10, <1>11, <1>12 DEF ReplacementOK
    <2> QED
      BY <2>1, <2>2, <2>3, <2>4, <2>5 DEF ReplacementOK
  <1>15. Replacements'
    <2> SUFFICES ASSUME NEW u \in Server \ {s} PROVE ReplacementOK(u)'
      BY <1>14 DEF Replacements
    <2> QED
      BY <1>1, <1>3 DEF TxInv, Replacements, ReplacementOK
  <1>16. Serial'
    BY <1>1, <1>3 DEF TxInv, Serial, IpLockFree
  <1> QED
    BY <1>5, <1>6, <1>15, <1>16 DEF TxInv

LEMMA TxReplaceFails ==
    ASSUME TypeOK, TxInv, NEW s \in Server, NEW v \in Vm, ReplaceFails(s, v)
    PROVE  TxInv'
  <1>1. /\ \A u \in Server \ {s} : tx'[u] = tx[u]
        /\ tx'[s].todo = {}
        /\ tx'[s].marked = tx[s].marked
        /\ tx'[s].gone = tx[s].gone \union {v}
        /\ tx'[s].new = tx[s].new
    BY FailsWrites
  <1>2. UNCHANGED <<row, on>> /\ v \in tx[s].todo /\ IpLockFree(s)
    BY DEF ReplaceFails
  <1>3. Exclusive'
    BY <1>1 DEF TxInv, Exclusive
  <1>4. Claimed'
    BY <1>1, <1>2 DEF TxInv, Claimed
  <1>5. Replacements'
    <2> SUFFICES ASSUME NEW u \in Server PROVE ReplacementOK(u)'
      BY DEF Replacements
    <2> QED
      BY <1>1, <1>2 DEF TxInv, Replacements, ReplacementOK
  <1>6. Serial'
    BY <1>1, <1>2 DEF TxInv, Serial, IpLockFree
  <1> QED
    BY <1>3, <1>4, <1>5, <1>6 DEF TxInv

(* What one transaction commits is none of what another has claimed, and   *)
(* the other has no replacement of its own yet.                            *)
LEMMA TxCommit ==
    ASSUME TypeOK, TxInv, NEW s \in Server, Commit(s)
    PROVE  TxInv'
  <1>1. \A u \in Server : tx'[u] = IF u = s THEN EmptyTx ELSE tx[u]
    BY Emptied DEF Commit
  <1>2. /\ EmptyTx.todo = {} /\ EmptyTx.marked = {}
        /\ EmptyTx.gone = {} /\ EmptyTx.new = {}
    BY DEF EmptyTx
  <1>3. Exclusive'
    BY <1>1, <1>2 DEF TxInv, Exclusive
  <1>4. Serial'
    BY <1>1, <1>2 DEF TxInv, Serial
  <1>5. \A x \in Ids(s) : row[x] = "unused"
    BY DEF Ids, TxInv, Replacements, ReplacementOK
  <1>6. \A u \in Server : tx[u] \in Transaction
    BY DEF TypeOK
  <1>7. ASSUME NEW u \in Server \ {s}, tx[u].gone # {}
        PROVE  \A v \in Vm : row'[v] = row[v] /\ on'[v] = on[v]
    <2>1. tx[s].gone = {}
      BY <1>7 DEF TxInv, Serial
    <2>2. Ids(s) = {}
      BY <2>1 DEF Ids, TxInv, Replacements, ReplacementOK
    <2> QED
      BY <2>1, <2>2, CommitWrites
  <1>8. ASSUME NEW u \in Server \ {s}, NEW v \in tx[u].todo \union tx[u].gone
        PROVE  /\ \/ on'[v] \in tx[u].marked /\ row'[v] \in Held
                  \/ row'[v] = "unused" /\ tx[u].gone # {}
               /\ row'[v] = row[v]
    <2>1. v \in Vm
      BY <1>6 DEF Transaction
    <2>2. CASE tx[u].gone # {}
      BY <1>7, <2>1, <2>2 DEF TxInv, Claimed
    <2>3. CASE tx[u].gone = {}
      <3>1. on[v] \in tx[u].marked /\ row[v] \in Held
        BY <2>3 DEF TxInv, Claimed
      <3>2. v \notin Ids(s)
        BY <1>5, <3>1 DEF Held
      <3>3. v \notin tx[s].gone
        BY <3>1 DEF TxInv, Claimed, Exclusive, Held
      <3> QED
        BY <2>1, <3>1, <3>2, <3>3, CommitWrites
    <2> QED
      BY <2>2, <2>3
  <1>9. Claimed'
    BY <1>1, <1>2, <1>8 DEF Claimed
  <1>10. ASSUME NEW u \in Server \ {s}, NEW r \in tx[u].new
         PROVE  row'[r.id] = row[r.id] /\ row'[r.for] = row[r.for]
    <2>1. tx[u].gone # {}
      BY DEF TxInv, Replacements, ReplacementOK
    <2>2. r.id \in Vm /\ r.for \in Vm
      BY <1>6 DEF Transaction, Replacement
    <2> QED
      BY <1>7, <2>1, <2>2
  <1>11. Replacements'
    <2> SUFFICES ASSUME NEW u \in Server PROVE ReplacementOK(u)'
      BY DEF Replacements
    <2>1. CASE u = s
      BY <1>1, <1>2, <2>1 DEF ReplacementOK
    <2>2. CASE u # s
      <3>1. ReplacementOK(u) /\ tx'[u] = tx[u]
        BY <1>1, <2>2 DEF TxInv, Replacements
      <3>2. \A v \in tx[u].todo : row'[v] = row[v]
        BY <1>8, <2>2
      <3>3. \A r \in tx[u].new : row'[r.id] = row[r.id] /\ row'[r.for] = row[r.for]
        BY <1>10, <2>2
      <3> QED
        BY <3>1, <3>2, <3>3 DEF ReplacementOK
    <2> QED
      BY <2>1, <2>2
  <1> QED
    BY <1>3, <1>4, <1>9, <1>11 DEF TxInv

(* A VM that ends or recovers stays one that is held.                      *)
LEMMA TxVm ==
    ASSUME TypeOK, TxInv, NEW v \in Vm, VmEnds(v) \/ VmRecovers(v)
    PROVE  TxInv'
  <1>1. UNCHANGED <<tx, on>>
    BY DEF VmEnds, VmRecovers
  <1>2. \A w \in Vm : (row[w] \in Held <=> row'[w] \in Held)
                      /\ (row[w] = "unused" <=> row'[w] = "unused")
    BY DEF TypeOK, VmEnds, VmRecovers, Held
  <1>3. \A u \in Server : tx[u] \in Transaction
    BY DEF TypeOK
  <1>4. Claimed'
    BY <1>1, <1>2, <1>3 DEF TxInv, Claimed, Transaction
  <1>5. Replacements'
    <2> SUFFICES ASSUME NEW u \in Server PROVE ReplacementOK(u)'
      BY DEF Replacements
    <2>1. ReplacementOK(u) /\ tx' = tx
      BY <1>1 DEF TxInv, Replacements
    <2>2. \A r \in tx[u].new : r.id \in Vm /\ r.for \in Vm
      BY <1>3 DEF Transaction, Replacement
    <2>3. \A w \in tx[u].todo : w \in Vm
      BY <1>3 DEF Transaction
    <2> QED
      BY <1>2, <2>1, <2>2, <2>3 DEF ReplacementOK
  <1> QED
    BY <1>1, <1>4, <1>5 DEF TxInv, Exclusive, Serial

LEMMA TxStep == TypeOK /\ TxInv /\ [Next]_vars => TxInv'
  <1> SUFFICES ASSUME TypeOK, TxInv, [Next]_vars PROVE TxInv'
    OBVIOUS
  <1>1. ASSUME NEW s \in Server,
               \/ Heartbeat(s) \/ Silence(s) \/ Register(s) \/ BecomeLeader(s)
               \/ SessionDrops(s) \/ FindDead(s) \/ NextServer(s)
        PROVE  TxInv'
    <2>1. UNCHANGED <<tx, row, on>>
      BY <1>1 DEF Heartbeat, Silence, Register, BecomeLeader, SessionDrops,
                  FindDead, NextServer
    <2> QED
      BY <2>1, TxUnchanged
  <1>2. ASSUME NEW s \in Server, Crash(s) \/ Abort(s) \/ DeadlockVictim(s)
        PROVE  TxInv'
    <2>1. tx' = [tx EXCEPT ![s] = EmptyTx] /\ UNCHANGED <<row, on>>
      BY <1>2 DEF Crash, Abort, DeadlockVictim, RollBack
    <2> QED
      BY <2>1, TxEmptied
  <1>3. ASSUME UNCHANGED vars PROVE TxInv'
    BY <1>3, TxUnchanged DEF vars
  <1> QED
    BY <1>1, <1>2, <1>3, TxMarkDead, TxReplaceVM, TxReplaceFails, TxCommit, TxVm
       DEF Next, Duty

(* A commit gives every VM that is held afterwards the deployment of one   *)
(* that was held before, and no two of them the same one's.                *)
LEMMA OneVmCommit ==
    ASSUME TypeOK, TxInv, OneVmPerDeployment, NEW s \in Server, Commit(s)
    PROVE  OneVmPerDeployment'
  <1> DEFINE Src(x) == IF x \in Ids(s) THEN Of(s, x).for ELSE x
  <1>1. ASSUME NEW x \in Vm, row'[x] \in Held
        PROVE  /\ Src(x) \in Vm /\ row[Src(x)] \in Held
               /\ owner'[x] = owner[Src(x)]
               /\ x \notin tx[s].gone
               /\ x \in Ids(s) => Src(x) \in tx[s].gone
    <2>1. x \notin tx[s].gone
      BY <1>1, CommitWrites DEF Held
    <2>2. CASE x \in Ids(s)
      <3>1. /\ Of(s, x).for \in Vm /\ Of(s, x).for \in tx[s].gone
            /\ row[Of(s, x).for] \in Held
        BY <2>2, OfId DEF TxInv, Replacements, ReplacementOK
      <3> QED
        BY <2>1, <2>2, <3>1, CommitWrites
    <2>3. CASE x \notin Ids(s)
      BY <1>1, <2>1, <2>3, CommitWrites
    <2> QED
      BY <2>2, <2>3
  <1>2. ASSUME NEW v \in Vm, NEW w \in Vm, v # w, row'[v] \in Held, row'[w] \in Held
        PROVE  Src(v) # Src(w)
    <2>1. CASE v \in Ids(s) /\ w \in Ids(s)
      <3>1. Of(s, v) # Of(s, w)
        BY <1>2, <2>1, OfId
      <3>2. Of(s, v).for # Of(s, w).for
        BY <2>1, <3>1, OfId DEF TxInv, Replacements, ReplacementOK
      <3> QED
        BY <2>1, <3>2
    <2>2. CASE v \notin Ids(s) \/ w \notin Ids(s)
      BY <1>1, <1>2, <2>2
    <2> QED
      BY <2>1, <2>2
  <1> HIDE DEF Src
  <1>3. \A v, w \in Vm : v # w /\ owner[v] = owner[w] /\ row[v] \in Held
                         => row[w] \notin Held
    BY DEF OneVmPerDeployment, Held
  <1>4. ASSUME NEW v \in Vm, NEW w \in Vm, v # w, owner'[v] = owner'[w],
               row'[v] \in Held, row'[w] \in Held
        PROVE  FALSE
    BY <1>1, <1>2, <1>3, <1>4
  <1> QED
    BY <1>4 DEF OneVmPerDeployment, Held

LEMMA OneVmStep == IInv /\ [Next]_vars => OneVmPerDeployment'
  <1> SUFFICES ASSUME IInv, [Next]_vars PROVE OneVmPerDeployment'
    OBVIOUS
  <1> USE DEF IInv
  <1>1. ASSUME UNCHANGED <<row, owner>> PROVE OneVmPerDeployment'
    BY <1>1 DEF OneVmPerDeployment
  <1>2. ASSUME NEW v \in Vm, VmEnds(v) \/ VmRecovers(v) PROVE OneVmPerDeployment'
    <2>1. \A w \in Vm : row[w] \in Held <=> row'[w] \in Held
      BY <1>2 DEF TypeOK, VmEnds, VmRecovers, Held
    <2>2. owner' = owner
      BY <1>2 DEF VmEnds, VmRecovers
    <2> QED
      BY <2>1, <2>2 DEF OneVmPerDeployment, Held
  <1>3. ASSUME NEW s \in Server,
               \/ Heartbeat(s) \/ Silence(s) \/ Register(s) \/ BecomeLeader(s)
               \/ SessionDrops(s) \/ FindDead(s) \/ NextServer(s)
               \/ Crash(s) \/ Abort(s) \/ DeadlockVictim(s)
        PROVE  UNCHANGED <<row, owner>>
    BY <1>3 DEF Heartbeat, Silence, Register, BecomeLeader, SessionDrops, FindDead,
                NextServer, Crash, Abort, DeadlockVictim, RollBack
  <1>4. ASSUME NEW s \in Server, NEW t \in Server, NEW v \in Vm,
               MarkDead(s, t) \/ ReplaceVM(s, v, t) \/ ReplaceFails(s, v)
        PROVE  UNCHANGED <<row, owner>>
    BY <1>4 DEF MarkDead, ReplaceVM, ReplaceFails
  <1>5. ASSUME NEW s \in Server, NEW t \in Server, MarkDead(s, t)
        PROVE  UNCHANGED <<row, owner>>
    BY <1>5 DEF MarkDead
  <1>6. ASSUME NEW s \in Server, NEW v \in Vm, ReplaceFails(s, v)
        PROVE  UNCHANGED <<row, owner>>
    BY <1>6 DEF ReplaceFails
  <1>7. ASSUME UNCHANGED vars PROVE UNCHANGED <<row, owner>>
    BY <1>7 DEF vars
  <1> QED
    BY <1>1, <1>2, <1>3, <1>4, <1>5, <1>6, <1>7, OneVmCommit DEF Next, Duty

(* server.go:197-263: the rows of the failover always have their types.    *)
THEOREM TypeCorrect == Spec => []TypeOK
  <1>1. Init => TypeOK
    BY InitIInv DEF IInv
  <1>2. TypeOK /\ [Next]_vars => TypeOK'
    BY TypeStep
  <1> QED
    BY <1>1, <1>2, PTL DEF Spec

LEMMA Invariant == Spec => []IInv
  <1>1. IInv /\ [Next]_vars => IInv'
    BY TypeStep, TxStep, OneVmStep DEF IInv
  <1> QED
    BY <1>1, InitIInv, PTL DEF Spec

(* server.go:197-263: however many leaders fail servers over at once, die  *)
(* in the middle of it and run it again, a deployment never has two VMs.   *)
THEOREM OneVmEach == Spec => []OneVmPerDeployment
  <1>1. IInv => OneVmPerDeployment
    BY DEF IInv
  <1> QED
    BY <1>1, Invariant, PTL

-----------------------------------------------------------------------------
(* A server nothing is wrong with and that nobody takes for dead.          *)
Healthy(t) ==
    /\ up[t] /\ status[t] = "active" /\ beat[t] = "fresh"
    /\ \A s \in Server : t \notin found[s] /\ t \notin tx[s].marked

OneLost ==
    /\ faults["crash"] = 0 => \A t \in Server : Healthy(t)
    /\ \A t, u \in Server : Healthy(t) \/ Healthy(u) \/ t = u

(* Whatever existed and is deleted is replaced, by a VM that is not, and   *)
(* the deployments point to their VMs.                                     *)
Replaced ==
    /\ \A s \in Server :
          /\ \A v \in tx[s].gone : row[v] \in Held => \E r \in tx[s].new : r.for = v
          /\ \A r \in tx[s].new : r.id \notin tx[s].gone
    /\ \A d \in Deployment : owner[vmOf[d]] = d /\ row[vmOf[d]] \in Held

Owned == \A v \in Vm : row[v] \in Held => owner[v] \in Deployment

HInv == IInv /\ OneLost /\ Replaced /\ Owned

(* No more than one crash, no late heartbeats, and a server to spare.      *)
OneCrashOnly ==
    /\ MaxFaults["crash"] <= 1 /\ MaxFaults["late"] = 0
    /\ \E s, t \in Server : s # t

(* A server has an address for a VM of every deployment.                   *)
RoomForAll == IsFiniteSet(Deployment) /\ Cardinality(Deployment) <= Capacity

LEMMA InitHInv == Init => HInv
  <1> SUFFICES ASSUME Init PROVE HInv
    OBVIOUS
  <1>1. IInv
    BY InitIInv
  <1>2. \A s \in Server : tx[s].marked = {} /\ tx[s].gone = {} /\ tx[s].new = {}
    BY DEF Init, EmptyTx
  <1>3. OneLost
    BY <1>2 DEF Init, OneLost, Healthy
  <1>4. Replaced
    BY <1>2, PlaceAssumption DEF Init, Replaced, Held
  <1>5. Owned
    BY DEF Init, Owned, Held
  <1> QED
    BY <1>1, <1>3, <1>4, <1>5 DEF HInv

(* A server that is healthy stays so, unless it crashes.                   *)
LEMMA HealthyStays ==
    ASSUME TypeOK, OneCrashOnly, [Next]_vars, NEW t \in Server, Healthy(t)
    PROVE  Healthy(t)' \/ Crash(t)
  <1>1. ASSUME NEW s \in Server, Heartbeat(s) PROVE Healthy(t)'
    BY <1>1 DEF Heartbeat, Healthy, TypeOK
  <1>2. ASSUME NEW s \in Server, Silence(s) PROVE Healthy(t)'
    <2>1. ~up[s]
      <3>1. faults["late"] \in Nat
        BY DEF TypeOK, FaultKind
      <3> QED
        BY <1>2, <3>1 DEF Silence, Suffer, OneCrashOnly
    <2>2. s # t
      BY <2>1 DEF Healthy
    <2> QED
      BY <1>2, <2>2 DEF Silence, Healthy, TypeOK
  <1>3. ASSUME NEW s \in Server \ {t}, Crash(s) PROVE Healthy(t)'
    <2>1. \A u \in Server : tx'[u] = IF u = s THEN EmptyTx ELSE tx[u]
      BY <1>3, Emptied DEF Crash
    <2>2. up'[t] /\ status'[t] = "active" /\ beat'[t] = "fresh"
      BY <1>3 DEF Crash, Healthy, TypeOK
    <2>3. \A u \in Server : t \notin found'[u]
      BY <1>3 DEF Crash, Healthy, TypeOK
    <2> QED
      BY <2>1, <2>2, <2>3 DEF Healthy, EmptyTx
  <1>4. ASSUME NEW s \in Server, Register(s) PROVE Healthy(t)'
    BY <1>4 DEF Register, Healthy, TypeOK
  <1>5. ASSUME NEW s \in Server, BecomeLeader(s) \/ SessionDrops(s) \/ NextServer(s)
        PROVE  Healthy(t)'
    BY <1>5 DEF BecomeLeader, SessionDrops, NextServer, Healthy
  <1>6. ASSUME NEW s \in Server, FindDead(s) PROVE Healthy(t)'
    <2>1. t \notin Dead
      BY DEF Dead, Healthy
    <2> QED
      BY <1>6, <2>1 DEF FindDead, Healthy, TypeOK
  <1>7. ASSUME NEW s \in Server, NEW u \in Server, MarkDead(s, u) PROVE Healthy(t)'
    <2>1. u # t
      BY <1>7 DEF MarkDead, Healthy
    <2>2. \A w \in Server : t \notin tx'[w].marked
      BY <1>7, <2>1, MarkDeadWrites DEF Healthy
    <2>3. \A w \in Server : t \notin found'[w]
      BY <1>7 DEF MarkDead, Healthy, TypeOK
    <2>4. UNCHANGED servers
      BY <1>7 DEF MarkDead
    <2> QED
      BY <2>2, <2>3, <2>4 DEF Healthy
  <1>8. ASSUME NEW s \in Server, NEW v \in Vm, NEW u \in Server, ReplaceVM(s, v, u)
        PROVE  Healthy(t)'
    <2>1. \A w \in Server : tx'[w].marked = tx[w].marked
      BY <1>8, ReplaceWrites
    <2>2. UNCHANGED <<servers, found>>
      BY <1>8 DEF ReplaceVM
    <2> QED
      BY <2>1, <2>2 DEF Healthy
  <1>9. ASSUME NEW s \in Server, NEW v \in Vm, ReplaceFails(s, v) PROVE Healthy(t)'
    <2>1. \A w \in Server : tx'[w].marked = tx[w].marked
      BY <1>9, FailsWrites
    <2>2. UNCHANGED <<servers, found>>
      BY <1>9 DEF ReplaceFails
    <2> QED
      BY <2>1, <2>2 DEF Healthy
  <1>10. ASSUME NEW s \in Server, Commit(s) PROVE Healthy(t)'
    <2>1. \A u \in Server : tx'[u] = IF u = s THEN EmptyTx ELSE tx[u]
      BY <1>10, Emptied DEF Commit
    <2>2. status'[t] = "active"
      BY <1>10, CommitWrites DEF Healthy
    <2>3. UNCHANGED <<beat, up, found>>
      BY <1>10 DEF Commit
    <2> QED
      BY <2>1, <2>2, <2>3 DEF Healthy, EmptyTx
  <1>11. ASSUME NEW s \in Server, Abort(s) \/ DeadlockVictim(s) PROVE Healthy(t)'
    <2>1. RollBack(s)
      BY <1>11 DEF Abort, DeadlockVictim
    <2>2. \A u \in Server : tx'[u] = IF u = s THEN EmptyTx ELSE tx[u]
      BY <2>1, Emptied DEF RollBack
    <2>3. \A u \in Server : t \notin found'[u]
      BY <2>1 DEF RollBack, Healthy, TypeOK
    <2>4. UNCHANGED servers
      BY <2>1 DEF RollBack
    <2> QED
      BY <2>2, <2>3, <2>4 DEF Healthy, EmptyTx
  <1>12. ASSUME NEW v \in Vm, VmEnds(v) \/ VmRecovers(v) PROVE Healthy(t)'
    BY <1>12 DEF VmEnds, VmRecovers, Healthy
  <1>13. ASSUME UNCHANGED vars PROVE Healthy(t)'
    BY <1>13 DEF vars, Healthy
  <1> QED
    BY <1>1, <1>2, <1>3, <1>4, <1>5, <1>6, <1>7, <1>8, <1>9, <1>10, <1>11, <1>12,
       <1>13 DEF Next, Duty

(* The count of the crashes only grows, and with it the one there may be.  *)
LEMMA CrashCount ==
    ASSUME TypeOK, [Next]_vars
    PROVE  /\ faults'["crash"] = 0 => faults["crash"] = 0
           /\ \A s \in Server : Crash(s) => /\ faults["crash"] < MaxFaults["crash"]
                                            /\ faults'["crash"] # 0
  <1>1. faults["crash"] \in Nat /\ "crash" \in FaultKind /\ faults \in [FaultKind -> Nat]
    BY DEF TypeOK, FaultKind
  <1>2. ASSUME NEW s \in Server, Crash(s)
        PROVE  faults["crash"] < MaxFaults["crash"] /\ faults'["crash"] # 0
    BY <1>1, <1>2 DEF Crash, Suffer
  <1>3. ASSUME NEW k, k # "crash", Suffer(k) PROVE faults'["crash"] = faults["crash"]
    BY <1>1, <1>3 DEF Suffer
  <1>4. ASSUME NEW s \in Server,
               \/ Heartbeat(s) \/ Silence(s) \/ Register(s) \/ BecomeLeader(s)
               \/ SessionDrops(s) \/ FindDead(s) \/ NextServer(s) \/ Commit(s)
               \/ Abort(s) \/ DeadlockVictim(s)
        PROVE  faults'["crash"] = faults["crash"]
    BY <1>3, <1>4 DEF Heartbeat, Silence, Register, BecomeLeader, SessionDrops, FindDead,
                      NextServer, Commit, Abort, DeadlockVictim
  <1>5. ASSUME NEW s \in Server, NEW t \in Server, MarkDead(s, t)
        PROVE  faults' = faults
    BY <1>5 DEF MarkDead
  <1>6. ASSUME NEW s \in Server, NEW v \in Vm, NEW t \in Server, ReplaceVM(s, v, t)
        PROVE  faults' = faults
    BY <1>6 DEF ReplaceVM
  <1>7. ASSUME NEW s \in Server, NEW v \in Vm, ReplaceFails(s, v)
        PROVE  faults' = faults
    BY <1>7 DEF ReplaceFails
  <1>8. ASSUME NEW v \in Vm, VmEnds(v) \/ VmRecovers(v)
        PROVE  faults'["crash"] = faults["crash"]
    BY <1>3, <1>8 DEF VmEnds, VmRecovers
  <1>9. ASSUME UNCHANGED vars PROVE faults' = faults
    BY <1>9 DEF vars
  <1> QED
    BY <1>2, <1>4, <1>5, <1>6, <1>7, <1>8, <1>9 DEF Next, Duty

LEMMA OneLostStep ==
    ASSUME TypeOK, OneLost, OneCrashOnly, [Next]_vars
    PROVE  OneLost'
  <1>1. CASE \E s \in Server : Crash(s)
    <2>1. PICK s \in Server : Crash(s)
      BY <1>1
    <2>2. faults["crash"] = 0 /\ faults'["crash"] # 0
      <3>1. faults["crash"] \in Nat
        BY DEF TypeOK, FaultKind
      <3>2. MaxFaults["crash"] \in Nat
        BY FaultAssumption DEF FaultKind
      <3> QED
        BY <2>1, <3>1, <3>2, CrashCount DEF OneCrashOnly
    <2>3. \A t \in Server \ {s} : Healthy(t)'
      <3> SUFFICES ASSUME NEW t \in Server \ {s} PROVE Healthy(t)'
        OBVIOUS
      <3>1. Healthy(t)
        BY <2>2 DEF OneLost
      <3>2. ~Crash(t)
        BY <2>1 DEF Crash, TypeOK
      <3> QED
        BY <3>1, <3>2, HealthyStays
    <2> QED
      BY <2>2, <2>3 DEF OneLost
  <1>2. CASE ~\E s \in Server : Crash(s)
    <2>1. \A t \in Server : Healthy(t) => Healthy(t)'
      BY <1>2, HealthyStays
    <2> QED
      BY <2>1, CrashCount DEF OneLost
  <1> QED
    BY <1>1, <1>2

(* With one server lost there is always another one to go to.              *)
LEMMA SomeCandidate ==
    ASSUME TypeOK, TxInv, OneLost, OneCrashOnly, NEW s \in Server, NEW v \in tx[s].todo
    PROVE  Candidates(s) # {}
  <1>1. PICK u : u \in tx[s].marked
    BY DEF TxInv, Claimed, Replacements, ReplacementOK
  <1>2. u \in Server
    BY <1>1 DEF TypeOK, Transaction
  <1>3. ~Healthy(u)
    BY <1>1, <1>2 DEF Healthy
  <1>4. PICK t \in Server : t # u
    BY DEF OneCrashOnly
  <1>5. Healthy(t)
    BY <1>2, <1>3, <1>4 DEF OneLost
  <1> QED
    BY <1>5 DEF Healthy, Candidates

(* And as the VMs a server has, or is to get, are of different deployments,*)
(* none of which is the one whose VM is being replaced, it has an address. *)
LEMMA AlwaysRoom ==
    ASSUME IInv, Owned, RoomForAll,
           NEW s \in Server, NEW v \in tx[s].todo, NEW t \in Candidates(s)
    PROVE  HasRoom(s, t)
  <1> USE DEF IInv
  <1> DEFINE A == {w \in Vm \ tx[s].gone : on[w] = t /\ row[w] \in {"live", "ended"}}
             R == {r \in tx[s].new : r.to = t}
             DA == {owner[w] : w \in A}
             DR == {owner[r.for] : r \in R}
             f == [w \in A |-> owner[w]]
             g == [r \in R |-> owner[r.for]]
             o == Original(s, v)
             D == Deployment \ {owner[o]}
  <1>1. tx[s] \in Transaction
    BY DEF TypeOK
  <1>2. o \in Vm /\ row[o] \in Held
    BY OriginalTaken
  <1>3. o \notin A /\ \A r \in R : r.for # o
    <2>1. t \notin tx[s].marked
      BY DEF Candidates
    <2>2. \A r \in tx[s].new : r.for = o => r.to \in tx[s].marked
      BY OriginalTaken
    <2>3. o \in tx[s].gone \/ (o = v /\ on[v] \in tx[s].marked)
      BY OriginalTaken
    <2> QED
      BY <2>1, <2>2, <2>3
  <1>4. \A w \in A : w \in Vm /\ row[w] \in Held /\ w \notin tx[s].gone
    BY DEF Held
  <1>5. \A r \in R : r.for \in Vm /\ row[r.for] \in Held /\ r.for \in tx[s].gone
    BY <1>1 DEF TxInv, Replacements, ReplacementOK, Transaction, Replacement
  <1>6. \A x, y \in Vm : x # y /\ row[x] \in Held /\ row[y] \in Held => owner[x] # owner[y]
    BY DEF OneVmPerDeployment, Held
  <1>7. \A q, r \in R : q.for = r.for => q = r
    BY DEF TxInv, Replacements, ReplacementOK
  <1>8. DA \subseteq D
    BY <1>2, <1>3, <1>4, <1>6 DEF Owned
  <1>9. DR \subseteq D
    BY <1>2, <1>3, <1>5, <1>6 DEF Owned
  <1>10. DA \intersect DR = {}
    BY <1>4, <1>5, <1>6
  <1>11. f \in Injection(A, DA)
    BY <1>4, <1>6 DEF Injection, IsInjective
  <1>12. g \in Injection(R, DR)
    BY <1>5, <1>6, <1>7 DEF Injection, IsInjective
  <1>13. IsFiniteSet(D) /\ Cardinality(D) = Cardinality(Deployment) - 1
    <2>1. owner[o] \in Deployment
      BY <1>2 DEF Owned
    <2> QED
      BY <2>1, FS_RemoveElement DEF RoomForAll
  <1>14. Cardinality(Deployment) \in Nat
    BY FS_CardinalityType DEF RoomForAll
  <1> HIDE DEF A, R, DA, DR, f, g, o, D
  <1>15. IsFiniteSet(DA) /\ IsFiniteSet(DR)
    BY <1>8, <1>9, <1>13, FS_Subset
  <1>16. /\ IsFiniteSet(A) /\ Cardinality(A) <= Cardinality(DA)
         /\ IsFiniteSet(R) /\ Cardinality(R) <= Cardinality(DR)
    BY <1>11, <1>12, <1>15, FS_Injection
  <1>17. /\ Cardinality(A) \in Nat /\ Cardinality(R) \in Nat
         /\ Cardinality(DA) \in Nat /\ Cardinality(DR) \in Nat
    BY <1>15, <1>16, FS_CardinalityType
  <1>18. Cardinality(DA \union DR) = Cardinality(DA) + Cardinality(DR)
    <2>1. Cardinality(DA \intersect DR) = 0
      BY <1>10, FS_EmptySet
    <2>2. Cardinality(DA \union DR)
            = Cardinality(DA) + Cardinality(DR) - Cardinality(DA \intersect DR)
      BY <1>15, FS_Union
    <2> QED
      BY <1>17, <2>1, <2>2
  <1>19. Cardinality(DA \union DR) <= Cardinality(D)
    BY <1>8, <1>9, <1>13, FS_Subset
  <1>20. Cardinality(A) + Cardinality(R) < Capacity
    BY <1>13, <1>14, <1>16, <1>17, <1>18, <1>19, CapacityAssumption DEF RoomForAll
  <1> QED
    BY <1>20 DEF HasRoom, A, R

LEMMA NeverFails ==
    ASSUME HInv, OneCrashOnly, RoomForAll, NEW s \in Server, NEW v \in Vm
    PROVE  ~ReplaceFails(s, v)
  <1> SUFFICES ASSUME ReplaceFails(s, v) PROVE FALSE
    OBVIOUS
  <1>1. v \in tx[s].todo
    BY DEF ReplaceFails
  <1>2. Candidates(s) # {}
    BY <1>1, SomeCandidate DEF HInv, IInv
  <1>3. \A t \in LeastLoaded(s) : HasRoom(s, t)
    BY <1>1, AlwaysRoom DEF HInv, LeastLoaded
  <1> QED
    BY <1>2, <1>3 DEF ReplaceFails

(* What a transaction deletes, the deployments are pointed away from.      *)
LEMMA LinkCommit ==
    ASSUME IInv, Replaced, NEW s \in Server, Commit(s), NEW d \in Deployment
    PROVE  owner'[vmOf'[d]] = d /\ row'[vmOf'[d]] \in Held
  <1> USE DEF IInv
  <1>1. vmOf'[d] = Linked(d, tx[s].new)
    BY CommitWrites
  <1>2. /\ vmOf[d] \in Vm /\ owner[vmOf[d]] = d /\ row[vmOf[d]] \in Held
    BY DEF TypeOK, Replaced
  <1>3. CASE \E r \in tx[s].new : r.for = vmOf[d]
    <2> DEFINE r == CHOOSE q \in tx[s].new : q.for = vmOf[d]
    <2>1. r \in tx[s].new /\ r.for = vmOf[d]
      BY <1>3
    <2>2. vmOf'[d] = r.id
      BY <1>1, <1>3 DEF Linked
    <2> HIDE DEF r
    <2>3. r.id \in Ids(s) /\ row[r.id] = "unused"
      BY <2>1 DEF Ids, TxInv, Replacements, ReplacementOK
    <2>4. Of(s, r.id) = r
      BY <2>1, <2>3, OfId DEF TxInv, Replacements, ReplacementOK
    <2>5. r.id \notin tx[s].gone
      BY <2>1 DEF Replaced
    <2>6. r.id \in Vm
      BY <2>3, OfId
    <2> QED
      BY <1>2, <2>1, <2>2, <2>3, <2>4, <2>5, <2>6, CommitWrites DEF Held
  <1>4. CASE ~\E r \in tx[s].new : r.for = vmOf[d]
    <2>1. vmOf'[d] = vmOf[d]
      BY <1>1, <1>4 DEF Linked
    <2>2. vmOf[d] \notin tx[s].gone
      BY <1>2, <1>4 DEF Replaced
    <2>3. vmOf[d] \notin Ids(s)
      BY <1>2 DEF Ids, TxInv, Replacements, ReplacementOK, Held
    <2> QED
      BY <1>2, <2>1, <2>2, <2>3, CommitWrites
  <1> QED
    BY <1>3, <1>4

LEMMA OwnedCommit ==
    ASSUME IInv, Owned, NEW s \in Server, Commit(s)
    PROVE  Owned'
  <1> USE DEF IInv
  <1> SUFFICES ASSUME NEW v \in Vm, row'[v] \in Held PROVE owner'[v] \in Deployment
    BY DEF Owned, Held
  <1>1. CASE v \in Ids(s)
    <2>1. Of(s, v).for \in Vm /\ row[Of(s, v).for] \in Held
      BY <1>1, OfId DEF TxInv, Replacements, ReplacementOK
    <2> QED
      BY <1>1, <2>1, CommitWrites DEF Owned
  <1>2. CASE v \notin Ids(s)
    <2>1. row[v] \in Held
      BY <1>2, CommitWrites DEF Held
    <2> QED
      BY <1>2, <2>1, CommitWrites DEF Owned
  <1> QED
    BY <1>1, <1>2

LEMMA LinkedOwnedStep ==
    ASSUME HInv, OneCrashOnly, RoomForAll, [Next]_vars
    PROVE  Replaced' /\ Owned'
  <1> USE DEF HInv, IInv
  <1>1. ASSUME UNCHANGED <<row, owner, vmOf>>,
               \A s \in Server : /\ tx'[s].gone \subseteq tx[s].gone
                                 /\ tx'[s].new = tx[s].new
        PROVE  Replaced' /\ Owned'
    BY <1>1 DEF Replaced, Owned
  <1>2. ASSUME NEW s \in Server,
               \/ Heartbeat(s) \/ Silence(s) \/ Register(s) \/ BecomeLeader(s)
               \/ SessionDrops(s) \/ FindDead(s) \/ NextServer(s)
        PROVE  UNCHANGED <<row, owner, vmOf, tx>>
    BY <1>2 DEF Heartbeat, Silence, Register, BecomeLeader, SessionDrops, FindDead,
                NextServer
  <1>3. ASSUME NEW s \in Server, Crash(s) \/ Abort(s) \/ DeadlockVictim(s)
        PROVE  Replaced' /\ Owned'
    <2>1. tx' = [tx EXCEPT ![s] = EmptyTx] /\ UNCHANGED <<row, owner, vmOf>>
      BY <1>3 DEF Crash, Abort, DeadlockVictim, RollBack
    <2>2. \A u \in Server : tx'[u] = IF u = s THEN EmptyTx ELSE tx[u]
      BY <2>1, Emptied
    <2> QED
      BY <2>1, <2>2 DEF Replaced, Owned, EmptyTx
  <1>4. ASSUME NEW s \in Server, NEW t \in Server, MarkDead(s, t)
        PROVE  Replaced' /\ Owned'
    <2>1. UNCHANGED <<row, owner, vmOf>>
      BY <1>4 DEF MarkDead
    <2> QED
      BY <1>1, <1>4, <2>1, MarkDeadWrites
  <1>5. ASSUME NEW s \in Server, NEW v \in Vm, NEW t \in Server, ReplaceVM(s, v, t)
        PROVE  Replaced' /\ Owned'
    <2>1. UNCHANGED <<row, owner, vmOf>>
      BY <1>5 DEF ReplaceVM
    <2>2. /\ \A u \in Server \ {s} : tx'[u] = tx[u]
          /\ tx'[s].gone = tx[s].gone \union {v}
      BY <1>5, ReplaceWrites
    <2> DEFINE o == Original(s, v)
    <2>3. PICK id \in Fresh :
            tx'[s].new = {r \in tx[s].new : r.id # v}
                           \union {[for |-> o, to |-> t, id |-> id]}
      BY <1>5, ReplaceWrites
    <2>4. v \in tx[s].todo /\ ReplacementOK(s)
      BY <1>5 DEF ReplaceVM, TxInv, Replacements
    <2> DEFINE kept == {r \in tx[s].new : r.id # v}
               added == [for |-> o, to |-> t, id |-> id]
    <2>5. added.for = o /\ added.id = id /\ tx'[s].new = kept \union {added}
      BY <2>3
    <2>6. \A r \in tx[s].new : r.id # v <=> r \in kept
      OBVIOUS
    <2>7. kept \subseteq tx[s].new
      OBVIOUS
    <2> HIDE DEF kept, added
    <2>8. \A w \in tx'[s].gone : row[w] \in Held => \E r \in tx'[s].new : r.for = w
      <3> SUFFICES ASSUME NEW w \in tx[s].gone \union {v}, row[w] \in Held
                   PROVE  \E r \in tx'[s].new : r.for = w
        BY <2>2
      <3>1. CASE w = o
        BY <2>5, <3>1
      <3>2. CASE w # o
        <4>1. w # v
          <5>1. \A r \in tx[s].new : r.id = v => row[v] = "unused"
            BY <2>4 DEF ReplacementOK
          <5>2. row[v] \in Held => o = v
            BY <5>1 DEF Original, Held
          <5> QED
            BY <3>2, <5>2
        <4>2. PICK r \in tx[s].new : r.for = w
          BY <4>1 DEF Replaced
        <4>3. r.id # v
          <5>1. ASSUME r.id = v PROVE r.for = o
            <6>1. \E q \in tx[s].new : q.id = v
              BY <5>1
            <6>2. /\ (CHOOSE q \in tx[s].new : q.id = v) \in tx[s].new
                  /\ (CHOOSE q \in tx[s].new : q.id = v).id = v
              BY <6>1
            <6>3. r = CHOOSE q \in tx[s].new : q.id = v
              BY <2>4, <5>1, <6>2 DEF ReplacementOK
            <6> QED
              BY <6>1, <6>3 DEF Original
          <5> QED
            BY <3>2, <4>2, <5>1
        <4> QED
          BY <2>5, <2>6, <4>2, <4>3
      <3> QED
        BY <3>1, <3>2
    <2>9. \A r \in tx'[s].new : r.id \notin tx'[s].gone
      <3>1. row[id] = "unused" /\ id \notin tx[s].gone /\ \A r \in tx[s].new : r.id # id
        BY <2>3 DEF Fresh
      <3>2. id # v
        BY <2>4, <3>1 DEF ReplacementOK
      <3> QED
        BY <2>2, <2>5, <2>6, <2>7, <3>1, <3>2 DEF Replaced
    <2> QED
      BY <2>1, <2>2, <2>8, <2>9 DEF Replaced, Owned
  <1>6. ASSUME NEW s \in Server, NEW v \in Vm, ReplaceFails(s, v) PROVE FALSE
    BY <1>6, NeverFails
  <1>7. ASSUME NEW s \in Server, Commit(s) PROVE Replaced' /\ Owned'
    <2>1. \A u \in Server : tx'[u] = IF u = s THEN EmptyTx ELSE tx[u]
      BY <1>7, Emptied DEF Commit
    <2>2. \A u \in Server : \A v \in tx'[u].gone :
             row'[v] \in Held => \E r \in tx'[u].new : r.for = v
      <3> SUFFICES ASSUME NEW u \in Server \ {s}, NEW v \in tx[u].gone, row'[v] \in Held
                   PROVE  \E r \in tx[u].new : r.for = v
        BY <2>1 DEF EmptyTx
      <3>1. tx[s].gone = {} /\ v \in Vm
        BY DEF TxInv, Serial, TypeOK, Transaction
      <3>2. Ids(s) = {}
        BY <3>1 DEF Ids, TxInv, Replacements, ReplacementOK
      <3>3. row'[v] = row[v]
        BY <1>7, <3>1, <3>2, CommitWrites
      <3> QED
        BY <3>3 DEF Replaced
    <2>3. \A u \in Server : \A r \in tx'[u].new : r.id \notin tx'[u].gone
      BY <2>1 DEF Replaced, EmptyTx
    <2> QED
      BY <1>7, <2>2, <2>3, LinkCommit, OwnedCommit DEF Replaced, Held
  <1>8. ASSUME NEW v \in Vm, VmEnds(v) \/ VmRecovers(v) PROVE Replaced' /\ Owned'
    <2>1. \A w \in Vm : row[w] \in Held <=> row'[w] \in Held
      BY <1>8 DEF TypeOK, VmEnds, VmRecovers, Held
    <2>2. owner' = owner /\ vmOf' = vmOf /\ tx' = tx
      BY <1>8 DEF VmEnds, VmRecovers
    <2>3. \A d \in Deployment : vmOf[d] \in Vm
      BY DEF TypeOK
    <2>4. Owned'
      BY <2>1, <2>2 DEF Owned
    <2>5. \A s \in Server :
             /\ \A w \in tx'[s].gone :
                   row'[w] \in Held => \E r \in tx'[s].new : r.for = w
             /\ \A r \in tx'[s].new : r.id \notin tx'[s].gone
      <3>1. \A s \in Server : tx[s].gone \subseteq Vm
        BY DEF TypeOK, Transaction
      <3> QED
        BY <2>1, <2>2, <3>1 DEF Replaced
    <2>6. \A d \in Deployment : owner'[vmOf'[d]] = d /\ row'[vmOf'[d]] \in Held
      BY <2>1, <2>2, <2>3 DEF Replaced
    <2> QED
      BY <2>4, <2>5, <2>6 DEF Replaced
  <1>9. ASSUME UNCHANGED vars PROVE UNCHANGED <<row, owner, vmOf, tx>>
    BY <1>9 DEF vars
  <1> QED
    BY <1>1, <1>2, <1>3, <1>4, <1>5, <1>6, <1>7, <1>8, <1>9 DEF Next, Duty

(* server.go:258-263: as long as one server at most is lost, and a server  *)
(* has addresses for all deployments, every deployment always points to a  *)
(* VM that was made for it and is not deleted.                             *)
THEOREM VmForEach ==
    ASSUME OneCrashOnly, RoomForAll
    PROVE  Spec => []DeploymentHasVm
  <1>1. HInv /\ [Next]_vars => HInv'
    BY TypeStep, TxStep, OneVmStep, OneLostStep, LinkedOwnedStep DEF HInv, IInv
  <1>2. HInv => DeploymentHasVm
    BY DEF HInv, Replaced, DeploymentHasVm, Held
  <1> QED
    BY <1>1, <1>2, InitHInv, PTL DEF Spec
=============================================================================
