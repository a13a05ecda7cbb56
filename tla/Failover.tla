------------------------------ MODULE Failover ------------------------------
(***************************************************************************)
(* internal/zeitwork/server.go: registration, heartbeats, the election of  *)
(* the cluster leader and the failover of dead servers.                    *)
(*                                                                         *)
(* The leader is the server whose dedicated session holds the advisory     *)
(* lock "cluster_leader"; its process remembers that in a flag that only   *)
(* the end of the process clears.  Every tick the leader reads the dead    *)
(* servers and then, in a transaction, marks them dead, deletes their VMs  *)
(* and creates a replacement for each.  What the transaction has written   *)
(* is kept in tx[s] until it commits.  The UPDATE of a server's row locks  *)
(* it until then, and the advisory lock VMNextIPAddress serialises the     *)
(* allocation of addresses.                                                *)
(*                                                                         *)
(* All deployments here are running, each on a VM of its own (Rollout has  *)
(* the way there); drains are not modelled.  VM states are reduced to      *)
(* "live" (pending, starting, running) and "ended" (stopped, failed).      *)
(***************************************************************************)
EXTENDS Naturals, FiniteSets

CONSTANTS
    Server,
    Deployment,
    Vm,          \* ids of VM rows
    Place,       \* Place[d]: the server d's first VM was placed on
    Capacity,    \* addresses in the range of a server
    None,        \* NULL; no transaction
    MaxFaults

FaultKind == {"crash", "late", "drop", "abort", "exit"}

ASSUME PlaceAssumption == Deployment \subseteq Vm /\ Place \in [Deployment -> Server]
ASSUME NoneAssumption == None \notin Server \union Vm
ASSUME CapacityAssumption == Capacity \in Nat
ASSUME FaultAssumption == MaxFaults \in [FaultKind -> Nat]

VARIABLES
    status,    \* servers.status
    beat,      \* age of last_heartbeat_at: fresh (< 30s), late, expired (> 60s)
    up,        \* the server's process runs
    lock,      \* whose session holds the advisory lock cluster_leader
    leader,    \* controlPlaneLeader of each process
    row, on,   \* vms: its state and server_id
    vmOf,      \* deployments.vm_id
    owner,     \* history: the deployment a VM was created for
    pc,        \* idle; mark: the next dead server; vm: its next VM
    found,     \* the dead servers the leader has read and not handled yet
    tx,        \* the writes of its transaction
    faults

servers == <<status, beat, up>>
lead    == <<lock, leader>>
rows    == <<row, on, vmOf, owner>>
task    == <<pc, found, tx>>
vars    == <<servers, lead, rows, task, faults>>

(* server: whose VMs are being replaced; todo: which of them are left;     *)
(* marked, gone: servers marked dead, VMs deleted; new: replacements.      *)
Replacement == [for : Vm, id : Vm, to : Server]
Transaction == [todo : SUBSET Vm, marked : SUBSET Server, gone : SUBSET Vm,
                new : SUBSET Replacement]
EmptyTx == [todo |-> {}, marked |-> {}, gone |-> {}, new |-> {}]

TypeOK ==
    /\ status \in [Server -> {"active", "dead"}]
    /\ beat \in [Server -> {"fresh", "late", "expired"}]
    /\ up \in [Server -> BOOLEAN]
    /\ lock \in Server \union {None}
    /\ leader \in [Server -> BOOLEAN]
    /\ row \in [Vm -> {"unused", "live", "ended", "deleted"}]
    /\ on \in [Vm -> Server \union {None}]
    /\ vmOf \in [Deployment -> Vm]
    /\ owner \in [Vm -> Deployment \union {None}]
    /\ pc \in [Server -> {"idle", "mark", "vm"}]
    /\ found \in [Server -> SUBSET Server]
    /\ tx \in [Server -> Transaction]
    /\ faults \in [FaultKind -> Nat]

Init ==
    /\ status = [s \in Server |-> "active"]
    /\ beat = [s \in Server |-> "fresh"]
    /\ up = [s \in Server |-> TRUE]
    /\ lock = None
    /\ leader = [s \in Server |-> FALSE]
    /\ row = [v \in Vm |-> IF v \in Deployment THEN "live" ELSE "unused"]
    /\ on = [v \in Vm |-> IF v \in Deployment THEN Place[v] ELSE None]
    /\ vmOf = [d \in Deployment |-> d]
    /\ owner = [v \in Vm |-> IF v \in Deployment THEN v ELSE None]
    /\ pc = [s \in Server |-> "idle"]
    /\ found = [s \in Server |-> {}]
    /\ tx = [s \in Server |-> EmptyTx]
    /\ faults = [k \in FaultKind |-> 0]

-----------------------------------------------------------------------------
Suffer(k) ==
    /\ faults[k] < MaxFaults[k]
    /\ faults' = [faults EXCEPT ![k] = @ + 1]

(* Mutant: the row is not locked.                                          *)
LockedByNobody(t) == FALSE

(* An open transaction has updated the row of server t.                    *)
Locked(t) == \E s \in Server : t \in tx[s].marked

Heartbeat(s) ==
    /\ up[s] /\ ~Locked(s)
    /\ beat' = [beat EXCEPT ![s] = "fresh"]
    /\ UNCHANGED <<status, up, lead, rows, task, faults>>

(* Half a minute without a heartbeat; for a running server that takes a    *)
(* fault.                                                                  *)
Later == [fresh |-> "late", late |-> "expired", expired |-> "expired"]

Silence(s) ==
    /\ beat[s] # "expired"
    /\ IF up[s] THEN Suffer("late") ELSE UNCHANGED faults
    /\ beat' = [beat EXCEPT ![s] = Later[@]]
    /\ UNCHANGED <<status, up, lead, rows, task>>

(* Mutant: a session outlives its process.                                 *)
LockKept(s) == lock

(* What the end of the session of s leaves of the lock.                    *)
LockAfter(s) == IF lock = s THEN None ELSE lock

(* The process dies; its session ends and its transaction is rolled back.  *)
Crash(s) ==
    /\ up[s]
    /\ Suffer("crash")
    /\ up' = [up EXCEPT ![s] = FALSE]
    /\ leader' = [leader EXCEPT ![s] = FALSE]
    /\ lock' = LockAfter(s)
    /\ pc' = [pc EXCEPT ![s] = "idle"]
    /\ found' = [found EXCEPT ![s] = {}]
    /\ tx' = [tx EXCEPT ![s] = EmptyTx]
    /\ UNCHANGED <<status, beat, rows>>

(* registerServer: a server that comes back is active again.               *)
Register(s) ==
    /\ ~up[s] /\ ~Locked(s)
    /\ up' = [up EXCEPT ![s] = TRUE]
    /\ status' = [status EXCEPT ![s] = "active"]
    /\ beat' = [beat EXCEPT ![s] = "fresh"]
    /\ UNCHANGED <<lead, rows, task, faults>>

(* tryBecomeClusterLeader.                                                 *)
BecomeLeader(s) ==
    /\ up[s] /\ ~leader[s]
    /\ lock = None
    /\ lock' = s
    /\ leader' = [leader EXCEPT ![s] = TRUE]
    /\ UNCHANGED <<servers, rows, task, faults>>

(* The dedicated connection breaks and PostgreSQL ends the session.        *)
SessionDrops(s) ==
    /\ lock = s
    /\ Suffer("drop")
    /\ lock' = None
    /\ UNCHANGED <<leader, servers, rows, task>>

-----------------------------------------------------------------------------
(* ServerFindDead.                                                         *)
Dead == {t \in Server : status[t] = "active" /\ beat[t] = "expired"}

(* The leader reads the dead servers before its transaction begins.        *)
FindDead(s) ==
    /\ leader[s] /\ pc[s] = "idle"
    /\ Dead # {}
    /\ found' = [found EXCEPT ![s] = Dead]
    /\ pc' = [pc EXCEPT ![s] = "mark"]
    /\ UNCHANGED <<servers, lead, rows, tx, faults>>

(* Mutant: the test for ended VMs is the wrong way round.                  *)
EndedVms(t) == {v \in Vm : on[v] = t /\ row[v] = "ended"}

(* The VMs replaced when t is dead: stopped and failed ones are skipped.   *)
VmsToReplace(t) == {v \in Vm : on[v] = t /\ row[v] = "live"}

(* Replacements the transaction of s has placed on t: t may be a server it *)
(* has found dead that came back before it was marked.                     *)
PlacedOn(s, t) == {r.id : r \in {q \in tx[s].new : q.to = t}}

(* Mark the server dead and read its VMs; the UPDATE waits for the row.    *)
MarkDead(s, t) ==
    /\ pc[s] = "mark" /\ t \in found[s]
    /\ ~Locked(t)
    /\ found' = [found EXCEPT ![s] = @ \ {t}]
    /\ tx' = [tx EXCEPT ![s].marked = @ \union {t},
                        ![s].todo = VmsToReplace(t) \union PlacedOn(s, t)]
    /\ pc' = [pc EXCEPT ![s] = "vm"]
    /\ UNCHANGED <<servers, lead, rows, faults>>

(* VMs counted by the transaction of s on server t, its own included.      *)
Load(s, t) ==
    Cardinality({v \in Vm \ tx[s].gone : on[v] = t /\ row[v] = "live"})
        + Cardinality({r \in tx[s].new : r.to = t})

Candidates(s) ==
    {t \in Server : status[t] = "active" /\ beat[t] = "fresh" /\ t \notin tx[s].marked}

LeastLoaded(s) ==
    {t \in Candidates(s) : \A u \in Candidates(s) : Load(s, t) <= Load(s, u)}

HasRoom(s, t) ==
    Cardinality({v \in Vm \ tx[s].gone : on[v] = t /\ row[v] \in {"live", "ended"}})
        + Cardinality({r \in tx[s].new : r.to = t}) < Capacity

Fresh ==
    {v \in Vm : /\ row[v] = "unused"
                /\ \A s \in Server :
                      v \notin tx[s].gone /\ \A r \in tx[s].new : r.id # v}

(* The transaction-scoped advisory lock, taken by the first replacement.   *)
IpLockFree(s) == \A t \in Server \ {s} : tx[t].gone = {}

(* The VM that v stands for: itself, unless v is a replacement of the same *)
(* transaction, which then was never seen by anybody.                      *)
Original(s, v) ==
    IF \E r \in tx[s].new : r.id = v
    THEN (CHOOSE r \in tx[s].new : r.id = v).for
    ELSE v

ReplaceVM(s, v, t) ==
    /\ pc[s] = "vm" /\ v \in tx[s].todo
    /\ IpLockFree(s)
    /\ t \in LeastLoaded(s) /\ HasRoom(s, t)
    /\ Fresh # {}
    /\ tx' = [tx EXCEPT ![s].todo = @ \ {v},
                        ![s].gone = @ \union {v},
                        ![s].new  = {r \in @ : r.id # v} \union
                                    {[for |-> Original(s, v), to |-> t,
                                      id |-> CHOOSE w \in Fresh : TRUE]}]
    /\ UNCHANGED <<servers, lead, rows, pc, found, faults>>

(* No healthy server, or no address on it: the statement finds no row,     *)
(* which is no error to the transaction; replaceDeadServerVMs stops there, *)
(* the error is logged, and the deletion stays.                            *)
ReplaceFails(s, v) ==
    /\ pc[s] = "vm" /\ v \in tx[s].todo
    /\ IpLockFree(s)
    /\ \/ Candidates(s) = {}
       \/ \E t \in LeastLoaded(s) : ~HasRoom(s, t)
    /\ tx' = [tx EXCEPT ![s].todo = {}, ![s].gone = @ \union {v}]
    /\ UNCHANGED <<servers, lead, rows, pc, found, faults>>

NextServer(s) ==
    /\ pc[s] = "vm" /\ tx[s].todo = {}
    /\ pc' = [pc EXCEPT ![s] = "mark"]
    /\ UNCHANGED <<servers, lead, rows, found, tx, faults>>

(* Mutant: the deployment keeps its vm_id.                                 *)
LinkKept(d, new) == vmOf[d]

(* The deployment of a replaced VM is pointed to the replacement.          *)
Linked(d, new) ==
    IF \E r \in new : r.for = vmOf[d]
    THEN (CHOOSE r \in new : r.for = vmOf[d]).id
    ELSE vmOf[d]

(* Everything the transaction wrote becomes visible.                       *)
Commit(s) ==
    /\ pc[s] = "mark" /\ found[s] = {}
    /\ LET t == tx[s]
           Of(v) == CHOOSE r \in t.new : r.id = v
           Ids == {r.id : r \in t.new}
       IN
       /\ status' = [x \in Server |-> IF x \in t.marked THEN "dead" ELSE status[x]]
       /\ row' = [v \in Vm |-> IF v \in t.gone THEN "deleted"
                               ELSE IF v \in Ids THEN "live" ELSE row[v]]
       /\ on' = [v \in Vm |-> IF v \in Ids THEN Of(v).to ELSE on[v]]
       /\ owner' = [v \in Vm |-> IF v \in Ids THEN owner[Of(v).for] ELSE owner[v]]
       /\ vmOf' = [d \in Deployment |-> Linked(d, t.new)]
    /\ tx' = [tx EXCEPT ![s] = EmptyTx]
    /\ pc' = [pc EXCEPT ![s] = "idle"]
    /\ UNCHANGED <<beat, up, lead, found, faults>>

(* The transaction is rolled back and retried at the next tick.            *)
RollBack(s) ==
    /\ pc[s] # "idle"
    /\ found' = [found EXCEPT ![s] = {}]
    /\ tx' = [tx EXCEPT ![s] = EmptyTx]
    /\ pc' = [pc EXCEPT ![s] = "idle"]
    /\ UNCHANGED <<servers, lead, rows>>

(* A statement fails.                                                      *)
Abort(s) == RollBack(s) /\ Suffer("abort")

(* Transactions that wait for each other's row and advisory locks:         *)
(* PostgreSQL makes one of them fail.                                      *)
WaitsFor(s) ==
    {t \in Server \ {s} :
        \/ /\ pc[s] = "mark" /\ found[s] # {}
           /\ \A u \in found[s] : Locked(u)
           /\ found[s] \intersect tx[t].marked # {}
        \/ /\ pc[s] = "vm" /\ tx[s].todo # {}
           /\ tx[t].gone # {}}

DeadlockVictim(s) ==
    /\ \E D \in SUBSET Server :
          /\ s \in D
          /\ \A u \in D : /\ WaitsFor(u) \intersect D # {}
                         /\ \E w \in D : u \in WaitsFor(w)
    /\ RollBack(s)
    /\ UNCHANGED faults

-----------------------------------------------------------------------------
(* A hypervisor exits, and vm.go on its server starts it again.            *)
VmEnds(v) ==
    /\ row[v] = "live" /\ up[on[v]]
    /\ Suffer("exit")
    /\ row' = [row EXCEPT ![v] = "ended"]
    /\ UNCHANGED <<on, vmOf, owner, servers, lead, task>>

VmRecovers(v) ==
    /\ row[v] = "ended" /\ up[on[v]]
    /\ row' = [row EXCEPT ![v] = "live"]
    /\ UNCHANGED <<on, vmOf, owner, servers, lead, task, faults>>

Duty(s) ==
    \/ FindDead(s)
    \/ \E t \in Server : MarkDead(s, t)
    \/ \E v \in Vm, t \in Server : ReplaceVM(s, v, t)
    \/ \E v \in Vm : ReplaceFails(s, v)
    \/ NextServer(s)
    \/ Commit(s)

Next ==
    \/ \E s \in Server : Heartbeat(s)
    \/ \E s \in Server : Silence(s)
    \/ \E s \in Server : Crash(s)
    \/ \E s \in Server : Register(s)
    \/ \E s \in Server : BecomeLeader(s)
    \/ \E s \in Server : SessionDrops(s)
    \/ \E s \in Server : Duty(s)
    \/ \E s \in Server : Abort(s)
    \/ \E s \in Server : DeadlockVictim(s)
    \/ \E v \in Vm : VmEnds(v)
    \/ \E v \in Vm : VmRecovers(v)

Spec == Init /\ [][Next]_vars

(* The loops of a running server go on, time passes, and PostgreSQL breaks *)
(* deadlocks and grants a lock to whoever has waited for it before it lets *)
(* the victim of a deadlock have it again.  Nothing makes a server that is *)
(* down come back.                                                         *)
Fairness ==
    /\ \A s \in Server :
          /\ WF_vars(Heartbeat(s))
          /\ WF_vars(~up[s] /\ Silence(s))
          /\ WF_vars(BecomeLeader(s))
          /\ SF_vars(Duty(s))
          /\ WF_vars(DeadlockVictim(s))
    /\ \A v \in Vm : WF_vars(VmRecovers(v))

FairSpec == Spec /\ Fairness

-----------------------------------------------------------------------------
(* However many leaders run the failover of a server at once, die in the   *)
(* middle of it and run it again, a deployment never has two VMs.          *)
OneVmPerDeployment ==
    \A v, w \in Vm :
        v # w /\ owner[v] = owner[w] /\ row[v] \in {"live", "ended"} =>
            row[w] \notin {"live", "ended"}

(* A deployment always points to its VM, and that is not a deleted one.    *)
DeploymentHasVm ==
    \A d \in Deployment : owner[vmOf[d]] = d /\ row[vmOf[d]] # "deleted"

(* A deployment whose server is down gets a VM elsewhere, or the server    *)
(* comes back.                                                             *)
FailedOver ==
    \A d \in Deployment, s \in Server :
        (on[vmOf[d]] = s /\ ~up[s]) ~> (up[s] \/ on[vmOf[d]] # s)

(* As long as some server runs, some server leads.                         *)
SomeoneLeads ==
    [](\E s \in Server : up[s]) => []<>(\E s \in Server : leader[s])

(* server.go:198: if any step fails, the whole operation rolls back: a     *)
(* failover never deletes a deployment's VM without giving it another one. *)
RollsBackWhole ==
    [][\A d \in Deployment : row'[vmOf[d]] = "deleted" => vmOf'[d] # vmOf[d]]_vars

(* server.go:197: everything runs in a single transaction, so a server is  *)
(* only marked dead while its heartbeat has expired.                       *)
OnlyDeadMarked ==
    [][\A s \in Server :
          status[s] = "active" /\ status'[s] = "dead" => beat[s] = "expired"]_vars

(* server.go:143: tryBecomeClusterLeader returns when leadership is lost   *)
(* through a connection error, and the flag with it.                       *)
LeadershipEnds ==
    \A s \in Server : (leader[s] /\ lock # s) ~> (~leader[s] \/ lock = s)
=============================================================================
