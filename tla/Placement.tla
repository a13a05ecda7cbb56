----------------------------- MODULE Placement -----------------------------
(***************************************************************************)
(* Where VMs are placed and which addresses they get: registerServer and   *)
(* drainServer of internal/zeitwork/server.go and VMCreate of vm.go.       *)
(*                                                                         *)
(* A server gets an IP range of its own when it registers for the first    *)
(* time; a VM gets a /31 of the range of the server it is placed on.  Both *)
(* allocations read the table and insert a row, in a transaction, under an *)
(* advisory lock that the end of the transaction releases.  VMCreate has   *)
(* chosen the server before, outside the transaction.  An operator sets    *)
(* servers.status to draining; no statement sets it back but a             *)
(* registration.                                                           *)
(*                                                                         *)
(* Addresses are numbers, 10.1.0.0 is 0, and a range is a pair of its base *)
(* and its size.  An address of a VM stands for its /31: the even one      *)
(* below it is the host's side.  VM states are reduced to "live" and       *)
(* "ended" (stopped, failed).  Failover has the replacement of the VMs of  *)
(* a dead server, which allocates in the same way under the same lock.     *)
(*                                                                         *)
(* Two texts of the query that allocates a range are in the repository.    *)
(* The one compiled in, server.sql.go:39-54, ends in FROM lock, a relation *)
(* that is not in the schema, and fails whenever it runs; server.sql:78-94 *)
(* does not.  Compiled says which one the build has.  With the first, only *)
(* servers that are in the table already run: Given has their ranges.      *)
(***************************************************************************)
EXTENDS Integers, FiniteSets

CONSTANTS
    Server,
    Caller,      \* goroutines that call VMCreate, of any process
    Vm,          \* ids of VM rows, numbers; they are used in turn
    Size,        \* of the first range, 4096 in the code
    Compiled,    \* the build has server.sql.go as it is, not regenerated
    Given,       \* the ranges servers may have at first; None: not there
    None,
    MaxFaults    \* how many faults of each kind

FaultKind == {"stop", "query"}   \* a process dies; a query fails

IpRange == Nat \X (Nat \ {0})

(* An address lies in a range; two ranges have no address in common.       *)
Within(a, r) == r[1] <= a /\ a < r[1] + r[2]
Apart(r, q)  == r[1] + r[2] <= q[1] \/ q[1] + q[2] <= r[1]

ASSUME SizeAssumption == Size \in Nat \ {0} /\ Compiled \in BOOLEAN
ASSUME GivenAssumption ==
    \A g \in Given :
        /\ g \in [Server -> IpRange \union {None}]
        /\ \A s, t \in Server :
              s # t /\ g[s] # None /\ g[t] # None => Apart(g[s], g[t])
ASSUME NoneAssumption ==
    None \notin Server \union Caller \union Nat \union IpRange \union {"active", "draining", "drained"}
ASSUME VmAssumption == Vm \subseteq Nat
ASSUME FaultAssumption == MaxFaults \in [FaultKind -> Nat]

VARIABLES
    status,      \* servers.status; None: no row
    fresh,       \* servers.last_heartbeat_at is younger than 30 s
    range,       \* servers.ip_range
    reg,         \* registerServer of each server's process
    next,        \* the range it has allocated
    drain,       \* drainServer of each server's process
    doomed,      \* the VMs it has listed and not deleted yet
    row, on, addr,    \* vms: its state, server_id and ip_address
    pc,          \* VMCreate of each caller
    target,      \* the server it has chosen
    ip,          \* the address it has allocated
    rangeLock,   \* who holds the advisory lock ServerAllocateIPRange
    vmLock,      \* who holds the advisory lock VMNextIPAddress
    faults

table    == <<status, fresh, range>>
register == <<reg, next, rangeLock>>
draining == <<drain, doomed>>
vms      == <<row, on, addr>>
calls    == <<pc, target, ip, vmLock>>
vars     == <<table, register, draining, vms, calls, faults>>

TypeOK ==
    /\ status \in [Server -> {None, "active", "draining", "drained"}]
    /\ fresh \in [Server -> BOOLEAN]
    /\ range \in [Server -> IpRange \union {None}]
    /\ reg \in [Server -> {"down", "allocated", "up"}]
    /\ next \in [Server -> IpRange \union {None}]
    /\ drain \in [Server -> {"idle", "delete"}]
    /\ doomed \in [Server -> SUBSET Vm]
    /\ row \in [Vm -> {"unused", "live", "ended", "deleted"}]
    /\ on \in [Vm -> Server \union {None}]
    /\ addr \in [Vm -> Nat \union {None}]
    /\ pc \in [Caller -> {"idle", "chosen", "allocated"}]
    /\ target \in [Caller -> Server \union {None}]
    /\ ip \in [Caller -> Nat \union {None}]
    /\ rangeLock \in Server \union {None}
    /\ vmLock \in Caller \union {None}
    /\ faults \in [FaultKind -> Nat]

Init ==
    /\ range \in Given
    /\ status = [s \in Server |-> IF range[s] = None THEN None ELSE "active"]
    /\ fresh = [s \in Server |-> FALSE]
    /\ reg = [s \in Server |-> "down"]
    /\ next = [s \in Server |-> None]
    /\ drain = [s \in Server |-> "idle"]
    /\ doomed = [s \in Server |-> {}]
    /\ row = [v \in Vm |-> "unused"]
    /\ on = [v \in Vm |-> None]
    /\ addr = [v \in Vm |-> None]
    /\ pc = [c \in Caller |-> "idle"]
    /\ target = [c \in Caller |-> None]
    /\ ip = [c \in Caller |-> None]
    /\ rangeLock = None
    /\ vmLock = None
    /\ faults = [k \in FaultKind |-> 0]

Suffer(k) ==
    /\ faults[k] < MaxFaults[k]
    /\ faults' = [faults EXCEPT ![k] = @ + 1]

-----------------------------------------------------------------------------
(* The process starts, and finds its row: it registers again.              *)
RegisterAgain(s) ==
    /\ reg[s] = "down" /\ status[s] # None
    /\ reg' = [reg EXCEPT ![s] = "up"]
    /\ status' = [status EXCEPT ![s] = "active"]
    /\ fresh' = [fresh EXCEPT ![s] = TRUE]
    /\ UNCHANGED <<range, next, rangeLock, draining, vms, calls, faults>>

(* Ranges of the servers in the table.                                     *)
Ranges == {range[t] : t \in {u \in Server : status[u] # None}}

(* The first range, or what host(set_masklen(last + size, 20))::cidr       *)
(* makes of the last one: host() drops the mask, so the new range is the   *)
(* one address after it.                                                   *)
NextRanges ==
    IF Ranges = {} THEN {<<0, Size>>}
    ELSE {<<r[1] + r[2], 1>> : r \in {q \in Ranges : \A p \in Ranges : p[1] <= q[1]}}

(* It finds no row (a query that fails looks the same to it), takes the    *)
(* lock and allocates a range.  When the query fails, and as compiled it   *)
(* always does, the transaction and the start of the process have failed:  *)
(* nothing has changed, and the process is started again.                  *)
AllocateRange(s) ==
    /\ ~Compiled
    /\ reg[s] = "down" /\ rangeLock = None
    /\ IF status[s] = None THEN UNCHANGED faults ELSE Suffer("query")
    /\ rangeLock' = s
    /\ \E r \in NextRanges : next' = [next EXCEPT ![s] = r]
    /\ reg' = [reg EXCEPT ![s] = "allocated"]
    /\ UNCHANGED <<table, draining, vms, calls>>

(* Mutant: the upsert overwrites the range.                                *)
RangeOverwritten(s) == next[s]

(* The upsert leaves the range of a row that exists alone.                 *)
RangeAfter(s) == IF status[s] = None THEN next[s] ELSE range[s]

(* ServerRegister, and the transaction commits.                            *)
Upsert(s) ==
    /\ reg[s] = "allocated"
    /\ range' = [range EXCEPT ![s] = RangeAfter(s)]
    /\ status' = [status EXCEPT ![s] = "active"]
    /\ fresh' = [fresh EXCEPT ![s] = TRUE]
    /\ reg' = [reg EXCEPT ![s] = "up"]
    /\ next' = [next EXCEPT ![s] = None]
    /\ rangeLock' = None
    /\ UNCHANGED <<draining, vms, calls, faults>>

(* The process ends, and with it its transaction; callers go on in others. *)
Crash(s) ==
    /\ reg[s] # "down"
    /\ Suffer("stop")
    /\ reg' = [reg EXCEPT ![s] = "down"]
    /\ next' = [next EXCEPT ![s] = None]
    /\ rangeLock' = IF rangeLock = s THEN None ELSE rangeLock
    /\ drain' = [drain EXCEPT ![s] = "idle"]
    /\ doomed' = [doomed EXCEPT ![s] = {}]
    /\ UNCHANGED <<table, vms, calls>>

(* 30 seconds without a heartbeat of a process that has died; Failover has *)
(* the heartbeats that are late.                                           *)
Silence(s) ==
    /\ fresh[s] /\ reg[s] # "up"
    /\ fresh' = [fresh EXCEPT ![s] = FALSE]
    /\ UNCHANGED <<status, range, register, draining, vms, calls, faults>>

-----------------------------------------------------------------------------
Vms(s, states) == {v \in Vm : on[v] = s /\ row[v] \in states}

Candidates == {s \in Server : status[s] = "active" /\ fresh[s]}

(* ServerFindLeastLoaded.                                                  *)
LeastLoaded ==
    {s \in Candidates : \A t \in Candidates :
        Cardinality(Vms(s, {"live"})) <= Cardinality(Vms(t, {"live"}))}

(* VMCreate chooses a server; without one it fails.                        *)
Choose(c) ==
    /\ pc[c] = "idle"
    /\ \E s \in LeastLoaded : target' = [target EXCEPT ![c] = s]
    /\ pc' = [pc EXCEPT ![c] = "chosen"]
    /\ UNCHANGED <<ip, vmLock, table, register, draining, vms, faults>>

(* Mutant: nobody waits for the lock.                                      *)
LockIgnored == TRUE

LockFree == vmLock = None

(* Every other place of the range of s, from the second to the last but    *)
(* one, that no VM of s has.                                               *)
FreePlaces(s) ==
    {k \in 1 .. range[s][2] - 2 :
        /\ k % 2 = 1
        /\ \A v \in Vms(s, {"live", "ended"}) : addr[v] # range[s][1] + k}

(* Take the lock, and VMNextIPAddress: the first free address; without one *)
(* VMCreate fails.                                                         *)
Allocate(c) ==
    /\ pc[c] = "chosen" /\ LockFree
    /\ vmLock' = c
    /\ \E k \in FreePlaces(target[c]) :
          /\ \A j \in FreePlaces(target[c]) : k <= j
          /\ ip' = [ip EXCEPT ![c] = range[target[c]][1] + k]
    /\ pc' = [pc EXCEPT ![c] = "allocated"]
    /\ UNCHANGED <<target, table, register, draining, vms, faults>>

(* The constraint exclude_overlapping_networks refuses an address in use.  *)
InUse(a) == \E v \in Vm : row[v] \in {"live", "ended"} /\ addr[v] = a

Refused(c) ==
    \/ pc[c] = "chosen" /\ LockFree /\ FreePlaces(target[c]) = {}
    \/ pc[c] = "allocated" /\ InUse(ip[c])

EndCall(c) ==
    /\ pc' = [pc EXCEPT ![c] = "idle"]
    /\ target' = [target EXCEPT ![c] = None]
    /\ ip' = [ip EXCEPT ![c] = None]
    /\ vmLock' = IF vmLock = c THEN None ELSE vmLock
    /\ UNCHANGED <<table, register, draining>>

(* The INSERT, and the transaction commits.                                *)
Insert(c) ==
    /\ pc[c] = "allocated" /\ ~InUse(ip[c])
    /\ \E v \in Vm :
          /\ row[v] = "unused" /\ \A w \in Vm : w < v => row[w] # "unused"
          /\ row' = [row EXCEPT ![v] = "live"]
          /\ on' = [on EXCEPT ![v] = target[c]]
          /\ addr' = [addr EXCEPT ![v] = ip[c]]
    /\ EndCall(c)
    /\ UNCHANGED faults

(* The range is full, the INSERT is refused, a statement fails or the      *)
(* caller's process dies: the transaction, if any, is rolled back.         *)
CreateFails(c) ==
    /\ pc[c] # "idle"
    /\ EndCall(c)
    /\ IF Refused(c) THEN UNCHANGED faults ELSE Suffer("query")
    /\ UNCHANGED vms

(* The supervisor stops, fails and restarts a VM; anybody deletes it.      *)
VmChanges(v) ==
    /\ \/ row[v] = "live"  /\ row' = [row EXCEPT ![v] = "ended"]
       \/ row[v] = "ended" /\ row' = [row EXCEPT ![v] = "live"]
       \/ row[v] \in {"live", "ended"} /\ row' = [row EXCEPT ![v] = "deleted"]
    /\ UNCHANGED <<on, addr, table, register, draining, calls, faults>>

-----------------------------------------------------------------------------
(* An operator: UPDATE servers SET status = 'draining'.                    *)
AskToDrain(s) ==
    /\ status[s] = "active"
    /\ status' = [status EXCEPT ![s] = "draining"]
    /\ UNCHANGED <<fresh, range, register, draining, vms, calls, faults>>

(* reconcileServer of the server's own process, and VMFindByServerID; when *)
(* that fails there is nothing to delete.  No deployment has status        *)
(* running, so there is none to migrate.                                   *)
BeginDrain(s) ==
    /\ reg[s] = "up" /\ status[s] = "draining" /\ drain[s] = "idle"
    /\ drain' = [drain EXCEPT ![s] = "delete"]
    /\ \/ doomed' = [doomed EXCEPT ![s] = Vms(s, {"live"})] /\ UNCHANGED faults
       \/ Suffer("query") /\ UNCHANGED doomed
    /\ UNCHANGED <<table, register, vms, calls>>

(* VMSoftDelete; a failure is logged.                                      *)
DeleteVm(s) ==
    /\ drain[s] = "delete"
    /\ \E v \in doomed[s] :
          /\ doomed' = [doomed EXCEPT ![s] = @ \ {v}]
          /\ \/ row' = [row EXCEPT ![v] = "deleted"] /\ UNCHANGED faults
             \/ Suffer("query") /\ UNCHANGED row
    /\ UNCHANGED <<drain, on, addr, table, register, calls>>

(* Mutant: the drain waits for a server without VMs.                       *)
ServerEmpty(s) == doomed[s] = {} /\ Vms(s, {"live", "ended"}) = {}

ListDone(s) == doomed[s] = {}

(* ServerSetDrained; when it fails the server stays draining, and a        *)
(* resync starts over.                                                     *)
EndDrain(s) ==
    /\ drain[s] = "delete" /\ ListDone(s)
    /\ drain' = [drain EXCEPT ![s] = "idle"]
    /\ \/ status' = [status EXCEPT ![s] = "drained"] /\ UNCHANGED faults
       \/ Suffer("query") /\ UNCHANGED status
    /\ UNCHANGED <<doomed, fresh, range, register, vms, calls>>

-----------------------------------------------------------------------------
Start(s) == RegisterAgain(s) \/ AllocateRange(s) \/ Upsert(s)
Drain(s) == BeginDrain(s) \/ DeleteVm(s) \/ EndDrain(s)
Call(c)  == Allocate(c) \/ Insert(c) \/ CreateFails(c)

Next ==
    \/ \E s \in Server : \/ Start(s) \/ Drain(s) \/ Crash(s)
                         \/ Silence(s) \/ AskToDrain(s)
    \/ \E c \in Caller : Choose(c) \/ Call(c)
    \/ \E v \in Vm : VmChanges(v)

Spec == Init /\ [][Next]_vars

(* A process runs, and is started again when it has died.                  *)
FairSpec ==
    /\ Spec
    /\ \A s \in Server : WF_vars(Start(s)) /\ WF_vars(Drain(s))

-----------------------------------------------------------------------------
(* The address a call has allocated is in use by no VM of the cluster when *)
(* the call comes to insert it, so the exclusion constraint refuses no     *)
(* VMCreate: the lock covers the read and the insert, a range belongs to   *)
(* one server, and addresses of deleted VMs alone are given out again.     *)
AllocationsHold == \A c \in Caller : pc[c] = "allocated" => ~InUse(ip[c])

(* The kernel routes of the other servers go by range: the address of a VM *)
(* that is not deleted lies in the range of its server, whatever restarts  *)
(* and registrations came since, and no two ranges, as large or as small   *)
(* as the query has made them, have an address in common.                  *)
Routable ==
    /\ \A v \in Vm : row[v] \in {"live", "ended"} => Within(addr[v], range[on[v]])
    /\ \A s, t \in Server :
          s # t /\ status[s] # None /\ status[t] # None => Apart(range[s], range[t])

(* A drain comes to an end, though VMs are still placed on the server and  *)
(* statements fail, by SetDrained or by a restart of the server.           *)
DrainEnds == \A s \in Server : status[s] = "draining" ~> status[s] # "draining"

(* server.sql:81, "Each /20 contains 4096 addresses": a server without VMs *)
(* has an address for one.  Refuted without Compiled.                      *)
EveryServerHasRoom ==
    \A s \in Server :
        status[s] # None /\ Vms(s, {"live", "ended"}) = {} => FreePlaces(s) # {}

(* server.go:52, registerServer "upserts this server into the servers      *)
(* table and allocates an IP range if this is a first-time registration".  *)
(* Refuted with Compiled.                                                  *)
EveryServerRegisters == \A s \in Server : <>(status[s] # None)

(* server.sql:55, "All VMs have been migrated off": refuted.               *)
DrainedServerEmpty ==
    \A s \in Server : status[s] = "drained" => Vms(s, {"live", "ended"}) = {}
=============================================================================
