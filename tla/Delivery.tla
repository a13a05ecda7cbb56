------------------------------ MODULE Delivery ------------------------------
(***************************************************************************)
(* How a committed change of a deployment becomes a pass over it:          *)
(* internal/listener, and the callbacks, bootstraps and start sequence of  *)
(* internal/zeitwork/zeitwork.go around it.                                *)
(*                                                                         *)
(* Every server streams the WAL through a temporary slot of its own and    *)
(* schedules what changed; only passes of the control-plane leader do      *)
(* anything.  A leader lists all rows when it takes over, but a slot only  *)
(* sends what is committed after it was created, and once a listener has   *)
(* ended nothing starts it again: what was neither listed nor sent is      *)
(* unknown to the scheduler, and what is known it visits every hour.       *)
(*                                                                         *)
(* Versions stand for the content of a deployment and of the VM it is      *)
(* linked to; the scheduler is the abstract queue of WorkQueue with passes *)
(* that read the row when they begin.  (Names that module Scheduler has    *)
(* too carry the prefix Delivery, so that one module can extend both.)     *)
(***************************************************************************)
EXTENDS Naturals, FiniteSets

CONSTANTS
    Server,
    Deployment,   \* some of them are yet to be created
    None,         \* NULL
    MaxVersion,   \* how often a deployment changes (bound)
    MaxFaults     \* how many kinds of fault may happen, each of them once

(* A process dies, a replication connection breaks, the event of a change  *)
(* is lost in the callback, a leader's list query fails, the connection    *)
(* that holds the leader lock breaks without the leader noticing.          *)
FaultKind == {"crash", "connection", "callback", "list", "lock"}

ASSUME NoneAssumption == None \notin Server
ASSUME BoundAssumption == MaxVersion \in Nat \ {0} /\ MaxFaults \in Nat

VARIABLES
    row,       \* version of each deployment, 0 before it exists
    seen,      \* the newest version a pass of a leader has read
    phase,     \* how far Start is on each server; deaf when it has returned
    slot,      \* the database still has the server's slot from a last life
    wal,       \* events sent through the slot and not handled yet
    queued,    \* deployments whose schedule entry is due
    known,     \* deployments the scheduler has ever been given
    lock,      \* the session that holds the leader lock
    leads,     \* isControlPlaneLeader()
    listed,    \* bootstrapGlobal since it leads: no, "gap", "whole", failed
    faults

deliveryVars == <<row, seen, phase, slot, wal, queued, known, lock, leads, listed, faults>>

Event == Deployment \X {"deployment", "vm"}

DeliveryTypeOK ==
    /\ row \in [Deployment -> 0 .. MaxVersion]
    /\ seen \in [Deployment -> 0 .. MaxVersion]
    /\ phase \in [Server -> {"down", "up", "ready", "streaming", "deaf"}]
    /\ slot \in [Server -> BOOLEAN]
    /\ wal \in [Server -> SUBSET Event]
    /\ queued \in [Server -> SUBSET Deployment]
    /\ known \in [Server -> SUBSET Deployment]
    /\ lock \in Server \union {None}
    /\ leads \in [Server -> BOOLEAN]
    /\ listed \in [Server -> {"no", "gap", "whole", "failed"}]
    /\ faults \subseteq FaultKind

DeliveryInit ==
    /\ row \in [Deployment -> {0, 1}]
    /\ seen = [d \in Deployment |-> 0]
    /\ phase = [s \in Server |-> "down"]
    /\ slot = [s \in Server |-> FALSE]
    /\ wal = [s \in Server |-> {}]
    /\ queued = [s \in Server |-> {}]
    /\ known = [s \in Server |-> {}]
    /\ lock = None
    /\ leads = [s \in Server |-> FALSE]
    /\ listed = [s \in Server |-> "no"]
    /\ faults = {}

-----------------------------------------------------------------------------
Suffer(k) ==
    /\ k \notin faults
    /\ Cardinality(faults) < MaxFaults
    /\ faults' = faults \union {k}

Running(s) == phase[s] # "down"
Streaming(s) == phase[s] = "streaming"
Exists == {d \in Deployment : row[d] > 0}

(* Schedule(d, now) for the deployments of D on s.                         *)
ScheduleNow(s, D) ==
    /\ queued' = [queued EXCEPT ![s] = @ \union D]
    /\ known' = [known EXCEPT ![s] = @ \union D]

(* A commit is sent through every slot there is.                           *)
Send(e) == wal' = [s \in Server |-> IF Streaming(s) THEN wal[s] \union {e} ELSE wal[s]]

(* The row is inserted or updated, or, once it exists, that of its VM is.  *)
Commit(d, table) ==
    /\ row[d] < MaxVersion
    /\ table = "vm" => d \in Exists
    /\ row' = [row EXCEPT ![d] = @ + 1]
    /\ Send(<<d, table>>)
    /\ UNCHANGED <<seen, phase, slot, queued, known, lock, leads, listed, faults>>

-----------------------------------------------------------------------------
(* Registered, schedulers and duty loop running; no deployments are listed *)
(* here unless the server leads.                                           *)
Start(s) ==
    /\ phase[s] = "down"
    /\ phase' = [phase EXCEPT ![s] = "up"]
    /\ UNCHANGED <<row, seen, slot, wal, queued, known, lock, leads, listed, faults>>

(* Start lists the deployments itself if the server leads by then.         *)
StartLists(s) ==
    /\ phase[s] = "up"
    /\ phase' = [phase EXCEPT ![s] = "ready"]
    /\ ScheduleNow(s, IF leads[s] THEN Exists ELSE {})
    /\ UNCHANGED <<row, seen, slot, wal, lock, leads, listed, faults>>

(* A bootstrap fails: Start returns its error, the process stays.          *)
StartFails(s) ==
    /\ phase[s] = "up"
    /\ Suffer("list")
    /\ phase' = [phase EXCEPT ![s] = "deaf"]
    /\ UNCHANGED <<row, seen, slot, wal, queued, known, lock, leads, listed>>

(* The slot is named after the server, so it cannot be created while the   *)
(* database has not noticed that its last owner died.                      *)
CreateReplicationSlot(s) ==
    /\ phase[s] = "ready"
    /\ phase' = [phase EXCEPT ![s] = IF slot[s] THEN "deaf" ELSE "streaming"]
    /\ UNCHANGED <<row, seen, slot, wal, queued, known, lock, leads, listed, faults>>

DropSlot(s) ==
    /\ slot[s]
    /\ slot' = [slot EXCEPT ![s] = FALSE]
    /\ UNCHANGED <<row, seen, phase, wal, queued, known, lock, leads, listed, faults>>

(* Mutant: VM changes are not looked up.                                   *)
HandleOwn(s, e) ==
    /\ e \in wal[s]
    /\ wal' = [wal EXCEPT ![s] = @ \ {e}]
    /\ ScheduleNow(s, IF e[2] = "vm" THEN {} ELSE {e[1]})
    /\ UNCHANGED <<row, seen, phase, slot, lock, leads, listed, faults>>

(* OnDeployment schedules it, OnVM the deployment that uses the VM.        *)
Handle(s, e) ==
    /\ e \in wal[s]
    /\ wal' = [wal EXCEPT ![s] = @ \ {e}]
    /\ ScheduleNow(s, {e[1]})
    /\ UNCHANGED <<row, seen, phase, slot, lock, leads, listed, faults>>

(* The reverse lookup fails, or the message cannot be processed: logged.   *)
CallbackFails(s, e) ==
    /\ e \in wal[s]
    /\ Suffer("callback")
    /\ wal' = [wal EXCEPT ![s] = @ \ {e}]
    /\ UNCHANGED <<row, seen, phase, slot, queued, known, lock, leads, listed>>

(* Receiving or acknowledging fails: Start returns, the process stays.     *)
ConnectionBreaks(s) ==
    /\ Streaming(s)
    /\ Suffer("connection")
    /\ phase' = [phase EXCEPT ![s] = "deaf"]
    /\ wal' = [wal EXCEPT ![s] = {}]
    /\ UNCHANGED <<row, seen, slot, queued, known, lock, leads, listed>>

Crash(s) ==
    /\ Running(s)
    /\ Suffer("crash")
    /\ phase' = [phase EXCEPT ![s] = "down"]
    /\ slot' = [slot EXCEPT ![s] = @ \/ Streaming(s)]
    /\ wal' = [wal EXCEPT ![s] = {}]
    /\ queued' = [queued EXCEPT ![s] = {}]
    /\ known' = [known EXCEPT ![s] = {}]
    /\ leads' = [leads EXCEPT ![s] = FALSE]
    /\ listed' = [listed EXCEPT ![s] = "no"]
    /\ lock' = IF lock = s THEN None ELSE lock
    /\ UNCHANGED <<row, seen>>

-----------------------------------------------------------------------------
(* tryBecomeClusterLeader.                                                 *)
Acquire(s) ==
    /\ Running(s)
    /\ ~leads[s]
    /\ lock = None
    /\ lock' = s
    /\ leads' = [leads EXCEPT ![s] = TRUE]
    /\ UNCHANGED <<row, seen, phase, slot, wal, queued, known, listed, faults>>

LockLost(s) ==
    /\ lock = s
    /\ Suffer("lock")
    /\ lock' = None
    /\ UNCHANGED <<row, seen, phase, slot, wal, queued, known, leads, listed>>

(* A list made while the slot is open misses nothing.                      *)
ListedNow(s) == IF Streaming(s) THEN "whole" ELSE "gap"

BootstrapGlobal(s) ==
    /\ leads[s] /\ listed[s] = "no"
    /\ ScheduleNow(s, Exists)
    /\ listed' = [listed EXCEPT ![s] = ListedNow(s)]
    /\ UNCHANGED <<row, seen, phase, slot, wal, lock, leads, faults>>

BootstrapFails(s) ==
    /\ leads[s] /\ listed[s] = "no"
    /\ Suffer("list")
    /\ listed' = [listed EXCEPT ![s] = "failed"]
    /\ UNCHANGED <<row, seen, phase, slot, wal, queued, known, lock, leads>>

-----------------------------------------------------------------------------
(* A pass begins and reads the row, unless the server does not lead.       *)
Pass(s, d) ==
    /\ d \in queued[s]
    /\ queued' = [queued EXCEPT ![s] = @ \ {d}]
    /\ seen' = IF leads[s] THEN [seen EXCEPT ![d] = row[d]] ELSE seen
    /\ UNCHANGED <<row, phase, slot, wal, known, lock, leads, listed, faults>>

(* Mutant: visits are left to the events while there are any.             *)
ResyncWhenDeaf(s, d) ==
    /\ ~Streaming(s)
    /\ d \in known[s] \ queued[s]
    /\ queued' = [queued EXCEPT ![s] = @ \union {d}]
    /\ UNCHANGED <<row, seen, phase, slot, wal, known, lock, leads, listed, faults>>

(* The scheduler visits what it knows every hour.                          *)
Resync(s, d) ==
    /\ d \in known[s] \ queued[s]
    /\ queued' = [queued EXCEPT ![s] = @ \union {d}]
    /\ UNCHANGED <<row, seen, phase, slot, wal, known, lock, leads, listed, faults>>

DeliveryNext ==
    \/ \E d \in Deployment, table \in {"deployment", "vm"} : Commit(d, table)
    \/ \E s \in Server :
          \/ Start(s)
          \/ StartLists(s)
          \/ StartFails(s)
          \/ CreateReplicationSlot(s)
          \/ DropSlot(s)
          \/ \E e \in Event : Handle(s, e)
          \/ \E e \in Event : CallbackFails(s, e)
          \/ ConnectionBreaks(s)
          \/ Crash(s)
          \/ Acquire(s)
          \/ LockLost(s)
          \/ BootstrapGlobal(s)
          \/ BootstrapFails(s)
          \/ \E d \in Deployment : Pass(s, d)
          \/ \E d \in Deployment : Resync(s, d)

DeliverySpec == DeliveryInit /\ [][DeliveryNext]_deliveryVars

(* The scheduler's promises (module Scheduler): what is due gets a pass,   *)
(* what is known becomes due again.                                        *)
DeliveryFairness ==
    \A s \in Server, d \in Deployment :
        WF_deliveryVars(Pass(s, d)) /\ WF_deliveryVars(Resync(s, d))

DeliveryFairSpec == DeliverySpec /\ DeliveryFairness

-----------------------------------------------------------------------------
(* A leader whose listener was open when it listed the deployments, and    *)
(* still is, misses no change: what no leader has read yet is due on it or *)
(* on its way, whoever else leads and whatever crashed before, as long as  *)
(* no callback failed.                                                     *)
Covered(s) == leads[s] /\ listed[s] = "whole" /\ Streaming(s)

NothingMissed ==
    \A s \in Server : Covered(s) /\ "callback" \notin faults =>
        \A d \in Deployment : row[d] > seen[d] =>
            d \in queued[s] \/ (\E e \in wal[s] : e[1] = d)

(* A change of a deployment the leader knows is read by a pass as long as  *)
(* the leader lives, even if its event never comes, because the listener   *)
(* has ended, a callback failed or the change fell into the gap before the *)
(* slot.                                                                   *)
KnownChangesRead ==
    \A s \in Server, d \in Deployment, n \in 1 .. MaxVersion :
        (leads[s] /\ d \in known[s] /\ row[d] = n) ~> (seen[d] >= n \/ ~leads[s])

(* What a reader of the callbacks would expect and the code does not give: *)
(* a deployment created while some server leads is known to a leader soon. *)
NewRowsKnown ==
    \A d \in Deployment :
        (d \in Exists /\ \E s \in Server : leads[s]) ~>
            (\E s \in Server : leads[s] /\ d \in known[s])
=============================================================================
