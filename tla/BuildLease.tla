----------------------------- MODULE BuildLease -----------------------------
(***************************************************************************)
(* internal/zeitwork/build.go: one build and the servers that may process  *)
(* it.  Only a control-plane leader reconciles builds, but leadership      *)
(* moves while a pass is under way and nothing stops that pass, so what    *)
(* keeps two servers apart is the lease on the row (processing_by,         *)
(* processing_started_at).  The lease is taken when a pass begins, given   *)
(* back when it ends, never renewed, and may be taken over once it is      *)
(* older than 30 minutes.                                                  *)
(*                                                                         *)
(* Ages are counted in quarters of an hour and stop counting past the      *)
(* longest one the code compares.  Only executing a build takes that long: *)
(* time does not pass while a pass stands between two statements.          *)
(*                                                                         *)
(* activeBuilds, the guard against two executions inside one process, is   *)
(* not modelled: a server's passes over a build never overlap (Scheduler). *)
(***************************************************************************)
EXTENDS Naturals, FiniteSets

CONSTANTS
    Server,
    Vm,           \* ids for build VMs, numbers; they are used in turn
    None,         \* NULL
    StuckAfter,   \* a build older than this is marked failed
    StaleAfter,   \* a lease older than this may be taken over
    MaxFaults     \* how many kinds of fault may happen, each of them once

FaultKind == {"crash", "lead", "vm", "statement", "reply", "overrun"}

ASSUME NoneAssumption == None \notin Server \union Vm
ASSUME VmAssumption == Vm \subseteq Nat
ASSUME AgeAssumption ==
    StuckAfter \in Nat /\ StaleAfter \in Nat /\ StuckAfter <= StaleAfter
ASSUME FaultAssumption == MaxFaults \in Nat

Age  == 0 .. StaleAfter + 1
Older(a) == IF a > StaleAfter THEN a ELSE a + 1

VARIABLES
    status, failedAt, imageId, vmId,   \* the builds row
    holder, leaseAge,                  \* its lease
    buildAge,                          \* time since building_at
    vm,         \* vms rows: unused, waiting, running, failed, deleted
    leader,     \* isControlPlaneLeader() on each server
    queued,     \* the build is due on each server
    pc, copy,   \* each server's pass and its copy of the row
    faults      \* the kinds of fault that have happened

row   == <<status, failedAt, imageId, vmId>>
lease == <<holder, leaseAge>>
passes == <<pc, copy>>
vars  == <<row, lease, buildAge, vm, leader, queued, passes, faults>>

BuildStatus == {"pending", "building", "succesful", "failed"}

TypeOK ==
    /\ status \in BuildStatus
    /\ failedAt \in BOOLEAN
    /\ imageId \in BOOLEAN
    /\ vmId \in Vm \union {None}
    /\ holder \in Server \union {None}
    /\ leaseAge \in Age /\ buildAge \in Age
    /\ vm \in [Vm -> {"unused", "waiting", "running", "failed", "deleted"}]
    /\ leader \in [Server -> BOOLEAN]
    /\ queued \in [Server -> BOOLEAN]
    /\ pc \in [Server -> {"idle", "age", "create", "link", "look", "exec",
                          "succeed", "fail", "clean", "release"}]
    /\ copy \in [Server -> [status : BuildStatus, vmId : Vm \union {None}]]
    /\ faults \subseteq FaultKind

Init ==
    /\ status = "pending" /\ failedAt = FALSE /\ imageId = FALSE /\ vmId = None
    /\ holder = None /\ leaseAge = 0
    /\ buildAge = 0
    /\ vm = [v \in Vm |-> "unused"]
    /\ \E s \in Server : leader = [t \in Server |-> t = s]
    /\ queued = [s \in Server |-> TRUE]
    /\ pc = [s \in Server |-> "idle"]
    /\ copy = [s \in Server |-> [status |-> "pending", vmId |-> None]]
    /\ faults = {}

-----------------------------------------------------------------------------
Suffer(k) ==
    /\ k \notin faults
    /\ Cardinality(faults) < MaxFaults
    /\ faults' = faults \union {k}

Goto(s, l) == pc' = [pc EXCEPT ![s] = l]
WakeAll == queued' = [s \in Server |-> TRUE]

Ended == status \in {"succesful", "failed"}

(* UPDATE builds SET status = 'failed', failed_at = now() WHERE id = $1    *)
BuildMarkFailed ==
    /\ status' = "failed"
    /\ failedAt' = TRUE
    /\ WakeAll
    /\ UNCHANGED <<imageId, vmId>>

(* Mutant: a lease is stale at 30 minutes.                                 *)
ClaimableEarly(s) ==
    /\ ~Ended
    /\ holder \in {None, s} \/ leaseAge >= StaleAfter

Claimable(s) ==
    /\ ~Ended
    /\ holder \in {None, s} \/ leaseAge > StaleAfter

(* BuildClaimLease returns the row; without a row the pass is over.  The   *)
(* claim is an update of the row, so its own event makes the build due     *)
(* again on every server.  Ended builds cannot be claimed, so the test for *)
(* them after the claim never holds.                                       *)
ClaimLease(s) ==
    /\ pc[s] = "idle" /\ queued[s]
    /\ leader[s] /\ Claimable(s)
    /\ holder' = s
    /\ leaseAge' = 0
    /\ copy' = [copy EXCEPT ![s] = [status |-> status, vmId |-> vmId]]
    /\ Goto(s, "age")
    /\ WakeAll
    /\ UNCHANGED <<row, buildAge, vm, leader, faults>>

NotClaimed(s) ==
    /\ pc[s] = "idle" /\ queued[s]
    /\ ~(leader[s] /\ Claimable(s))
    /\ queued' = [queued EXCEPT ![s] = FALSE]
    /\ UNCHANGED <<row, lease, buildAge, vm, leader, passes, faults>>

(* Mutant: stuck builds are not looked for.                                *)
CheckNoAge(s) ==
    /\ pc[s] = "age"
    /\ Goto(s, IF copy[s].vmId = None THEN "create" ELSE "look")
    /\ UNCHANGED <<row, lease, buildAge, vm, leader, queued, copy, faults>>

CheckAge(s) ==
    /\ pc[s] = "age"
    /\ IF copy[s].status = "building" /\ buildAge > StuckAfter
       THEN BuildMarkFailed /\ Goto(s, "release")
       ELSE /\ Goto(s, IF copy[s].vmId = None THEN "create" ELSE "look")
            /\ UNCHANGED <<row, queued>>
    /\ UNCHANGED <<lease, buildAge, vm, leader, copy, faults>>

VMCreate(s) ==
    /\ pc[s] = "create"
    /\ \E v \in Vm :
        /\ vm[v] = "unused" /\ \A w \in Vm : w < v => vm[w] # "unused"
        /\ vm' = [vm EXCEPT ![v] = "waiting"]
        /\ copy' = [copy EXCEPT ![s].vmId = v]
    /\ Goto(s, "link")
    /\ UNCHANGED <<row, lease, buildAge, leader, queued, faults>>

BuildMarkBuilding(s) ==
    /\ pc[s] = "link"
    /\ status' = "building"
    /\ vmId' = copy[s].vmId
    /\ buildAge' = 0
    /\ WakeAll
    /\ Goto(s, "release")
    /\ UNCHANGED <<failedAt, imageId, lease, vm, leader, copy, faults>>

(* A failed VM fails the build; one that is not running yet is awaited;    *)
(* whether it is deleted is not asked.                                     *)
LookAtVm(s) ==
    /\ pc[s] = "look"
    /\ LET up == vm[copy[s].vmId] \in {"running", "deleted"} IN
       IF vm[copy[s].vmId] = "failed"
       THEN BuildMarkFailed /\ Goto(s, "release")
       ELSE /\ Goto(s, IF up THEN "exec" ELSE "release")
            /\ UNCHANGED <<row, queued>>
    /\ UNCHANGED <<lease, buildAge, vm, leader, copy, faults>>

(* executeBuild: minutes to hours of network, docker and registry.         *)
ExecuteBuild(s) ==
    /\ pc[s] = "exec"
    /\ \/ vm[copy[s].vmId] = "running" /\ Goto(s, "succeed")
       \/ Goto(s, "fail")
    /\ UNCHANGED <<row, lease, buildAge, vm, leader, queued, copy, faults>>

(* The copy is not successful, so the row is updated whatever it says now. *)
BuildMarkSuccessful(s) ==
    /\ pc[s] = "succeed"
    /\ status' = "succesful"
    /\ imageId' = TRUE
    /\ WakeAll
    /\ Goto(s, "clean")
    /\ UNCHANGED <<failedAt, vmId, lease, buildAge, vm, leader, copy, faults>>

(* Mutant: only a successful build deletes its VM.                         *)
ExecutionFailedKeepsVm(s) ==
    /\ pc[s] = "fail"
    /\ BuildMarkFailed
    /\ Goto(s, "release")
    /\ UNCHANGED <<lease, buildAge, vm, leader, copy, faults>>

ExecutionFailed(s) ==
    /\ pc[s] = "fail"
    /\ BuildMarkFailed
    /\ Goto(s, "clean")
    /\ UNCHANGED <<lease, buildAge, vm, leader, copy, faults>>

CleanupBuildVM(s) ==
    /\ pc[s] = "clean"
    /\ vm' = [vm EXCEPT ![copy[s].vmId] = "deleted"]
    /\ Goto(s, "release")
    /\ UNCHANGED <<row, lease, buildAge, leader, queued, copy, faults>>

(* The deferred release touches only a lease this server still owns.       *)
ReleaseLease(s) ==
    /\ pc[s] = "release"
    /\ holder' = IF holder = s THEN None ELSE holder
    /\ WakeAll
    /\ Goto(s, "idle")
    /\ UNCHANGED <<row, leaseAge, buildAge, vm, leader, copy, faults>>

(* Mutant: executeBuild returns the error of cleaning up after success.    *)
CleanupErrorFails(s) ==
    /\ pc[s] = "clean"
    /\ Suffer("statement")
    /\ Goto(s, "fail")
    /\ UNCHANGED <<row, lease, buildAge, vm, leader, queued, copy>>

(* A statement of the pass fails.  A build that cannot be marked           *)
(* successful is marked failed; the errors of the last three are logged,   *)
(* and an error returned makes the build due again.                        *)
StatementFails(s) ==
    /\ pc[s] \in {"age", "create", "link", "look", "succeed", "fail", "clean", "release"}
    /\ Suffer("statement")
    /\ Goto(s, CASE pc[s] = "succeed" -> "fail"
                 [] pc[s] = "fail"    -> "clean"
                 [] pc[s] = "release" -> "idle"
                 [] OTHER             -> "release")
    /\ queued' = [queued EXCEPT ![s] = TRUE]
    /\ UNCHANGED <<row, lease, buildAge, vm, leader, copy>>

(* A statement takes effect, but its caller gets an error: the connection  *)
(* broke before the reply.  The claim is made without a pass, the VM is    *)
(* created without a build, and a build that is marked successful is       *)
(* marked failed next.  For the other statements it makes no difference,   *)
(* because the pass goes on in the same way after an error.                *)
ReplyLost(s) ==
    /\ Suffer("reply")
    /\ \/ /\ pc[s] = "idle" /\ queued[s] /\ leader[s] /\ Claimable(s)
          /\ holder' = s /\ leaseAge' = 0
          /\ WakeAll
          /\ UNCHANGED <<row, vm, pc>>
       \/ /\ pc[s] = "create"
          /\ \E v \in Vm :
                /\ vm[v] = "unused" /\ \A w \in Vm : w < v => vm[w] # "unused"
                /\ vm' = [vm EXCEPT ![v] = "waiting"]
          /\ queued' = [queued EXCEPT ![s] = TRUE]
          /\ Goto(s, "release")
          /\ UNCHANGED <<row, lease>>
       \/ /\ pc[s] = "succeed"
          /\ status' = "succesful" /\ imageId' = TRUE
          /\ WakeAll
          /\ Goto(s, "fail")
          /\ UNCHANGED <<failedAt, vmId, lease, vm>>
    /\ UNCHANGED <<buildAge, leader, copy>>

-----------------------------------------------------------------------------
(* A VM event reaches the build through BuildFindByVMID; the hourly resync *)
(* reaches every build.                                                    *)
Resync(s) ==
    /\ ~queued[s]
    /\ queued' = [queued EXCEPT ![s] = TRUE]
    /\ UNCHANGED <<row, lease, buildAge, vm, leader, passes, faults>>

VmBoots(v) ==
    /\ vm[v] = "waiting"
    /\ vm' = [vm EXCEPT ![v] = "running"]
    /\ WakeAll
    /\ UNCHANGED <<row, lease, buildAge, leader, passes, faults>>

VmFails(v) ==
    /\ vm[v] \in {"waiting", "running"}
    /\ Suffer("vm")
    /\ vm' = [vm EXCEPT ![v] = "failed"]
    /\ WakeAll
    /\ UNCHANGED <<row, lease, buildAge, leader, passes>>

(* The VM reconciler starts a failed VM again.                             *)
VmRestarts(v) ==
    /\ vm[v] = "failed"
    /\ vm' = [vm EXCEPT ![v] = "waiting"]
    /\ WakeAll
    /\ UNCHANGED <<row, lease, buildAge, leader, passes, faults>>

(* An execution that outlasts its lease: a fault of kind "overrun".        *)
Overruns == leaseAge >= StaleAfter /\ \E s \in Server : pc[s] = "exec" /\ holder = s

(* A quarter of an hour.                                                   *)
Elapse ==
    /\ \A s \in Server : pc[s] \in {"idle", "exec"}
    /\ leaseAge' = Older(leaseAge)
    /\ buildAge' = Older(buildAge)
    /\ <<leaseAge, buildAge>>' # <<leaseAge, buildAge>>
    /\ IF Overruns THEN Suffer("overrun") ELSE UNCHANGED faults
    /\ UNCHANGED <<row, holder, vm, leader, queued, passes>>

(* Another server leads; a pass of the old leader simply goes on.          *)
LeadMoves(s) ==
    /\ ~leader[s]
    /\ Suffer("lead")
    /\ leader' = [t \in Server |-> t = s]
    /\ queued' = [queued EXCEPT ![s] = TRUE]
    /\ UNCHANGED <<row, lease, buildAge, vm, passes>>

(* The process dies and starts again under the same server id.             *)
Crash(s) ==
    /\ pc[s] # "idle"
    /\ Suffer("crash")
    /\ Goto(s, "idle")
    /\ queued' = [queued EXCEPT ![s] = TRUE]
    /\ UNCHANGED <<row, lease, buildAge, vm, leader, copy>>

Pass(s) ==
    \/ ClaimLease(s)
    \/ NotClaimed(s)
    \/ CheckAge(s)
    \/ VMCreate(s)
    \/ BuildMarkBuilding(s)
    \/ LookAtVm(s)
    \/ ExecuteBuild(s)
    \/ BuildMarkSuccessful(s)
    \/ ExecutionFailed(s)
    \/ CleanupBuildVM(s)
    \/ ReleaseLease(s)

Next ==
    \/ \E s \in Server : Pass(s)
    \/ \E s \in Server : StatementFails(s) \/ ReplyLost(s)
    \/ \E s \in Server : Resync(s)
    \/ \E s \in Server : LeadMoves(s)
    \/ \E s \in Server : Crash(s)
    \/ \E v \in Vm : VmBoots(v)
    \/ \E v \in Vm : VmFails(v)
    \/ \E v \in Vm : VmRestarts(v)
    \/ Elapse

Spec == Init /\ [][Next]_vars

(* Passes go on (every docker call returns), the hourly resync comes, and  *)
(* time passes: between two passes it may, so however often a waiting      *)
(* build is looked at, it ages.  Nothing makes a VM boot.                  *)
Fairness ==
    /\ \A s \in Server : WF_vars(Pass(s)) /\ WF_vars(Resync(s))
    /\ SF_vars(Elapse)

FairSpec == Spec /\ Fairness

-----------------------------------------------------------------------------
Processing(s) == pc[s] \notin {"idle", "release"}

(* The build never runs on two servers at once: when a stale lease is      *)
(* taken over, the new holder finds the build older than StuckAfter and    *)
(* gives it up instead of executing it.                                    *)
OneExecutor == \A s, t \in Server : pc[s] = "exec" /\ pc[t] = "exec" => s = t

Lease == INSTANCE LeaseLock WITH
    Holder <- Server, holders <- {s \in Server : Processing(s)}, broken <- "overrun" \in faults

(* schema.ts:188: the lease ensures that a build is processed by a single  *)
(* server at a time.  It does as a lease lock: until an execution outlasts *)
(* it, whoever crashes, leads or fails a statement in the meantime.        *)
LeaseSpec == Lease!Spec

(* Once a build ended, its outcome stays and the deployments waiting for   *)
(* it never see a failed build with an image: while no execution outlasts  *)
(* its lease and no statement takes effect and reports an error.           *)
OutcomeStable ==
    [][Ended /\ faults \intersect {"overrun", "reply"} = {} =>
          /\ status' = status
          /\ ~(failedAt' /\ imageId')]_vars

(* Every build ends, even when its server dies in the middle of it, its VM *)
(* never boots, or its lease is never released.                            *)
EveryBuildEnds == <>Ended

(* vm.go:62: build VMs are soft-deleted after use.                         *)
BuildVmsReleased == Ended ~> (\A v \in Vm : vm[v] \in {"unused", "deleted"})

(* A pass that has executed the build is only left with the VM deleted,    *)
(* whatever the outcome and whoever leads or has given the build up by     *)
(* then; only a crash or a failure of the deletion itself leaves it.       *)
ExecutedVmReleased ==
    [][\A s \in Server :
          /\ pc[s] \in {"exec", "succeed", "fail", "clean"}
          /\ pc'[s] \in {"release", "idle"}
          /\ faults' = faults
          => vm'[copy[s].vmId] = "deleted"]_vars
=============================================================================
