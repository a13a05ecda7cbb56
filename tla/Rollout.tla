------------------------------ MODULE Rollout ------------------------------
(***************************************************************************)
(* internal/zeitwork/deployment.go: how the deployments of one project     *)
(* replace each other.  Each deployment is driven by its own passes of     *)
(* reconcileDeployment on the leader.  A pass reads the row once and then  *)
(* makes a sequence of separate statements: no transaction covers it, so   *)
(* passes over two deployments interleave, users stop deployments in the   *)
(* middle, a statement may fail, and the leader may die between any two.   *)
(* A statement that takes effect and reports an error is one that succeeds *)
(* followed by one that fails.                                             *)
(*                                                                         *)
(* Deployments are numbered in the order of their ids (UUIDv7, by time).   *)
(* The build is reduced to its outcome, the VM to its row and whether its  *)
(* guest answers on the port; custom domains of the project all move       *)
(* together, so they are one pointer.                                      *)
(***************************************************************************)
EXTENDS Naturals, FiniteSets

CONSTANTS
    Deployment,   \* a set of numbers, ordered as their ids
    Live,         \* the deployments that may already run at the start
    Vm,           \* ids of VM rows; deployment d in Live has VM d
    None,         \* NULL
    MaxFaults     \* how many kinds of fault may happen, each of them once

FaultKind == {"db", "crash", "failover", "drop", "stop", "build"}

ASSUME DeploymentAssumption == Deployment \subseteq Nat /\ Live \subseteq Deployment
ASSUME VmAssumption == Live \subseteq Vm /\ None \notin Vm \union Deployment
ASSUME FaultAssumption == MaxFaults \in Nat

VARIABLES
    running,   \* running_at is set
    stopped,   \* stopped_at is set
    failed,    \* failed_at is set
    vmId,      \* deployments.vm_id
    row,       \* vms rows: unused, there ("made"), answering ("up"), deleted
    build,     \* outcome of the build of each deployment
    domain,    \* domains.deployment_id of the project's custom domains
    queued,    \* the scheduler owes the deployment a pass
    pc,        \* where the pass stands
    copy,      \* vm_id in the pass's copy of the row
    older,     \* <<o, vm_id>>: rows stopOldDeployments still has to stop
    faults,    \* the kinds of fault that have happened
    undone,    \* history: deployments stopped or robbed of their VM by
               \* others than the rollout, and those that were overtaken
    stray      \* history: VMs whose link was cut off before it was made,
               \* or undone without the VM

stamps  == <<running, stopped, failed>>
locals  == <<pc, copy, older>>
history == <<undone, stray>>
vars    == <<stamps, vmId, row, build, domain, queued, locals, faults, history>>

TypeOK ==
    /\ running \in [Deployment -> BOOLEAN]
    /\ stopped \in [Deployment -> BOOLEAN]
    /\ failed \in [Deployment -> BOOLEAN]
    /\ vmId \in [Deployment -> Vm \union {None}]
    /\ row \in [Vm -> {"unused", "made", "up", "deleted"}]
    /\ build \in [Deployment -> {"none", "made", "pending", "image", "failed"}]
    /\ domain \in Deployment \union {None}
    /\ queued \in [Deployment -> BOOLEAN]
    /\ pc \in [Deployment -> {"idle", "retire", "build", "attach", "vm", "link", "lookup",
                  "probe", "mark", "point", "find", "stop", "stamp"}]
    /\ copy \in [Deployment -> Vm \union {None}]
    /\ older \in [Deployment -> SUBSET (Deployment \X (Vm \union {None}))]
    /\ faults \subseteq FaultKind
    /\ undone \subseteq Deployment
    /\ stray \subseteq Vm \union {None}

(* Some of Live run and the custom domains point to one of them; the rest  *)
(* is new.                                                                 *)
Init ==
    /\ \E live \in SUBSET Live :
        /\ running = [d \in Deployment |-> d \in live]
        /\ vmId = [d \in Deployment |-> IF d \in live THEN d ELSE None]
        /\ row = [v \in Vm |-> IF v \in live THEN "up" ELSE "unused"]
        /\ build = [d \in Deployment |-> IF d \in live THEN "image" ELSE "none"]
        /\ domain \in IF live = {} THEN {None} ELSE live
    /\ stopped = [d \in Deployment |-> FALSE]
    /\ failed = [d \in Deployment |-> FALSE]
    /\ queued = [d \in Deployment |-> TRUE]
    /\ pc = [d \in Deployment |-> "idle"]
    /\ copy = [d \in Deployment |-> None]
    /\ older = [d \in Deployment |-> {}]
    /\ faults = {}
    /\ undone = {}
    /\ stray = {}

-----------------------------------------------------------------------------
Suffer(k) ==
    /\ k \notin faults
    /\ Cardinality(faults) < MaxFaults
    /\ faults' = faults \union {k}

Goto(d, l) == pc' = [pc EXCEPT ![d] = l]
At(d, l) == pc[d] = l

(* WAL events: a row of a deployment, or of the VM it is linked to, or of  *)
(* its build, changed.                                                     *)
Wake(D) == queued' = [d \in Deployment |-> queued[d] \/ d \in D]
UsersOf(v) == {d \in Deployment : vmId[d] = v}

Terminal(d) == stopped[d] \/ failed[d]
Serving(d)  == running[d] /\ ~Terminal(d)

(* Next free row; the order in which ids are handed out does not matter.   *)
Unused == {v \in Vm : row[v] = "unused"}
FreshVm == CHOOSE v \in Unused : TRUE

VMSoftDelete(v) == row' = [row EXCEPT ![v] = "deleted"]

-----------------------------------------------------------------------------
(* DeploymentFirstByID.                                                    *)
BeginPass(d) ==
    /\ At(d, "idle")
    /\ queued[d]
    /\ queued' = [queued EXCEPT ![d] = FALSE]
    /\ copy' = [copy EXCEPT ![d] = vmId[d]]
    /\ Goto(d, IF Terminal(d) THEN "retire"
               ELSE IF running[d] THEN "idle" ELSE "build")
    /\ UNCHANGED <<stamps, vmId, row, build, domain, older, faults, history>>

(* Mutant: nothing is done for a terminal deployment.                      *)
RetireSkips(d) ==
    /\ At(d, "retire")
    /\ Goto(d, "idle")
    /\ UNCHANGED <<stamps, vmId, row, build, domain, queued, copy, older, faults, history>>

(* A terminal deployment: its VM goes unless it is gone already.           *)
Retire(d) ==
    /\ At(d, "retire")
    /\ IF copy[d] # None /\ row[copy[d]] # "deleted"
       THEN VMSoftDelete(copy[d]) /\ Wake(UsersOf(copy[d]))
       ELSE UNCHANGED <<row, queued>>
    /\ Goto(d, "idle")
    /\ UNCHANGED <<stamps, vmId, build, domain, copy, older, faults, history>>

(* BuildCreate: a build that was made and never linked is not found again. *)
CreateBuild(d) ==
    /\ At(d, "build")
    /\ build[d] \in {"none", "made"}
    /\ build' = [build EXCEPT ![d] = "made"]
    /\ Goto(d, "attach")
    /\ UNCHANGED <<stamps, vmId, row, domain, queued, copy, older, faults, history>>

(* DeploymentUpdateBuild: the pass goes on and looks at the build.         *)
LinkBuild(d) ==
    /\ At(d, "attach")
    /\ build' = [build EXCEPT ![d] = "pending"]
    /\ Wake({d})
    /\ Goto(d, "build")
    /\ UNCHANGED <<stamps, vmId, row, domain, copy, older, faults, history>>

(* The outcome is awaited by a pass every ten seconds.                     *)
AwaitBuild(d) ==
    /\ At(d, "build")
    /\ build[d] = "pending"
    /\ Wake({d})
    /\ Goto(d, "idle")
    /\ UNCHANGED <<stamps, vmId, row, build, domain, copy, older, faults, history>>

BuildFailed(d) ==
    /\ At(d, "build")
    /\ build[d] = "failed"
    /\ failed' = [failed EXCEPT ![d] = TRUE]
    /\ Wake({d})
    /\ Goto(d, "idle")
    /\ UNCHANGED <<running, stopped, vmId, row, build, domain, copy, older, faults, history>>

BuildReady(d) ==
    /\ At(d, "build")
    /\ build[d] = "image"
    /\ Goto(d, IF copy[d] = None THEN "vm" ELSE "lookup")
    /\ UNCHANGED <<stamps, vmId, row, build, domain, queued, copy, older, faults, history>>

VMCreate(d) ==
    /\ At(d, "vm")
    /\ Unused # {}
    /\ row' = [row EXCEPT ![FreshVm] = "made"]
    /\ copy' = [copy EXCEPT ![d] = FreshVm]
    /\ Goto(d, "link")
    /\ UNCHANGED <<stamps, vmId, build, domain, queued, older, faults, history>>

(* DeploymentUpdateVM, without a look at what the row says meanwhile.      *)
LinkVm(d) ==
    /\ At(d, "link")
    /\ vmId' = [vmId EXCEPT ![d] = copy[d]]
    /\ Wake({d})
    /\ Goto(d, "lookup")
    /\ UNCHANGED <<stamps, row, build, domain, copy, older, faults, history>>

(* Mutant: a VM that does not answer yet is unlinked like a deleted one.   *)
LookupVmImpatient(d) ==
    /\ At(d, "lookup")
    /\ IF row[copy[d]] # "up"
       THEN /\ vmId' = [vmId EXCEPT ![d] = None]
            /\ Wake({d})
            /\ Goto(d, "idle")
       ELSE /\ Goto(d, "probe")
            /\ UNCHANGED <<vmId, queued>>
    /\ UNCHANGED <<stamps, row, build, domain, copy, older, faults, history>>

(* VMFirstByID: a deleted VM is unlinked and the next pass makes another.  *)
(* If a failover has linked a replacement meanwhile, that is unlinked.     *)
LookupVm(d) ==
    /\ At(d, "lookup")
    /\ IF row[copy[d]] = "deleted"
       THEN /\ vmId' = [vmId EXCEPT ![d] = None]
            /\ stray' = stray \union ({vmId[d]} \ {None, copy[d]})
            /\ Wake({d})
            /\ Goto(d, "idle")
       ELSE /\ Goto(d, "probe")
            /\ UNCHANGED <<vmId, queued, stray>>
    /\ UNCHANGED <<stamps, row, build, domain, copy, older, faults, undone>>

(* The health check: a guest that is up answers, and so may one whose row  *)
(* is deleted already.  Otherwise the pass returns an error and is retried *)
(* in five seconds.                                                        *)
Probe(d) ==
    /\ At(d, "probe")
    /\ \/ row[copy[d]] \in {"up", "deleted"} /\ Goto(d, "mark") /\ UNCHANGED queued
       \/ row[copy[d]] # "up" /\ Goto(d, "idle") /\ Wake({d})
    /\ UNCHANGED <<stamps, vmId, row, build, domain, copy, older, faults, history>>

(* A deployment is overtaken when a newer one takes the domains while it   *)
(* is about to, or has taken them when it comes to run and looks for older *)
(* ones next.                                                              *)
Overtaken(d) == {c \in Deployment : c < d /\ At(c, "point")}
IsOvertaken(c) == \E d \in Deployment : c < d /\ At(d, "find")

MarkRunning(d) ==
    /\ At(d, "mark")
    /\ running' = [running EXCEPT ![d] = TRUE]
    /\ Wake({d})
    /\ Goto(d, "point")
    /\ undone' = IF IsOvertaken(d) THEN undone \union {d} ELSE undone
    /\ UNCHANGED <<stopped, failed, vmId, row, build, domain, copy, older, faults, stray>>

PointDomains(d) ==
    /\ At(d, "point")
    /\ domain' = d
    /\ Goto(d, "find")
    /\ undone' = undone \union Overtaken(d)
    /\ UNCHANGED <<stamps, vmId, row, build, queued, copy, older, faults, stray>>

(* Mutant: id <= $2, so the deployment finds itself.                       *)
RunningAndNotNewer(d) ==
    {<<o, vmId[o]>> : o \in {x \in Deployment : x <= d /\ Serving(x)}}

(* DeploymentFindRunningAndOlder: copies of the rows.                      *)
RunningAndOlder(d) ==
    {<<o, vmId[o]>> : o \in {x \in Deployment : x < d /\ Serving(x)}}

NextOlder(d, r) == r \in older[d] /\ \A x \in older[d] : r[1] <= x[1]

FindOlder(d) ==
    /\ At(d, "find")
    /\ older' = [older EXCEPT ![d] = RunningAndOlder(d)]
    /\ Goto(d, "stop")
    /\ UNCHANGED <<stamps, vmId, row, build, domain, queued, copy, faults, history>>

(* The next old deployment: first its VM, then its row.                    *)
StopVm(d, r) ==
    /\ At(d, "stop")
    /\ NextOlder(d, r)
    /\ IF r[2] # None
       THEN VMSoftDelete(r[2]) /\ Wake(UsersOf(r[2]))
       ELSE UNCHANGED <<row, queued>>
    /\ Goto(d, "stamp")
    /\ UNCHANGED <<stamps, vmId, build, domain, copy, older, faults, history>>

MarkStopped(d, r) ==
    /\ At(d, "stamp")
    /\ NextOlder(d, r)
    /\ stopped' = [stopped EXCEPT ![r[1]] = TRUE]
    /\ older' = [older EXCEPT ![d] = @ \ {r}]
    /\ Wake({r[1]})
    /\ Goto(d, "stop")
    /\ UNCHANGED <<running, failed, vmId, row, build, domain, copy, faults, history>>

(* Mutant: the loop is left early.                                         *)
EndPassEarly(d) ==
    /\ At(d, "stop")
    /\ Goto(d, "idle")
    /\ UNCHANGED <<stamps, vmId, row, build, domain, queued, copy, older, faults, history>>

EndPass(d) ==
    /\ At(d, "stop")
    /\ older[d] = {}
    /\ Goto(d, "idle")
    /\ UNCHANGED <<stamps, vmId, row, build, domain, queued, copy, older, faults, history>>

(* A VM that is about to be linked.                                        *)
Unlinked(d) == IF At(d, "link") THEN {copy[d]} ELSE {}

(* A statement fails: inside the loop the deployment is skipped, anywhere  *)
(* else the pass returns an error and the deployment is queued again.      *)
StatementFails(d) ==
    /\ ~At(d, "idle")
    /\ Suffer("db")
    /\ stray' = stray \union Unlinked(d)
    /\ IF pc[d] \in {"stop", "stamp"} /\ older[d] # {}
       THEN /\ older' = [older EXCEPT ![d] = {r \in @ : ~NextOlder(d, r)}]
            /\ Goto(d, "stop")
            /\ UNCHANGED queued
       ELSE Goto(d, "idle") /\ Wake({d}) /\ UNCHANGED older
    /\ UNCHANGED <<stamps, vmId, row, build, domain, copy, undone>>

-----------------------------------------------------------------------------
(* The build pipeline decides.                                             *)
BuildEnds(d) ==
    /\ build[d] = "pending"
    /\ \/ build' = [build EXCEPT ![d] = "image"] /\ UNCHANGED faults
       \/ build' = [build EXCEPT ![d] = "failed"] /\ Suffer("build")
    /\ Wake({d})
    /\ UNCHANGED <<stamps, vmId, row, domain, locals, history>>

(* The VM reconciler boots what is not deleted.                            *)
GuestAnswers(v) ==
    /\ row[v] = "made"
    /\ row' = [row EXCEPT ![v] = "up"]
    /\ Wake(UsersOf(v))
    /\ UNCHANGED <<stamps, vmId, build, domain, locals, faults, history>>

(* The user stops a deployment (stop.post.ts).                             *)
UserStops(d) ==
    /\ ~Terminal(d)
    /\ Suffer("stop")
    /\ stopped' = [stopped EXCEPT ![d] = TRUE]
    /\ Wake({d})
    /\ undone' = undone \union {d}
    /\ UNCHANGED <<running, failed, vmId, row, build, domain, locals, stray>>

(* replaceVM: in one transaction the VM of a dead server is deleted, a new *)
(* one created and the deployment linked to it, if there is one.           *)
Failover(v) ==
    /\ row[v] \in {"made", "up"}
    /\ Unused # {}
    /\ Suffer("failover")
    /\ row' = [row EXCEPT ![v] = "deleted", ![FreshVm] = "made"]
    /\ vmId' = [d \in Deployment |-> IF vmId[d] = v THEN FreshVm ELSE vmId[d]]
    /\ stray' = IF UsersOf(v) = {} THEN stray \union {FreshVm} ELSE stray
    /\ Wake(UsersOf(v))
    /\ UNCHANGED <<stamps, build, domain, locals, undone>>

(* A VM is deleted and not replaced: by a drain, or by a failover that     *)
(* finds no server or address for another one and commits.  A deployment   *)
(* whose health check has begun does not look at the row again.            *)
DropVm(v) ==
    /\ row[v] \in {"made", "up"}
    /\ Suffer("drop")
    /\ VMSoftDelete(v)
    /\ Wake(UsersOf(v))
    /\ undone' = undone \union
          {d \in UsersOf(v) : running[d] \/ pc[d] \in {"probe", "mark"}}
    /\ UNCHANGED <<stamps, vmId, build, domain, locals, stray>>

(* The leader dies; the next one bootstraps every deployment.              *)
Crash ==
    /\ Suffer("crash")
    /\ pc' = [d \in Deployment |-> "idle"]
    /\ older' = [d \in Deployment |-> {}]
    /\ queued' = [d \in Deployment |-> TRUE]
    /\ stray' = stray \union UNION {Unlinked(d) : d \in Deployment}
    /\ UNCHANGED <<stamps, vmId, row, build, domain, copy, undone>>

Pass(d) ==
    \/ BeginPass(d)
    \/ Retire(d)
    \/ CreateBuild(d)
    \/ LinkBuild(d)
    \/ AwaitBuild(d)
    \/ BuildFailed(d)
    \/ BuildReady(d)
    \/ VMCreate(d)
    \/ LinkVm(d)
    \/ LookupVm(d)
    \/ Probe(d)
    \/ MarkRunning(d)
    \/ PointDomains(d)
    \/ FindOlder(d)
    \/ \E r \in older[d] : StopVm(d, r)
    \/ \E r \in older[d] : MarkStopped(d, r)
    \/ EndPass(d)

Next ==
    \/ \E d \in Deployment : Pass(d)
    \/ \E d \in Deployment : StatementFails(d)
    \/ \E d \in Deployment : BuildEnds(d)
    \/ \E d \in Deployment : UserStops(d)
    \/ \E v \in Vm : GuestAnswers(v)
    \/ \E v \in Vm : Failover(v)
    \/ \E v \in Vm : DropVm(v)
    \/ Crash

Spec == Init /\ [][Next]_vars

(* Passes go on, builds end and guests boot; faults need not happen.       *)
Fairness ==
    /\ \A d \in Deployment : WF_vars(Pass(d)) /\ WF_vars(BuildEnds(d))
    /\ \A v \in Vm : WF_vars(GuestAnswers(v))

FairSpec == Spec /\ Fairness

-----------------------------------------------------------------------------
(* deployment.go:181-193: no moment of a rollout leaves the custom domains *)
(* with a deployment that is not serving or has no VM, whatever statement  *)
(* fails, whoever dies, whichever VM is replaced, and in whatever order    *)
(* rollouts overlap.  Excused is only a deployment that a user has stopped *)
(* or that lost its VM for nothing (server.go:224, server.go:379), and one *)
(* that was overtaken: the domains may come back to it after it was        *)
(* stopped.                                                                *)
DomainUp ==
    /\ Serving(domain)
    /\ vmId[domain] # None
    /\ row[vmId[domain]] # "deleted"
DomainStaysUp == domain \notin undone \union {None} => DomainUp

(* deployment.go:193: older deployments are stopped "now that the new one  *)
(* is healthy": unless the user stops it, a deployment is stopped only     *)
(* while a newer one is serving.                                           *)
StopsOldForServing ==
    [][\A o \in Deployment :
          stopped'[o] /\ ~stopped[o] /\ faults' = faults =>
              \E d \in Deployment : d > o /\ Serving(d)]_vars

(* deployment.go:193: once a new deployment is found healthy, the ones     *)
(* serving before it are stopped.                                          *)
ReplacesOld ==
    \A d, o \in Deployment :
        o < d => ((At(d, "mark") /\ Serving(o)) ~>
                     (stopped[o] \/ faults \intersect {"db", "crash"} # {}))

(* A deployment that is stopped or has failed ends up without a live VM.   *)
TerminalReleasesVm ==
    \A d \in Deployment :
        Terminal(d) ~> [](vmId[d] = None \/ row[vmId[d]] = "deleted")

(* deployment.go:124-171: every VM that is not deleted is the VM of a      *)
(* deployment or about to be linked by the pass that has made it.  The     *)
(* only ones that leak are those whose pass ended before the link, the     *)
(* replacement a failover makes of one not linked yet, and a replacement   *)
(* that is unlinked by a pass that has read the row before.                *)
NoVmLeak ==
    \A v \in Vm : row[v] \in {"made", "up"} =>
        \/ UsersOf(v) # {}
        \/ \E d \in Deployment : At(d, "link") /\ copy[d] = v
        \/ v \in stray

(* deployment.go:269: all other running deployments of the project are     *)
(* stopped, so in the end at most one is serving.                          *)
StopsAllOthers == <>[](Cardinality({d \in Deployment : Serving(d)}) <= 1)

(* deployment.go:187: custom domains point to the new deployment; they do  *)
(* not end on a stopped one while another deployment is serving.           *)
DomainsFollow ==
    <>[](domain # None /\ (\E d \in Deployment : Serving(d)) => Serving(domain))
=============================================================================
