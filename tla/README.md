# zeitwork in TLA+

zeitwork is a platform that builds GitHub repositories into images and runs
them in micro-VMs on a few bare-metal servers.  Every server runs the same
Go program (`src/internal/zeitwork`); the servers share one PostgreSQL
database and nothing else.  This directory holds TLA+ modules of its parts, the
TLC configurations that check them on small instances, and proofs about all of
the components for every value of their constants.

Paths below are relative to `src/`; `vm.go`, `deployment.go`, `build.go`,
`server.go` and `zeitwork.go` are in `internal/zeitwork/`, `*.sql` in
`internal/database/sql/`.

1. [The system](#1-the-system)
2. [Modules and how they correspond to the code](#2-modules-and-how-they-correspond-to-the-code)
3. [Runs](#3-runs)
4. [Where the code and its comments disagree](#4-where-the-code-and-its-comments-disagree)
5. [Proofs](#5-proofs)
6. [What is not modelled](#6-what-is-not-modelled)
7. [Plan](#7-plan)

## 1. The system

The program is level-triggered.  Rows of the database say what should be; a
replication slot (`internal/listener`) delivers every change of a row as an
event; a callback in `zeitwork.go` turns the event into a `Schedule` call on
the schedulers of the object and of its parents; a scheduler
(`internal/reconciler`) calls the object's reconcile function, which compares
the row with the world and takes the next step.

```
 web app, other servers            PostgreSQL  (rows, advisory locks)
        \-- INSERT/UPDATE -->   |  WAL           ^  UPDATE, lease, lock
                                v                |
                           WAL listener          |
                                | callbacks      |
                                v                |
                  schedulers: deployment build vm domain server
                                | reconcile functions
                                v
          hypervisors, images, taps, vsock listeners, routes (this server)
```

VMs and host routes are reconciled by every server for itself; deployments,
builds and domains only by the server that leads the control plane.

| Component | State | Operations | Interacts with |
|---|---|---|---|
| Scheduler, `internal/reconciler/reconciler.go` | maps `schedule`, `running`; unbuffered channel | `Schedule`, ticker, six workers | called by the WAL callbacks, by bootstraps, by reconcile functions and by the goroutines that wait for a hypervisor |
| VM supervisor, `vm.go`, `vsock.go` | row `vms`; maps `vmToCmd`, `vmToTap`, vsock listeners; work images; processes | `reconcileVM`, `reconcileVmDelete`, the waiting goroutine, `Stop` | rows are created and soft-deleted by deployments, builds, failovers, drains |
| Deployment rollout, `deployment.go` | row `deployments` (`running_at`, `stopped_at`, `failed_at`, `vm_id`), `domains.deployment_id` | `reconcileDeployment`, `stopOldDeployments` | awaits a build, creates and probes a VM, stops older deployments; users stop deployments; a failover relinks them |
| Build pipeline, `build.go`, `build.sql` | row `builds` with its lease; `activeBuilds` | claim, create and await a build VM, execute, end, release | GitHub, docker in the build VM, the registry; deployments await the outcome |
| Cluster membership, `server.go`, `server.sql` | row `servers`; advisory lock `cluster_leader` on a dedicated session; flag `controlPlaneLeader` | register, heartbeat, become leader, find and fail over dead servers | replaces VMs and relinks deployments in one transaction |
| Service start and stop, `zeitwork.go` | what of the above is in memory | `Start`, bootstraps, callbacks, `Stop` | starts everything else |
| Drain, `server.go` | `servers.status = 'draining'` | list and delete the VMs, mark drained; migrating deployments is written but never reached | VMs |
| Address allocation, `vm.sql`, `server.sql` | `vms.ip_address`, `servers.ip_range` | `VMNextIPAddress`, `ServerAllocateIPRange` under advisory locks | everybody who creates a VM; registration |
| Domain verification, `domain.go`, `internal/shared/dns` | `domains.verified_at` | resolve, compare, mark | DNS |
| WAL listener, `internal/listener` | replication slot, acknowledged position | connect, receive, decode, acknowledge, reconnect | the callbacks |
| Edge proxy, `internal/edgeproxy` | route table in memory; certificates and their locks in the database | refresh routes, proxy, decide on and obtain certificates | routes come from domains, deployments, VMs; a token per WAL event; certmagic |
| Guest agents, `cmd/initagent`, `cmd/initexec` | none to speak of | boot the guest, stream logs | vsock |
| Web application, `apps/web` | rows | create and stop deployments, CRUD | database |
| Command line, telemetry, generated queries, crypto, ids | none | conversions, start-up | - |

### What is hard

* **A pass works on a copy.**  Each reconcile function reads the row once and
  acts on the copy for seconds (a health check), minutes (an image pull) or
  longer (a build), while users, other passes, failovers and the deletion of the
  row go on.
* **Many statements, few transactions.**  A rollout or a build is a sequence
  of separate statements.  Any of them may fail, the process may die between
  any two, and what the retry does depends on what the row says by then.
* **Goroutines left behind.**  A launch leaves a goroutine that waits for the
  hypervisor to exit and then edits the same maps as the next pass.
* **Leadership without fencing.**  The process remembers in a flag that it
  leads; the flag is cleared only when the process ends, and no statement
  carries an epoch.  Two processes may act as leaders for a while.
* **Time.**  Heartbeats expire, leases become stale, stuck builds are given
  up; each limit only makes sense in relation to another one.
* **Limits.**  A server has a finite range of addresses; six workers serve all
  objects of a kind; the channel that announces route changes holds one token.
* **Events that never come.**  A slot sends what is committed after it was
  created, a listener that has ended stays ended, and a callback whose
  query fails drops the event.
* **Pipes and goroutines.**  One build execution is three goroutines that wait for
  each other and for a container, each of which may fail first.

### What makes each component correct

* Scheduler: one pass per object at a time; no change is forgotten; every
  object is visited again and again.
* VM supervisor: at most one hypervisor per VM, none unaccounted for; a VM that
  is not deleted comes back after every exit and restart; a deleted one stops
  and leaves nothing behind.
* Rollout: the domains lead to a serving deployment; a healthy new deployment ends
  the older one; nobody keeps a VM he does not need, and no VM is forgotten.
* Builds: never executed twice at once; each ends, once, and its VM is
  deleted.
* Build execution: a container sees the whole build context or none; success
  means a pushed image and complete logs; nothing is left waiting.
* Cluster: some server leads; what ran on a dead server runs elsewhere, once.
* Placement: no VM gets an address in use; addresses are routed to the right
  server; a drain ends.
* Delivery: a leader reads every change of what it knows, and misses none
  that is committed while it listens.
* Domains and edge: one verified row per name; a route table that
  converges to the rows; one certificate order at a time, and in the end a certificate.

`PROJECT.json` lists under "hazards" every place where one of these is at risk,
with the properties that watch it.

## 2. Modules and how they correspond to the code

| Module | Is | Models |
|---|---|---|
| `WorkQueue` | abstract specification | what `internal/reconciler` promises |
| `LeaseLock` | abstract specification | what a lock kept as an expiring row promises |
| `Scheduler` | component; implements `WorkQueue` | `internal/reconciler/reconciler.go` |
| `VmSupervisor` | component | `vm.go`, `vsock.go` |
| `Rollout` | component | `deployment.go`, with the queries it calls |
| `BuildLease` | component; implements `LeaseLock` | `reconcileBuild` in `build.go`, `build.sql` |
| `BuildExecution` | component | `executeBuild` in `build.go` and all it calls |
| `Failover` | component | leadership, heartbeats and failover in `server.go`, `server.sql` |
| `Placement` | component | `VMCreate`, `registerServer`, `drainServer`, with the allocation queries |
| `Delivery` | component | `internal/listener`, start sequence, callbacks and bootstraps in `zeitwork.go` |
| `EdgeRoutes` | component | the route table of `internal/edgeproxy/edgeproxy.go` |
| `CertLock` | component; implements `LeaseLock` | `Lock` and `Unlock` of `certmagic_storage.go` |
| `DomainVerify` | component | `domain.go` and the web requests that add, rename and remove domains |
| `Certificates` | composition of `DomainVerify` and `CertLock` | certificate decision, order and storage of all edge proxies |
| `*Proofs` | theorems about the module of that name; `SchedulerProofs` also about `Delivery`, `EdgeProxyProofs` about `EdgeRoutes`, `CertLock`, `DomainVerify` and `Certificates` | |
| `MC*` | instances for TLC | |

`WorkQueue` is the seam between most of them.  `Scheduler` shows (by model checking and
by proof) that a scheduler with its ticker, batch, workers, retries and default
is a level-triggered queue: passes over one object do not overlap, and a change
during a pass causes another pass.  The other components use just that: a flag
or a set, `queued`, of what is due, filled by whatever schedules the
object and cleared when a pass begins, and a program counter per object.  They
do not repeat the scheduler's timing.

`LeaseLock` is what the two locks of the system that expire have in common: one
holder at a time, until some holder outstays its lease, and nothing from then on.

Common conventions:

* One action is one statement or one step under a mutex; the label in `pc` is
  where a pass stands between two of them.  A pass's copy of the row is a
  variable of its own (`seen`, `copy`, `older`, `found`, `conflicts`).
* Time is what the code compares.  A schedule entry is Never, Later or Due; a
  heartbeat is fresh (< 30 s), late or expired (> 60 s); ages of builds and
  leases are counted in quarters of an hour, with the limits `StuckAfter` (15 min)
  and `StaleAfter` (30 min) as constants; a certificate lock is ahead or past.
* `Delivery` and `EdgeRoutes` have names of their own for what every specification has
  (`DeliverySpec`, `RoutesTypeOK`, ...), so that one proof module may extend them
  together with another component.
* Everything that may go wrong has a kind (`FaultKind`, `FailureKind`).  In `VmSupervisor`,
  `Failover` and `Placement` each kind has a budget `MaxFaults[kind]`; in the
  others each kind happens at most once, and `MaxFaults` of them in one behaviour.
  The proofs are for every value of these constants.
* Operators marked "Mutant" in a comment are deliberate errors.  They are not
  part of a specification; they are the wrong code the properties must tell
  from the right one.

### Scheduler

| TLA+ | Code |
|---|---|
| `schedule`, `running` | the two maps under `s.mu` |
| `batch` | `dueItems`, collected and not sent yet |
| `item[w]` | the id a worker received and is working on |
| `waiter` | a goroutine that will call `Schedule(id, +5s)` (`vm.go`) |
| `pending` | history: objects scheduled since their last pass began |
| `Tick` | the ticker's loop body up to the unlock; it cannot run again while the batch is not sent |
| `Receive` | the send and receive on `dueRun` |
| `AskAgain` | `Schedule(own id, ...)` from inside a reconcile function |
| `Fail`, `Succeed` | the two ways out of the worker's loop |
| `Elapse` | the clock passes an entry |

`Queue == INSTANCE WorkQueue` maps `pending` and `item` to themselves: a
`Receive` is a `Begin`, every `Schedule` a `Change`, `Fail`/`Succeed` an `End`,
and all else stutters.

### VmSupervisor

`status`, `deleted` are the row; `cmd` is `vmToCmd` (with `vmToTap`, kept
alongside); `sock` says that a vsock listener is registered; `disk` that the
work image exists.  `proc[v][n]` is the process with identity `n`: free, made
(`exec.Cmd` exists), alive, or exited with or without an error.  `waiter[v][n]`
is the goroutine of that process.

| Actions | Code |
|---|---|
| `BeginPass` ... `MarkRunning` | `reconcileVM`, in order: read row, write `starting`, look at `vmToCmd`, prepare, install, `cmd.Start`, write `running`, start the goroutine |
| `PrepareFails`, `ExecFails`, `MarkFails` | its error returns |
| `Take`, `Kill`, `Wipe`, `WipeFails` | `reconcileVmDelete` |
| `WaitReturns`, `Report`, `ReportFails`, `Forget`, `Wake` | the goroutine after `cmd.Wait()` |
| `Exit` | the guest powers off, or the hypervisor dies |
| `VMSoftDelete`, `SpuriousEvent` | other parts of the system |
| `Restart` | the process stops or dies and comes back: `Stop`, `Pdeathsig`, `bootstrapLocal` |

### Rollout

`running`, `stopped`, `failed` are the time stamps of the row, `vmId` its
link, `row` the VM rows, `domain` the `deployment_id` the project's custom domains share.
`BeginPass` ... `EndPass` are `reconcileDeployment` and `stopOldDeployments`
in order (`CreateBuild` and `LinkBuild`, like `VMCreate` and `LinkVm`, are two
statements); `StatementFails` is an error of any statement, which ends the pass
with a retry, except inside the loop over old deployments, where it is logged
and the loop goes on.  Around it: `BuildEnds`, `GuestAnswers`, `UserStops`
(`apps/web/server/api/deployments/[id]/stop.post.ts`), `Failover` (`replaceVM`
as it should be), `DropVm` (a drain, `server.go:379`, or a failover that finds no
server or address, `server.go:224`: the VM is deleted and not replaced) and `Crash`
(the next leader bootstraps every deployment).  There is one leader at a time here.
Two histories say what others than the rollout have done: `undone` has the deployments
that a user stopped, that lost their VM, or that were overtaken by a newer one; `stray`
the VMs whose link was cut off before it was made or undone by a stale pass.

### BuildLease

`status`, `failedAt`, `imageId`, `vmId` are the row, `holder` and `leaseAge` its
lease.  Each server has a pass (`pc`, `copy`).  `ClaimLease` is
`BuildClaimLease` with its WHERE clause; `CheckAge` ... `CleanupBuildVM` are
the body; `ReleaseLease` is the deferred release; `StatementFails` is an error without
an effect, `ReplyLost` an effect with an error.  Executing is one step here whose
outcome is open; it is the only one during which time passes (`Elapse`), and an
execution that outlasts its lease is a fault of kind "overrun".  `LeadMoves`
leaves a pass of the old leader running.  `activeBuilds` is not modelled: passes
of one process over one build do not overlap anyway.

### BuildExecution

The inside of that step.  `pc` is where `executeBuild` stands, from the download
of the tarball to the deferred calls; `prep` is the goroutine of
`prepareBuildContext`, `logger` the one that copies the container's output.

| Actions | Code |
|---|---|
| `Download` ... `Return` | the calls of `executeBuild` in order; `CallFails` is the error return of any of them, `WayOut` the deferred removal |
| `PingFails` | `waitForDockerReady` |
| `Inspect` | `skopeo inspect`: on success nobody reads the context |
| `OpenGzip` ... `CloseContext`, `TarFails` | the preparer: one entry per step, a write waits for the reader, an error closes the pipe with it |
| `DetectFramework` | the choice of a Dockerfile for a repository that has none |
| `CopyOutput`, `EndOfOutput` | `logWriter.Write` and `Flush` |
| `ContainerWrites`, `ContainerExits` | `docker buildx build` in the container |

### Failover

`lock` is the session that holds the advisory lock, `leader` the flag of each
process, `beat` the age of `last_heartbeat_at`.  `row`, `on`, `vmOf` are the
VMs and the links; `owner` is a history variable.  `FindDead` reads before the
transaction; `MarkDead`, `ReplaceVM`, `ReplaceFails` write into `tx[s]`, which nobody
else sees; `Commit` publishes it, `Abort`, `Crash` and `DeadlockVictim`
drop it.  A transaction that marks a server it has placed replacements on replaces
these too (`PlacedOn`).  The UPDATE of a server row locks it until the end of the transaction
(`Locked`), and so does the advisory lock of `VMNextIPAddress` (`IpLockFree`).

### Placement

`status`, `fresh`, `range` are the `servers` rows, `row`, `on`, `addr` the `vms`
rows.  Addresses are numbers from 10.1.0.0 on, a range is its base and its size.
`NextRanges` is what the query of `server.sql:78` computes: a first range of
`Size` addresses, then one address each, because `host()` drops the mask.  `Compiled`
says that the build has the generated query of `server.sql.go:39` as it is, which fails
whenever it runs; then only servers that are in the table already (`Given`) ever run.
`RegisterAgain`, `AllocateRange`, `Upsert` are `registerServer` (`server.go:54`); `Choose`, `Allocate`, `Insert`,
`CreateFails` are `VMCreate` (`vm.go:242`), of which only the last two steps are
in the transaction; `BeginDrain`, `DeleteVm`, `EndDrain` are
`reconcileServer` and `drainServer`.  `rangeLock` and `vmLock` are the advisory locks,
held until the end of a transaction.  `InUse` is the exclusion constraint.

### Delivery

`row[o]` is the version of a deployment with its VM, `seen[o]` the newest one a
leader's pass has read.  `phase` is how far `Start` has come on each server:
up, ready, streaming, or deaf once it has returned.  `Commit` sends an event
through every open slot; `Handle` is the callback; `BootstrapGlobal` the list
a new leader makes, wherever its `Start` is.  `listed` remembers whether that
list was made with the slot open.  A slot is named after its server, so a restarted
process cannot create it before PostgreSQL has noticed the death of the last
(`DropSlot`).

### EdgeRoutes

`target` ... `alive` are the rows `RouteFindActive` joins.  `Change` is any
change of them; `Notify` the callback that leaves a token without blocking;
`Receive` stops and arms the debounce timer; `TimerFires` starts a goroutine, which
a later stop does not end; `TimerLoads` and `FallbackPoll` read, `StoreRoutes` or
`LoadFails` ends the load, in any order with other loads.  `news` is a history of
what became of the changes announced: read since, or lost to a query that failed.

### DomainVerify, CertLock, Certificates

`DomainVerify` has the rows of one name, each of another project.  `BeginPass` ...
`MarkVerified` are `reconcileDomain`; what DNS answers (`pointsHere`, `token`) is an
input.  `ReadClaims`, `AddDomain`, `RenameInto`, `RemoveDomain` are the requests of the web
application, which read and write in separate statements; `AddGenerated` is the row every
deployment gets (`apps/web/server/models/deployment.ts:87`), verified from the start without
a look at others.  `unchecked` is a history: rows that were added again after their pass
had listed the others, or generated with a name that is taken.  `CertLock` is the row of
`certmagic_locks` for one name.  `Certificates` takes both by INSTANCE over the same
variables and adds the handshakes: `Decide` is the `DecisionFunc`, which asks for
the name's verified row, `Lock` ... `Unlock` are what certmagic does with the storage.

## 3. Runs

States are distinct states, rounded where they end in zeros; times are those of
two TLC workers.

| Run | Instance | Shows | States |
|---|---|---|---|
| `MCScheduler` | 3 objects, 2 workers | `OneWorkerPerObject`; `NoLostWakeup`; `RunningIsInFlight`; implements `WorkQueue`; `EveryChangeServed`; `Revisited` | 29,056 (28 s) |
| `MCVm` | 1 VM, 2 process slots; 2 exits and one of every other fault | `OneHypervisor`; `NoOrphan`; `ListenerKept`; `DeletedVmGone`; `AlwaysRuns` | 125,169 (20 s) |
| `MCRollout` | a running deployment or none, and its successor; 3 VMs; any 2 of 6 kinds of fault | `DomainStaysUp`; `NoVmLeak`; `ReplacesOld`; `TerminalReleasesVm` | 267,045 (65 s) |
| `MCBuild` | 2 servers, 4 VMs; any 3 of 6 kinds of fault | `OneExecutor`; implements `LeaseLock`; `OutcomeStable`; `EveryBuildEnds`; `ExecutedVmReleased` | 323,290 (30 s) |
| `MCBuildExecution` | 8 tarballs, 2 pings, 3 half lines of output; any 2 of 5 kinds of fault | `ContextWhole`; `SuccessIsPushed`; `LogsComplete`; `ContainerGone`; `GoroutinesEnd` | 18,630 (5 s) |
| `MCFailoverSafety` | 3 servers, 2 deployments, 5 VMs; a crash, a server silent for a minute, a dropped leader session, a VM exit | `OneVmPerDeployment` | 302,208 (17 s) |
| `MCFailoverLive` | 3 servers, 2 deployments; a crash, a dropped session, a rolled-back transaction | `DeploymentHasVm`; `FailedOver`; `SomeoneLeads` | 1,135 |
| `MCFailoverFull` | one address per server, one crash | violates `RollsBackWhole` | |
| `MCPlacement` | 2 servers, new or with ranges for 2 VMs each, 2 callers, 2 VMs; one stop and one failed query | `AllocationsHold`; `Routable`; `DrainEnds` | 478,310 (73 s) |
| `MCDelivery` | 2 servers, 1 deployment, 2 versions; any 3 of 5 kinds of fault | `NothingMissed`; `KnownChangesRead` | 264,000 (52 s) |
| `MCEdgeRoutes` | 1 name, 2 deployments, 3 VMs, 2 timer goroutines; 3 changes, 1 fault | `NotificationKept`; `Converges` | 572,808 (45 s) |
| `MCCertificates` | 2 rows of a name, 2 edge proxies; any 2 of 8 kinds of fault | `OneVerified`; implements `LeaseLock`; `Certified` | 598,488 (70 s) |

What the less obvious ones say:

* `NoLostWakeup` - a `Schedule` call is still in the schedule or in the batch
  until a pass begins after it, although the failure path overwrites the
  entry and the ticker clears it.
* `ListenerKept` - the goroutine of an exited process removes the listener
  before it empties `vmToCmd`, so it never removes the one of the next process.
* `AlwaysRuns` - the comment at `vm.go:62`: two exits and a restart, at any
  moment of a pass, do not keep a VM down, and its row says running in the
  end.  A launch that failed half way is excepted (section 4).
* `DeletedVmGone` - also when the VM is deleted while its image is made.  A
  restart may forget the image: bootstrapping does not list deleted VMs.
* `DomainStaysUp` - no moment of a rollout leaves the custom domains with a
  deployment that is not serving or whose VM is deleted, whatever statement fails,
  whoever dies, whichever VM is replaced and however rollouts overlap.  It needs the
  order of `deployment.go:181-193` (domains before the stop of the old
  deployment).  Three things take the deployment down that has the domains, and nothing
  brings it back: the user stops it; a drain or a failover without room deletes its VM,
  which a deployment that runs never notices (`deployment.go:60`); it was
  overtaken, so that it takes the domains back from a newer one that stops it
  (section 4).  Only such a deployment is excepted, not the behaviour: when
  the domains move on, the promise is there again.
* `NoVmLeak` - a VM that is not deleted is linked, or about to be linked by the pass
  that made it.  The exceptions are VMs, not behaviours: one whose pass ended between
  `VMCreate` and the link (H13), the replacement a failover makes of one not linked yet, and
  a replacement that a pass with an older copy of the row unlinks.
* `OneExecutor` - holds although an execution may outlast its lease: whoever
  takes the lease over is late enough to find the build stuck
  (`StuckAfter <= StaleAfter`) and gives it up.
* `OutcomeStable`, `LeaseSpec` of a build - promise nothing once an execution has outlasted
  its lease; the first also nothing once a statement took effect and reported an error.
* `ContextWhole` - an archive that breaks off closes the pipe with an error; a
  plain close would make half a repository look whole.
* `LogsComplete` - once the container's exit was seen, whatever its code, the build is not
  reported before the last line, perhaps one without an end, is stored.  A stream that
  breaks or an INSERT that fails loses lines.
* `OneVmPerDeployment` - row locks and the address lock make two concurrent
  failovers of one server harmless.
* `AllocationsHold` - the exclusion constraint never refuses a `VMCreate`: not because two
  callers do not compete, but because the lock covers the read and the INSERT
  and no restart moves a range.
* `Routable` - says that ranges are apart and addresses in them, for ranges as small as the
  query makes them; that a range of one address is of no use is
  in section 4.
* `NotificationKept` - a token that comes while the channel is full, the loop polls or the
  timer fires still leads to a query that reads after it.  A query that fails loses what
  was announced before it; `Converges` has the poll that repairs it.
* `OneVerified` - two passes on stale copies, deletions and renames in between.  It excepts one
  order of statements (`OneVerifiedEver` in section 4) and a name that is generated twice.
* `NothingMissed`, `KnownChangesRead` - the first is about events, the second about the
  hourly visits that make up for events that never came.
* `Converges` - an older load may be stored after a newer one; the poll
  every minute repairs it, with the listener or without.
* `Certified` - through failed statements, refused orders and proxies that die with
  the lock, a name that settles on one proven row gets its certificate.

### Bounds

Two workers and three objects make batches that do not fit the workers, which
is when the ticker blocks.  VMs of a server share no modelled state but the
restart, so one VM is enough; two slots
are a process whose goroutine has not finished and its successor, and
`OneHypervisor` is proved for any number of slots.  Rollouts concern an old and a
new deployment, and any two of them overlap if no old one runs yet; for any number of
overlapping ones `DomainStaysUp` and `NoVmLeak` are proved; one VM more than
deployments leaves room for a failover or a replacement.  A lease is contended by two servers; a third can only do what the
second did.  A failover needs a server that dies and two that both believe to lead.  In
`MCFailoverLive` only one server crashes: a second crash of a server that was
marked dead after it had come back is never failed over (section 4).
With two addresses for VMs per range, two VMs and two callers a range is contended and
full, and the second VM may get the address the first one had before it was deleted.
Two versions of a row are "listed" and "changed since".  Three
half lines are a line and one without an end; the tarballs are one per branch
of `DetectFramework` and of the injection.  Three changes of the routes and two timer goroutines
let a third load overtake two.

### Deadlock

Checked in `MCScheduler`, `MCVm`, `MCBuild`, `MCEdgeRoutes` and the runs of `Failover`.
The others really come to rest: when every deployment has settled, when
`executeBuild` has returned, when all changes are read, when the ids of VMs are used up, when the
certificate is stored.

### Fairness

* Scheduler: the clock, the ticker's goroutine and the goroutines that wait are
  scheduled; a blocked send meets a free worker; a reconcile function
  returns.  The last is an assumption about the calls it makes: the context of a
  pass has no deadline, and a pass that hangs keeps its worker for good.  No
  fairness among the objects of a batch is assumed, none towards success.
* VM supervisor, rollout: a due pass begins and goes on (`EveryChangeServed`), a
  goroutine goes on, builds end (`EveryBuildEnds`), guests that are not deleted
  boot.  No fault, exit, deletion or event is ever required.
* Builds: passes go on, the hourly resync comes (`Revisited`), and time passes between
  passes.  Strong fairness of `Elapse` because in the model time is stopped
  while a pass stands between two statements; in the world it is not.  Nothing
  makes the VM boot.
* Build execution: the three goroutines go on and the command in the container
  ends; no call has to succeed.
* Failover: loops of a running server go on; the heartbeat of a dead one grows old;
  PostgreSQL breaks deadlocks and queues lock requests first come, first served,
  which is the strong fairness of `Duty`.  Nothing makes a dead server return.
* Placement: a process that runs reconciles its own server row and is started again after it
  died; nothing makes a `VMCreate` go on.
* Delivery: only the scheduler's promises (`EveryChangeServed`, `Revisited`): due objects get a
  pass and known ones become due.  Events need not be handled.
* Edge routes: the poll ticks and queries return.  The timer path is not
  needed for `Converges`, so it is not assumed.
* Certificates: clients keep connecting to every proxy, orders end, locks
  expire, and every domain row is visited (`Revisited`).  A handshake is only sure to be
  let through when the name has one active row, because the query returns any of them.

## 4. Where the code and its comments disagree

One run shows a disagreement and is listed as a finding:

* `MCFailoverFull`: `server.go:224` logs an error of the replacement and
  commits, although `server.go:198` says that the whole operation rolls back; the VM is
  deleted without a replacement and the server is no longer found dead.

The modules state more of the comments' promises that fail, or that a reader
would expect.  They have no configuration of their own; each line says how to
reproduce it.

| Statement (module) | Behaviour that refutes it |
|---|---|
| `EntryIsRunning` (`VmSupervisor`), `vm.go:71` | `vmToCmd` is filled at `vm.go:166`, before `cmd.Start()`; when that fails the entry stays, the retry skips the launch and writes `running`, and the VM never starts |
| `AlwaysRuns` (`VmSupervisor`) without its exception, `vm.go:62` | the same; or the UPDATE at `vm.go:177` fails, no goroutine waits, and the later exit is never noticed |
| `ReplacesOld` (`Rollout`) without its exception, `deployment.go:193` | a statement fails after `running_at` is set; the retry leaves at `deployment.go:60`, and older deployments are never stopped |
| `StopsAllOthers` (`Rollout`), `deployment.go:269` | an older deployment that becomes healthy after the newer one looked is not stopped by anybody (`deployment.sql:55` asks for older ids); `MCRollout` with `MaxFaults = 0` |
| `DomainsFollow` (`Rollout`), `deployment.go:187` | an older deployment has set `running_at` when the newer one takes the domains and stops it; then the older pass takes the domains (`domain.sql:18` asks for no id), which stay with a stopped deployment; `MCRollout` with `MaxFaults = 0` |
| `StopsOldForServing` (`Rollout`), `deployment.go:193` | the user stops the new deployment while its pass is about to stop the old one |
| `stray = {}` (`Rollout`) | a VM created and not linked yet when a statement fails or the leader dies is referred to by no row; a failover of such a VM makes another one (`server.go:265`) |
| `LeaseSpec` (`BuildLease`) with `broken <- FALSE`, `apps/web/.../schema.ts:188` | an execution outlasts its lease, which is not renewed |
| `OutcomeStable` (`BuildLease`) without "reply" | `BuildMarkSuccessful` (`build.go:272`) takes effect and reports an error, and `build.go:154` marks the build failed: a failed build with an image |
| `BuildVmsReleased` (`BuildLease`), `vm.go:62` | a build that ends in `LookAtVm` or `CheckAge` keeps its VM, which is restarted for ever |
| `GoroutinesEnd` (`BuildExecution`) with `<>(prep = "done")` | skopeo finds the image, nobody reads the context, and the preparer waits for a reader for good |
| `OnlyDeadMarked` (`Failover`), `server.go:197` | dead servers are read before the transaction; `OneSilence` |
| `LeadershipEnds` (`Failover`), `server.go:143` | nothing clears the flag, and nothing uses the dropped connection; `OneDrop` |
| `FailedOver` (`Failover`) with a VM exit | VMs found stopped or failed are skipped (`server.go:253`); `OnePlace`, `Capacity = 2`, `OneExit` |
| `EveryServerHasRoom` (`Placement`), `server.sql:81` | `host()` drops the mask that `set_masklen` has set: the second server gets 10.1.16.0/32, the third 10.1.16.1/32, ... with no address for a VM; as the emptiest it is then chosen by every `VMCreate`, which fails; `MCPlacement` with `Given <- Nobody`, six steps |
| `EveryServerRegisters` (`Placement`), `server.go:52` | the generated query (`server.sql.go:39-54`, unlike `server.sql`) ends in `FROM lock`, a relation neither in the statement nor in the schema, and always fails: a server without a row never starts; `MCPlacement` with `Compiled = TRUE`, `Given <- OneOld` |
| `DrainedServerEmpty` (`Placement`), `server.sql:55` | a call that chose the server before the drain inserts its VM after the list was read; a failed deletion is only logged |
| `NewRowsKnown` (`Delivery`) | a deployment created between the leader's list and its slot, or after the listener has ended, is known to no scheduler until somebody lists again |
| `OneVerifiedEver` (`Certificates`), `domain.go:73` | a row is removed after its pass has listed its rivals, another one is verified, the first is added again, and then its old pass marks it verified by id (`domain.go:94`); `MCCertificates`, 13 steps |
| `OneVerifiedEver` with "clash", `domain.go:73` | the row of a deployment is inserted verified (`deployment.ts:87`) without a look at other rows of its name; the unlikely case that its six random characters are taken |

Noted while reading, and outside what the modules can show:

* No statement sets `deployments.status` to running, which `DeploymentFindRunningByServerID`
  asks for: a drain migrates nothing, it deletes.  `drainDeployment` and
  `waitForVMHealth` are never reached.
* A draining or drained server that restarts registers as active again, because the upsert of
  `ServerRegister` sets the status.
* A draining server that dies is never found dead (`server.sql:47` asks for
  active ones).
* No caller of `VMCreate` passes a server id, so the branch for it is not an action.

## 5. Proofs

`tlapm` checks all eight proof modules completely; the theorems hold for every
value of the constants that satisfies the named assumptions.  These only say that
the "nothing" values are not real ones, that bounds and budgets are natural
numbers, that `StuckAfter <= StaleAfter`, that the ranges servers have from before are
apart, and that there are enough VMs for every deployment to start with one.  One theorem
says more: `VmForEach` is about clusters with two servers or more, addresses for all deployments on each, one crash at
most and no late heartbeats, because with two servers lost, or a full one, `server.go:224`
commits the deletion without a replacement.

| Module | Theorems |
|---|---|
| `SchedulerProofs` | `TypeCorrect`, `MutualExclusion`, `WakeupsKept`, `RunningExact`, `ImplementsQueue`, `ChangesReachLeader` |
| `VmSupervisorProofs` | `TypeCorrect`, `NothingOrphaned`, `NeverTwoHypervisors`, `ListenerStays` |
| `RolloutProofs` | `TypeCorrect`, `NoDowntime`, `NothingLeaks` |
| `BuildLeaseProofs` | `TypeCorrect`, `ExecutedOnce`, `ImplementsLease`, `OutcomeStays`, `ReleasesVm` |
| `BuildExecutionProofs` | `TypeCorrect`, `BuildsWholeContext`, `SuccessHasImage`, `NoContainerLeft`, `ReportedWithLogs` |
| `FailoverProofs` | `TypeCorrect`, `OneVmEach`, `VmForEach` |
| `PlacementProofs` | `TypeCorrect`, `AllocationsAreFree`, `AddressesRoutable` |
| `EdgeProxyProofs` | `RoutesTypeCorrect`, `AnnouncedIsRead`, `LockTypeCorrect`, `Exclusive`, `LockImplementsLease`, `CertificateLease`, `NeverTwoVerified` |

**Scheduler.**  `OneWorkerPerObject` alone is not inductive: nothing in it stops
the ticker from collecting an object a worker has.  It becomes so with
`RunningIsInFlight`, because the ticker skips what is running.
`NoLostWakeup` needs the types only.  `ImplementsQueue` shows that the initial state is
the queue's, and, one case per action, that each step is one of the queue's or a
stutter; `Begin`'s guard "no other worker has it" is where the invariant
is used.

**VmSupervisor.**  For any VMs, slots and fault budgets, failed launches and UPDATEs
included.  The invariant is the conjunction of the types and
 - `Found`: a live process is the one in `vmToCmd` or in the hands of the kill step;
 - `Launched`: a launch begins with an empty map and then holds its entry, which no
   goroutine watches yet;
 - `Deleted`: the steps of the delete pass are taken for deleted VMs only;
 - `Watched`: a goroutine that has not emptied the map yet belongs to the process
   in the map, unless the VM is deleted; past `cmd.Wait` its process is dead;
 - `Listening`: the listener is open from preparation to exit.

`OneHypervisor` follows from `Found` at once; the difficulty is that `Forget`
removes the entry whichever process it is for, and `Watched` is what makes that
harmless: while a goroutine has not done so, no successor can be in the map.

**Rollout.**  `DomainStaysUp` is about one deployment but depends on the passes of all.
The inductive invariant is `Up`:
 - `OwnVms`: a VM in a row, in the copy of a pass or in a list of older deployments belongs
   to one deployment, and none of these has an unused id;
 - `Stages`: a pass that is not past `MarkRunning` is of a deployment that neither runs nor
   has ended, unless a user stopped it, and one about to take the domains is serving or undone;
 - `Order`: who is about to look for older deployments has passed them: none of them has the
   domains or is about to take them, or it is undone;
 - `OlderRun`: passes stop deployments that are older, run, and are passed;
 - `Linked`: from the health check on a deployment has a VM that is not deleted, or is undone.

A VM is deleted by the pass of a deployment that has ended or of one that stops its owner;
`Order` and `OlderRun` say that neither owner has the domains, `OwnVms` that the
VM is not shared with the one that has.  `Order` breaks exactly where a rollout is overtaken:
`PointDomains` of the newer and `MarkRunning` of the older deployment put the older one
into `undone`.  `NoVmLeak` needs besides that a pass which is about to make or link a VM has
none (`NoneYet`), so that the link it makes hides no other VM.

**BuildLease.**  `OneExecutor` does not follow from the lease, which is broken once an
execution outlasts it.  The invariant says that no time passes from a claim to the
execution (`EarlyHolds`), that a build is at least as old as the lease it is
executed under, and stuck once somebody else took that lease (`Aged`), and that of two
passes one has just taken over and will give up (`Apart`).  The age of a
build is set back by `BuildMarkBuilding` only, whose pass is, by `Apart`, the only one.
`OnTime` is the part for behaviours without an overrun, from which `ImplementsLease` follows;
`OneOutcome` is what `OutcomeStable` needs besides.  `ExecutedVmReleased` is a property of
steps and needs only the types and what a pass knows of its copy of the row (`CopyHasVm`).

**BuildExecution.**  `Written` says what the context contains at each step of the preparer,
`Received` that the executor has seen the end of the pipe before it creates a container;
`EofStays` connects them: who ends the pipe has not ended it before.  `Known` follows the
image from the container's exit code to the row, `Removed` the container along every way out.
`ReportedWithLogs` counts the rows the logger has stored of what it has read; the container
writes nothing after its exit.

**Placement.**  A free place of a server's range is free in the cluster (`FreeIsUnused`)
because ranges are apart (`RangesApart`), however large; they are because who has allocated one holds the
range lock until the row is there (`RangePromised`); and the address is still free at the
INSERT because of the address lock (`CallsHold`).  `VmsPlaced` and `CallsPlaced` say
that servers of VMs and calls are in the table, whose ranges no statement moves.

**Failover.**  `OneVmPerDeployment` is about what has been committed; a step of the proof is
about what all open transactions have written.  The invariant says that
 - `Exclusive`: they have marked different servers, because an UPDATE locks the row;
 - `Claimed`: the VMs they are replacing or have deleted are on servers they have marked, and
   still live or ended, so two of them never delete one VM, or replacements of their own;
 - `Replacements`: each new VM is for one deleted VM that exists, also when it replaces
   another new one, and its id is unused;
 - `Serial`: one transaction at a time has passed the lock of the addresses, so ids of two
   never clash.

A commit then gives each VM it creates the deployment of a different one it deletes.
For `DeploymentHasVm`, a server nothing is wrong with is never taken for dead, since the list
of the dead is of expired heartbeats (`OneLost`), so a replacement always finds a server; and
the VMs on it, there or in the transaction, are of different deployments, none of
which is the one in question, so by counting deployments there is an address (`AlwaysRoom`).

**Delivery.**  `NothingMissed` is inductive with the order of a process's life
(`ListedInLife`): only a process that runs leads, only a leader has listed the rows, and
it listed all of them only after its slot was open.  So every row a leader's list was too
early for is in its slot, and stays there until a callback makes it due.

**EdgeRoutes.**  `NotificationKept` holds because a token is taken only by arming the timer,
which fires only by starting a goroutine, which ends by reading or failing; the types make the loads and the table tables of routes.

**CertLock.**  Exclusive because, while nobody was late, whoever works has the row
(`RowIsKept`); each step is one of `LeaseLock` or leaves who works alone.  `CertificateLease`
lifts it to the composition: every handshake takes a step of the lock or none.

**DomainVerify.**  Two passes may find each other's row unverified.  What prevents two marks is
that a pass first deletes all others it has listed, and marks a row only if it is still
there.  A row claims the name (`Claims`) when it is verified or its pass has listed its
rivals; of two active rows that claim it, one is on the other's list and will be deleted
(`OneGivesWay`), and no row is verified before its pass ends (`PassOrder`).  Both (`NameInv`)
are about the rows that are not in `unchecked`.

Only model-checked: all liveness (fairness and `ENABLED` are beyond the installed provers).
Every invariant and action property of the runs that pass has a theorem.  There are no
recursive operators and no induction over data.

## 6. What is not modelled

* The contents of data: environment variables, images, build logs but for how many lines there are.
* Base images shared between VMs (`vm.go:367`): files written by external programs;
  the preparation of a VM's disk is one step of `VmSupervisor`.
* The log streams of `vsock.go`: lines pass through, no state that others read.
* Host routes (`server.go`): kernel state recomputed as a whole from the rows by every pass.
* Two leaders in `Rollout`: the second VM leaks like the one of `deployment.go:143`.
* `drainDeployment` and `waitForVMHealth`: never reached (section 4).
* The walk along CNAMEs in `internal/shared/dns`: what DNS answers is an input of `DomainVerify`.
* Decoding and acknowledging of WAL messages: slots are temporary, so an
  acknowledgement changes nothing a later connection could see.
* Serving a request in the edge proxy: a read of the table.
* Guest agents, the rest of the web API, command line, telemetry, crypto, ids and GitHub tokens:
  no shared state whose interleavings could go wrong.
* Generated queries nobody calls.

## 7. Plan

1. `Rollout` with two leaders, and an abstract specification of "the serving deployment" it
   implements.
2. Proofs of the safety that the liveness properties rest on: a VM once deleted stays so, a
   route table stored is one that was read, a drain lists every VM.
3. `Delivery` for two deployments that share an event, and composed with `Failover`'s leadership.
4. Base images as an external writer in `VmSupervisor`.
