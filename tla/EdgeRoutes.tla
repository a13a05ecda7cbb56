----------------------------- MODULE EdgeRoutes -----------------------------
(***************************************************************************)
(* internal/edgeproxy/edgeproxy.go: the route table of one edge proxy.  It *)
(* is a copy of what RouteFindActive returns, replaced as a whole by       *)
(* loadRoutes.  Changes of the rows reach the proxy as WAL events, which   *)
(* leave a token in a channel of capacity one (notifyRouteChange in        *)
(* internal/zeitwork/server.go); the loop arms a debounce timer for each   *)
(* token it receives, after it has stopped the one armed before, and the   *)
(* timer loads the routes in a goroutine of its own, which a Stop that     *)
(* comes too late does not end; the loop itself loads them once a minute.  *)
(* So loads overlap, and each stores what it read when it gets to it.      *)
(*                                                                         *)
(* (Names that module Certificates has too carry the prefix Routes, so     *)
(* that one module can extend both.)                                       *)
(***************************************************************************)
EXTENDS Naturals, FiniteSets

CONSTANTS
    Name,         \* host names of custom domains
    Deployment,
    Vm,           \* ids of VM rows; each has its address
    None,         \* NULL
    Goroutine,    \* timer goroutines that may be loading at once (bound)
    MaxChanges,   \* how often the rows change in a behaviour (bound)
    MaxFailures   \* how many kinds of fault may happen, each of them once

(* The listener of this server ends; a query fails.                        *)
FailureKind == {"deaf", "query"}

ASSUME NoneAssumption == None \notin Deployment \union Vm
ASSUME BoundAssumption == MaxChanges \in Nat /\ MaxFailures \in Nat

(* Every deployment starts with a VM of its own.                           *)
OneVmEach(f) == \A c, d \in Deployment : f[c] = f[d] => c = d
ASSUME VmAssumption == \E f \in [Deployment -> Vm] : OneVmEach(f)

VARIABLES
    target,    \* domains.deployment_id
    routable,  \* names whose row is verified and not deleted
    redirect,  \* names with redirect_to
    serving,   \* deployments that are not stopped, failed or deleted
    vmId,      \* deployments.vm_id
    alive,     \* VMs that are not deleted
    changes,   \* number of changes so far
    events,    \* changes whose WAL event has not been handled yet
    deaf,      \* the listener has ended
    notified,  \* the channel holds a token
    timer,     \* the debounce timer is armed
    fired,     \* goroutines the timer has started that have not read yet
    load,      \* what each load has read and not stored yet, or NoLoad
    routes,    \* the table requests are served from
    news,      \* history: what became of the changes announced so far:
               \* "announced", "read" since, "lost" to a query that failed
    failures

rows == <<target, routable, redirect, serving, vmId, alive>>
routesVars ==
    <<rows, changes, events, deaf, notified, timer, fired, load, routes, news,
      failures>>

(* The loop polls, goroutines follow the timer.                            *)
Poll == "poll"
Loader == Goroutine \union {Poll}
NoLoad == [n \in Name |-> None]

(* A route leads to a VM or redirects; without one the name is not found.  *)
Route == Vm \union {"redirect", "not found"}
Table == [Name -> Route]

RoutesTypeOK ==
    /\ target \in [Name -> Deployment \union {None}]
    /\ routable \subseteq Name /\ redirect \subseteq Name
    /\ serving \subseteq Deployment
    /\ vmId \in [Deployment -> Vm \union {None}]
    /\ alive \subseteq Vm
    /\ changes \in 0 .. MaxChanges /\ events \in Nat
    /\ deaf \in BOOLEAN /\ notified \in BOOLEAN /\ timer \in BOOLEAN
    /\ fired \subseteq Goroutine
    /\ load \in [Loader -> Table \union {NoLoad}]
    /\ routes \in Table
    /\ news \in {"read", "announced", "lost"}
    /\ failures \subseteq FailureKind

-----------------------------------------------------------------------------
(* The two LEFT JOINs of RouteFindActive: the VM behind a name.            *)
VmBehind(n) ==
    IF target[n] = None \/ target[n] \notin serving THEN None
    ELSE IF vmId[target[n]] \in alive THEN vmId[target[n]] ELSE None

(* RouteFindActive, and the order in which loadRoutes looks at a row.      *)
RouteFindActive ==
    [n \in Name |->
        IF n \notin routable THEN "not found"
        ELSE IF n \in redirect THEN "redirect"
        ELSE IF VmBehind(n) # None THEN VmBehind(n) ELSE "not found"]

Nothing == [n \in Name |-> "not found"]

(* The process starts with rows in place: the first load has been made, or *)
(* has failed with a warning.                                              *)
RoutesInit ==
    /\ target \in [Name -> Deployment]
    /\ routable = Name /\ redirect = {}
    /\ serving = Deployment
    /\ vmId = CHOOSE f \in [Deployment -> Vm] : OneVmEach(f)
    /\ alive = {vmId[d] : d \in Deployment}
    /\ changes = 0 /\ events = 0
    /\ deaf = FALSE /\ notified = FALSE /\ timer = FALSE
    /\ fired = {}
    /\ load = [l \in Loader |-> NoLoad]
    /\ routes \in {RouteFindActive, Nothing}
    /\ news = "read"
    /\ failures = {}

RoutesSuffer(k) ==
    /\ k \notin failures
    /\ Cardinality(failures) < MaxFailures
    /\ failures' = failures \union {k}

-----------------------------------------------------------------------------
(* Rows change, and every change is an event.                              *)
PointTo(n, d) ==
    /\ target[n] # d
    /\ target' = [target EXCEPT ![n] = d]
    /\ UNCHANGED <<routable, redirect, serving, vmId, alive>>

SetRedirect(n) ==
    /\ redirect' = redirect \union {n}
    /\ UNCHANGED <<target, routable, serving, vmId, alive>>

RemoveName(n) ==
    /\ routable' = routable \ {n}
    /\ UNCHANGED <<target, redirect, serving, vmId, alive>>

StopDeployment(d) ==
    /\ serving' = serving \ {d}
    /\ UNCHANGED <<target, routable, redirect, vmId, alive>>

(* A failover or a drain: another VM takes over.                           *)
ReplaceVm(d, v) ==
    /\ v \notin alive
    /\ vmId' = [vmId EXCEPT ![d] = v]
    /\ alive' = (alive \ {vmId[d]}) \union {v}
    /\ UNCHANGED <<target, routable, redirect, serving>>

Change ==
    /\ changes < MaxChanges
    /\ \/ \E n \in Name, d \in Deployment : PointTo(n, d)
       \/ \E n \in Name : SetRedirect(n)
       \/ \E n \in Name : RemoveName(n)
       \/ \E d \in Deployment : StopDeployment(d)
       \/ \E d \in Deployment, v \in Vm : ReplaceVm(d, v)
    /\ rows' # rows
    /\ changes' = changes + 1
    /\ events' = IF deaf THEN events ELSE events + 1
    /\ UNCHANGED <<deaf, notified, timer, fired, load, routes, news, failures>>

(* The callback of an event: notifyRouteChange does not block.             *)
Notify ==
    /\ events > 0
    /\ events' = events - 1
    /\ notified' = TRUE
    /\ news' = "announced"
    /\ UNCHANGED <<rows, changes, deaf, timer, fired, load, routes, failures>>

(* The listener ends for good, with the events it had not handled.         *)
ListenerEnds ==
    /\ ~deaf
    /\ RoutesSuffer("deaf")
    /\ deaf' = TRUE
    /\ events' = 0
    /\ UNCHANGED <<rows, changes, notified, timer, fired, load, routes, news>>

(* Mutant: a token that comes while the timer is armed stops it and arms   *)
(* no new one.                                                             *)
ReceiveStops ==
    /\ notified
    /\ load[Poll] = NoLoad
    /\ notified' = FALSE
    /\ timer' = ~timer
    /\ UNCHANGED <<rows, changes, events, deaf, fired, load, routes, news, failures>>

(* The loop takes the token, stops the timer and arms a new one; it does   *)
(* not while it polls.  A goroutine that the old timer has started goes on.*)
Receive ==
    /\ notified
    /\ load[Poll] = NoLoad
    /\ notified' = FALSE
    /\ timer' = TRUE
    /\ UNCHANGED <<rows, changes, events, deaf, fired, load, routes, news, failures>>

(* The timer starts a goroutine.                                           *)
TimerFires(g) ==
    /\ timer
    /\ g \notin fired /\ load[g] = NoLoad
    /\ timer' = FALSE
    /\ fired' = fired \union {g}
    /\ UNCHANGED <<rows, changes, events, deaf, notified, load, routes, news, failures>>

(* The query of a load reads the rows.                                     *)
Read(l) ==
    /\ load[l] = NoLoad
    /\ load' = [load EXCEPT ![l] = RouteFindActive]
    /\ fired' = fired \ {l}
    /\ news' = "read"
    /\ UNCHANGED <<rows, changes, events, deaf, notified, timer, routes, failures>>

TimerLoads(g) == g \in fired /\ Read(g)

FallbackPoll == Read(Poll)

(* Mutant: only names that are still there are updated.                    *)
StoreRoutesMerged(l) ==
    /\ load[l] # NoLoad
    /\ routes' = [n \in Name |->
                    IF load[l][n] = "not found" THEN routes[n] ELSE load[l][n]]
    /\ load' = [load EXCEPT ![l] = NoLoad]
    /\ UNCHANGED <<rows, changes, events, deaf, notified, timer, fired, news, failures>>

StoreRoutes(l) ==
    /\ load[l] # NoLoad
    /\ routes' = load[l]
    /\ load' = [load EXCEPT ![l] = NoLoad]
    /\ UNCHANGED <<rows, changes, events, deaf, notified, timer, fired, news, failures>>

(* The query fails, before or after it has read the rows: the error is     *)
(* logged, the table stays, and nobody tries again before the next poll.   *)
(* What was announced after it had read the rows is not lost with it.      *)
LoadFails(l) ==
    /\ l \in fired \/ load[l] # NoLoad
    /\ RoutesSuffer("query")
    /\ fired' = fired \ {l}
    /\ load' = [load EXCEPT ![l] = NoLoad]
    /\ news' = IF l \notin fired /\ news = "announced" THEN news ELSE "lost"
    /\ UNCHANGED <<rows, changes, events, deaf, notified, timer, routes>>

RoutesNext ==
    \/ Change
    \/ Notify
    \/ ListenerEnds
    \/ Receive
    \/ \E g \in Goroutine : TimerFires(g)
    \/ \E g \in Goroutine : TimerLoads(g)
    \/ FallbackPoll
    \/ \E l \in Loader : StoreRoutes(l)
    \/ \E l \in Loader : LoadFails(l)

RoutesSpec == RoutesInit /\ [][RoutesNext]_routesVars

(* Queries return, the ticker ticks.                                       *)
RoutesFairness ==
    /\ WF_routesVars(FallbackPoll)
    /\ \A l \in Loader : WF_routesVars(StoreRoutes(l) \/ LoadFails(l))

RoutesFairSpec == RoutesSpec /\ RoutesFairness

-----------------------------------------------------------------------------
(* A change that was announced is on its way to a query that reads after   *)
(* it, unless that query has failed: no token is lost to a full channel, a *)
(* poll under way or a timer that is stopped just when it fires.           *)
NotificationKept == news = "announced" => notified \/ timer \/ fired # {}

(* Once the rows rest, the table of the proxy is what they say, and stays  *)
(* so: although loads overlap, so that an older result is stored after a   *)
(* newer one, a query fails, or the listener ends.                         *)
Converges == <>[](routes = RouteFindActive)
=============================================================================
