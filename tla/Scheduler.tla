----------------------------- MODULE Scheduler -----------------------------
(***************************************************************************)
(* internal/reconciler/reconciler.go: the Scheduler every kind of object   *)
(* (deployment, build, vm, domain, server) is driven by.                   *)
(*                                                                         *)
(* One mutex protects the maps "running" and "schedule".  A goroutine      *)
(* wakes up every second, collects under the mutex the objects that are    *)
(* due and not running, marks them running, and then hands them one by one *)
(* over an unbuffered channel to a fixed set of workers; while all workers *)
(* are busy it is blocked on the channel and does not tick.  A worker runs *)
(* the reconcile function without the mutex, so Schedule may be called at  *)
(* any moment of a pass: by the WAL callbacks, by the reconcile function   *)
(* itself, or by a goroutine an earlier pass left behind (the one that     *)
(* waits for a hypervisor to exit).                                        *)
(*                                                                         *)
(* Time is abstracted to what the ticker compares: a zero or absent entry  *)
(* is Never, an entry in the future Later, one in the past Due.            *)
(***************************************************************************)
CONSTANTS
    Object,   \* ids of the objects of one kind
    Worker,   \* the worker goroutines
    Idle      \* a worker blocked on the channel

Never == "never"
Later == "later"
Due   == "due"
Time  == {Never, Later, Due}

ASSUME IdleAssumption == Idle \notin Object

VARIABLES
    schedule,   \* schedule[o]: the entry of o, abstracted
    running,    \* the keys of the map "running"
    batch,      \* dueItems collected by the ticker and not sent yet
    item,       \* item[w]: the object worker w is reconciling, or Idle
    waiter,     \* waiter[o]: a goroutine left by a pass will Schedule(o, +5s)
    pending     \* history: objects a Schedule call named since their last
                \* pass began

vars == <<schedule, running, batch, item, waiter, pending>>

Init ==
    /\ schedule = [o \in Object |-> Never]
    /\ running = {}
    /\ batch = {}
    /\ item = [w \in Worker |-> Idle]
    /\ waiter = [o \in Object |-> FALSE]
    /\ pending = {}

-----------------------------------------------------------------------------
(* Schedule(objectID, nextRun) overwrites whatever entry there is.         *)
Schedule(o, t) ==
    /\ schedule' = [schedule EXCEPT ![o] = t]
    /\ pending' = pending \union {o}

(* A WAL callback or a bootstrap pass: Schedule(id, time.Now()).           *)
Change(o) ==
    /\ Schedule(o, Due)
    /\ UNCHANGED <<running, batch, item, waiter>>

(* The goroutine that waits for a hypervisor: Schedule(id, +5s), once.     *)
WaiterFires(o) ==
    /\ waiter[o]
    /\ waiter' = [waiter EXCEPT ![o] = FALSE]
    /\ Schedule(o, Later)
    /\ UNCHANGED <<running, batch, item>>

(* Time passes the entry of o.                                             *)
Elapse(o) ==
    /\ schedule[o] = Later
    /\ schedule' = [schedule EXCEPT ![o] = Due]
    /\ UNCHANGED <<running, batch, item, waiter, pending>>

(* Mutant: the ticker does not look at "running".                          *)
DueItemsInFlightToo == {o \in Object : schedule[o] = Due}

DueItems == {o \in Object : schedule[o] = Due /\ o \notin running}

(* One iteration of the ticker; the goroutine is back at its select only   *)
(* when the previous batch has been sent completely.                       *)
Tick ==
    /\ batch = {}
    /\ DueItems # {}
    /\ running' = running \union DueItems
    /\ schedule' = [o \in Object |-> IF o \in DueItems THEN Never ELSE schedule[o]]
    /\ batch' = DueItems
    /\ UNCHANGED <<item, waiter, pending>>

(* s.dueRun <- objectID meets id := <-s.dueRun.  The order of the batch is *)
(* the order of a map iteration, so any.                                   *)
Receive(w, o) ==
    /\ item[w] = Idle
    /\ o \in batch
    /\ item' = [item EXCEPT ![w] = o]
    /\ batch' = batch \ {o}
    /\ pending' = pending \ {o}
    /\ UNCHANGED <<schedule, running, waiter>>

(* The reconcile function asks for another pass at t before it returns.    *)
AskAgain(w, t) ==
    /\ item[w] # Idle
    /\ t \in {Later, Due}
    /\ Schedule(item[w], t)
    /\ UNCHANGED <<running, batch, item, waiter>>

(* The reconcile function starts the goroutine that fires the waiter.      *)
SpawnWaiter(w) ==
    /\ item[w] # Idle
    /\ waiter' = [waiter EXCEPT ![item[w]] = TRUE]
    /\ UNCHANGED <<schedule, running, batch, item, pending>>

(* Mutant: the error path forgets delete(s.running, id).                   *)
FailKeepsRunning(w) ==
    /\ item[w] # Idle
    /\ schedule' = [schedule EXCEPT ![item[w]] = Later]
    /\ item' = [item EXCEPT ![w] = Idle]
    /\ UNCHANGED <<running, batch, waiter, pending>>

(* The reconcile function returned an error: retry in five seconds.        *)
Fail(w) ==
    /\ item[w] # Idle
    /\ running' = running \ {item[w]}
    /\ schedule' = [schedule EXCEPT ![item[w]] = Later]
    /\ item' = [item EXCEPT ![w] = Idle]
    /\ UNCHANGED <<batch, waiter, pending>>

(* Mutants: success clears the entry, or sets no default.                  *)
SucceedWith(w, t) ==
    /\ item[w] # Idle
    /\ running' = running \ {item[w]}
    /\ schedule' = [schedule EXCEPT ![item[w]] = t]
    /\ item' = [item EXCEPT ![w] = Idle]
    /\ UNCHANGED <<batch, waiter, pending>>

SucceedClears(w) == SucceedWith(w, Never)
SucceedNoDefault(w) == item[w] # Idle /\ SucceedWith(w, schedule[item[w]])

(* It returned nil: come back in an hour unless an entry is already there. *)
Succeed(w) ==
    /\ item[w] # Idle
    /\ running' = running \ {item[w]}
    /\ schedule' = [schedule EXCEPT ![item[w]] = IF @ = Never THEN Later ELSE @]
    /\ item' = [item EXCEPT ![w] = Idle]
    /\ UNCHANGED <<batch, waiter, pending>>

Next ==
    \/ \E o \in Object : Change(o)
    \/ \E o \in Object : WaiterFires(o)
    \/ \E o \in Object : Elapse(o)
    \/ Tick
    \/ \E w \in Worker, o \in Object : Receive(w, o)
    \/ \E w \in Worker, t \in {Later, Due} : AskAgain(w, t)
    \/ \E w \in Worker : SpawnWaiter(w)
    \/ \E w \in Worker : Fail(w)
    \/ \E w \in Worker : Succeed(w)

Spec == Init /\ [][Next]_vars

(* Time passes, the ticker ticks, a blocked send meets a free worker, and  *)
(* every reconcile function returns.  Nothing makes a change arrive, a     *)
(* reconcile succeed, or a worker be fair between the items of a batch.    *)
Fairness ==
    /\ \A o \in Object : WF_vars(Elapse(o))
    /\ WF_vars(Tick)
    /\ WF_vars(\E w \in Worker, o \in Object : Receive(w, o))
    /\ \A w \in Worker : WF_vars(Fail(w) \/ Succeed(w))
    /\ \A o \in Object : WF_vars(WaiterFires(o))

FairSpec == Spec /\ Fairness

-----------------------------------------------------------------------------
TypeOK ==
    /\ schedule \in [Object -> Time]
    /\ running \subseteq Object
    /\ batch \subseteq Object
    /\ item \in [Worker -> Object \union {Idle}]
    /\ waiter \in [Object -> BOOLEAN]
    /\ pending \subseteq Object

(* No object is reconciled by two workers at once, nor waits in the        *)
(* ticker's batch while a worker has it: Schedule calls that pile up       *)
(* during a pass never start a second, concurrent one.                     *)
OneWorkerPerObject ==
    /\ \A v, w \in Worker : v # w /\ item[v] = item[w] => item[v] = Idle
    /\ \A w \in Worker : item[w] \notin batch

(* A Schedule call is never lost: until a pass begins after it, the object *)
(* has an entry in the schedule or already sits in the ticker's batch, even *)
(* when the call came in the middle of a pass that then failed.            *)
NoLostWakeup == \A o \in pending : schedule[o] # Never \/ o \in batch

(* "running" is exactly what is in flight, so a finished object can run    *)
(* again and an object in flight always comes back to the schedule.        *)
RunningIsInFlight ==
    running = batch \union ({item[w] : w \in Worker} \ {Idle})

(* Every Schedule call gets a pass that begins after it, however many      *)
(* objects, failures and postponements compete for the workers.            *)
EveryChangeServed == \A o \in Object : (o \in pending) ~> (o \notin pending)

(* Once scheduled, an object is visited again and again (hourly resync).   *)
InFlight(o) == \E w \in Worker : item[w] = o
Revisited == \A o \in Object : [](o \in pending => []<>InFlight(o))

Queue == INSTANCE WorkQueue

(* The scheduler implements the abstract work queue.                       *)
QueueSpec == Queue!Spec
=============================================================================
