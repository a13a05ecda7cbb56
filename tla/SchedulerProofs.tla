-------------------------- MODULE SchedulerProofs --------------------------
(***************************************************************************)
(* For any sets of objects and workers: the types, the mutual exclusion of *)
(* the passes over an object, that no Schedule call is lost, and that the  *)
(* Scheduler implements WorkQueue.  The three invariants are inductive     *)
(* only together: a batch is disjoint from what the workers hold because   *)
(* the ticker skips "running", and "running" is what is in flight because  *)
(* no two workers, and no worker and the batch, share an object.           *)
(*                                                                         *)
(* And for what feeds the scheduler (module Delivery), with any servers,   *)
(* deployments and faults: a leader that has listed the rows over an open  *)
(* slot misses no change.                                                  *)
(***************************************************************************)
EXTENDS Scheduler, Delivery, TLAPS

IInv ==
    /\ TypeOK
    /\ OneWorkerPerObject
    /\ RunningIsInFlight
    /\ NoLostWakeup

(* The maps are empty and all workers idle when the scheduler starts.      *)
LEMMA InitIInv == Init => IInv
  BY IdleAssumption
     DEF Init, IInv, TypeOK, Time, OneWorkerPerObject, RunningIsInFlight, NoLostWakeup

(* Every step of Scheduler keeps the types.                                *)
LEMMA TypeStep == TypeOK /\ [Next]_vars => TypeOK'
<1> SUFFICES ASSUME TypeOK, [Next]_vars PROVE TypeOK'
    OBVIOUS
<1> USE DEF TypeOK, Time, Never, Later, Due
<1>1. ASSUME NEW o \in Object, Change(o) PROVE TypeOK'
    BY <1>1 DEF Change, Schedule
<1>2. ASSUME NEW o \in Object, WaiterFires(o) PROVE TypeOK'
    BY <1>2 DEF WaiterFires, Schedule
<1>3. ASSUME NEW o \in Object, Elapse(o) PROVE TypeOK'
    BY <1>3 DEF Elapse
<1>4. ASSUME Tick PROVE TypeOK'
    BY <1>4 DEF Tick, DueItems
<1>5. ASSUME NEW w \in Worker, NEW o \in Object, Receive(w, o) PROVE TypeOK'
    BY <1>5 DEF Receive
<1>6. ASSUME NEW w \in Worker, NEW t \in {Later, Due}, AskAgain(w, t) PROVE TypeOK'
    BY <1>6 DEF AskAgain, Schedule
<1>7. ASSUME NEW w \in Worker, SpawnWaiter(w) PROVE TypeOK'
    BY <1>7 DEF SpawnWaiter
<1>8. ASSUME NEW w \in Worker, Fail(w) PROVE TypeOK'
    BY <1>8 DEF Fail
<1>9. ASSUME NEW w \in Worker, Succeed(w) PROVE TypeOK'
    BY <1>9 DEF Succeed
<1>10. CASE UNCHANGED vars
    BY <1>10 DEF vars
<1> QED
    BY <1>1, <1>2, <1>3, <1>4, <1>5, <1>6, <1>7, <1>8, <1>9, <1>10 DEF Next

(* Every step keeps the passes exclusive and "running" exact.              *)
LEMMA ExclusionStep ==
    IInv /\ [Next]_vars => OneWorkerPerObject' /\ RunningIsInFlight'
<1> SUFFICES ASSUME IInv, [Next]_vars
             PROVE  OneWorkerPerObject' /\ RunningIsInFlight'
    OBVIOUS
<1> USE IdleAssumption DEF IInv, TypeOK, OneWorkerPerObject, RunningIsInFlight
<1>1. CASE UNCHANGED <<running, batch, item>>
    BY <1>1
<1>2. CASE Tick
    BY <1>2 DEF Tick, DueItems
<1>3. ASSUME NEW w \in Worker, NEW o \in Object, Receive(w, o)
      PROVE  OneWorkerPerObject' /\ RunningIsInFlight'
  <2>1. OneWorkerPerObject'
    BY <1>3 DEF Receive
  <2>2. {item'[v] : v \in Worker} \ {Idle} =
            ({item[v] : v \in Worker} \ {Idle}) \union {o}
    BY <1>3 DEF Receive
  <2>3. RunningIsInFlight'
    BY <1>3, <2>2 DEF Receive
  <2> QED BY <2>1, <2>3
<1>4. ASSUME NEW w \in Worker, item[w] # Idle,
             running' = running \ {item[w]},
             item' = [item EXCEPT ![w] = Idle],
             batch' = batch
      PROVE  OneWorkerPerObject' /\ RunningIsInFlight'
  <2>1. OneWorkerPerObject'
    BY <1>4
  <2>2. {item'[v] : v \in Worker} \ {Idle} =
            ({item[v] : v \in Worker} \ {Idle}) \ {item[w]}
    BY <1>4
  <2>3. RunningIsInFlight'
    BY <1>4, <2>2
  <2> QED BY <2>1, <2>3
<1> QED
    BY <1>1, <1>2, <1>3, <1>4
       DEF Next, Change, WaiterFires, Elapse, AskAgain, SpawnWaiter, Fail, Succeed, vars

(* Every step keeps a record of the Schedule calls still to be served.     *)
LEMMA WakeupStep == TypeOK /\ NoLostWakeup /\ [Next]_vars => NoLostWakeup'
<1> SUFFICES ASSUME TypeOK, NoLostWakeup, [Next]_vars PROVE NoLostWakeup'
    OBVIOUS
<1> USE DEF TypeOK, NoLostWakeup, Never, Later, Due, Time
<1>1. ASSUME NEW o \in Object, Change(o) PROVE NoLostWakeup'
    BY <1>1 DEF Change, Schedule
<1>2. ASSUME NEW o \in Object, WaiterFires(o) PROVE NoLostWakeup'
    BY <1>2 DEF WaiterFires, Schedule
<1>3. ASSUME NEW o \in Object, Elapse(o) PROVE NoLostWakeup'
    BY <1>3 DEF Elapse
<1>4. CASE Tick
    BY <1>4 DEF Tick, DueItems
<1>5. ASSUME NEW w \in Worker, NEW o \in Object, Receive(w, o) PROVE NoLostWakeup'
    BY <1>5 DEF Receive
<1>6. ASSUME NEW w \in Worker, NEW t \in {Later, Due}, AskAgain(w, t)
      PROVE  NoLostWakeup'
    BY <1>6 DEF AskAgain, Schedule
<1>7. ASSUME NEW w \in Worker, Fail(w) PROVE NoLostWakeup'
    BY <1>7 DEF Fail
<1>8. ASSUME NEW w \in Worker, Succeed(w) PROVE NoLostWakeup'
    BY <1>8 DEF Succeed
<1>9. CASE UNCHANGED <<schedule, batch, pending>>
    BY <1>9
<1> QED
    BY <1>1, <1>2, <1>3, <1>4, <1>5, <1>6, <1>7, <1>8, <1>9
       DEF Next, SpawnWaiter, vars

(* The conjunction of the invariants holds in every reachable state.       *)
LEMMA Invariance == Spec => []IInv
<1>1. IInv /\ [Next]_vars => IInv'
    BY TypeStep, ExclusionStep, WakeupStep DEF IInv
<1> QED
    BY InitIInv, <1>1, PTL DEF Spec

-----------------------------------------------------------------------------
(* The maps, the channel and the workers keep their types.                 *)
THEOREM TypeCorrect == Spec => []TypeOK
  BY Invariance, PTL DEF IInv

(* Two passes over the same object never overlap, for any number of        *)
(* objects and workers and any order of Schedule calls.                    *)
THEOREM MutualExclusion == Spec => []OneWorkerPerObject
  BY Invariance, PTL DEF IInv

(* What Schedule announced is in the schedule or in the batch until a pass *)
(* begins after it.                                                        *)
THEOREM WakeupsKept == Spec => []NoLostWakeup
  BY Invariance, PTL DEF IInv

(* "running" never keeps an object that is not in flight, and never misses *)
(* one that is.                                                            *)
THEOREM RunningExact == Spec => []RunningIsInFlight
  BY Invariance, PTL DEF IInv

-----------------------------------------------------------------------------
(* Every step of the scheduler is a step of the work queue or a stutter.   *)
LEMMA StepRefines == IInv /\ [Next]_vars => [Queue!Next]_(Queue!vars)
<1> SUFFICES ASSUME IInv, [Next]_vars PROVE [Queue!Next]_(Queue!vars)
    OBVIOUS
<1> USE DEF Queue!Next, Queue!vars
<1>1. ASSUME NEW o \in Object, pending' = pending \union {o}, item' = item
      PROVE  Queue!Next
    BY <1>1 DEF Queue!Change
<1>2. ASSUME NEW w \in Worker, NEW o \in Object, Receive(w, o)
      PROVE  Queue!Next
  <2>1. \A v \in Worker : item[v] # o
    BY <1>2 DEF IInv, OneWorkerPerObject, Receive
  <2> QED
    BY <1>2, <2>1 DEF Receive, Queue!Begin
<1>3. ASSUME NEW w \in Worker, Fail(w) \/ Succeed(w) PROVE Queue!Next
    BY <1>3 DEF Fail, Succeed, Queue!End
<1>4. CASE UNCHANGED <<pending, item>>
    BY <1>4
<1>5. ASSUME NEW w \in Worker, NEW t \in {Later, Due}, AskAgain(w, t)
      PROVE  Queue!Next
  <2>1. item[w] \in Object
    BY <1>5 DEF AskAgain, IInv, TypeOK
  <2> QED
    BY <1>1, <1>5, <2>1 DEF AskAgain, Schedule
<1>6. ASSUME NEW o \in Object, Change(o) \/ WaiterFires(o) PROVE Queue!Next
    BY <1>1, <1>6 DEF Change, WaiterFires, Schedule
<1> QED
    BY <1>2, <1>3, <1>4, <1>5, <1>6
       DEF Next, Elapse, Tick, SpawnWaiter, vars

(* The scheduler implements the work queue the reconcilers are written     *)
(* against: exclusive passes, and a change cleared only by a later pass.   *)
THEOREM ImplementsQueue == Spec => QueueSpec
<1>1. Init => Queue!Init
    BY DEF Init, Queue!Init
<1> QED
    BY <1>1, Invariance, StepRefines, PTL DEF Spec, QueueSpec, Queue!Spec

-----------------------------------------------------------------------------
(* Delivery's variables keep their types.                                  *)
LEMMA DeliveryTypeStep == DeliveryTypeOK /\ [DeliveryNext]_deliveryVars => DeliveryTypeOK'
<1> SUFFICES ASSUME DeliveryTypeOK, [DeliveryNext]_deliveryVars PROVE DeliveryTypeOK'
    OBVIOUS
<1> USE DEF DeliveryTypeOK
<1>1. ASSUME NEW d \in Deployment, NEW table \in {"deployment", "vm"}, Commit(d, table)
      PROVE  DeliveryTypeOK'
  <2>1. row' \in [Deployment -> 0 .. MaxVersion]
    BY <1>1, BoundAssumption DEF Commit
  <2>2. wal' \in [Server -> SUBSET Event]
    BY <1>1 DEF Commit, Send, Event
  <2> QED BY <1>1, <2>1, <2>2 DEF Commit
<1>2. ASSUME NEW s \in Server,
             Start(s) \/ CreateReplicationSlot(s) \/ DropSlot(s)
      PROVE  DeliveryTypeOK'
    BY <1>2 DEF Start, CreateReplicationSlot, DropSlot
<1>3. ASSUME NEW s \in Server, StartLists(s) PROVE DeliveryTypeOK'
    BY <1>3 DEF StartLists, ScheduleNow, Exists
<1>4. ASSUME NEW s \in Server,
             StartFails(s) \/ ConnectionBreaks(s) \/ LockLost(s) \/ BootstrapFails(s)
      PROVE  DeliveryTypeOK'
  <2>1. faults' \subseteq FaultKind
    BY <1>4 DEF StartFails, ConnectionBreaks, LockLost, BootstrapFails, Suffer, FaultKind
  <2> QED
    BY <1>4, <2>1 DEF StartFails, ConnectionBreaks, LockLost, BootstrapFails
<1>5. ASSUME NEW s \in Server, NEW e \in Event, Handle(s, e) PROVE DeliveryTypeOK'
    BY <1>5 DEF Handle, ScheduleNow, Event
<1>6. ASSUME NEW s \in Server, NEW e \in Event, CallbackFails(s, e)
      PROVE  DeliveryTypeOK'
    BY <1>6 DEF CallbackFails, Suffer, FaultKind
<1>7. ASSUME NEW s \in Server, Crash(s) PROVE DeliveryTypeOK'
  <2>1. slot' \in [Server -> BOOLEAN]
    BY <1>7 DEF Crash, Streaming
  <2>2. faults' \subseteq FaultKind
    BY <1>7 DEF Crash, Suffer, FaultKind
  <2> QED BY <1>7, <2>1, <2>2 DEF Crash
<1>8. ASSUME NEW s \in Server, Acquire(s) PROVE DeliveryTypeOK'
    BY <1>8 DEF Acquire
<1>9. ASSUME NEW s \in Server, BootstrapGlobal(s) PROVE DeliveryTypeOK'
    BY <1>9 DEF BootstrapGlobal, ScheduleNow, Exists, ListedNow
<1>10. ASSUME NEW s \in Server, NEW d \in Deployment, Pass(s, d) PROVE DeliveryTypeOK'
    BY <1>10 DEF Pass
<1>11. ASSUME NEW s \in Server, NEW d \in Deployment, Resync(s, d)
       PROVE  DeliveryTypeOK'
    BY <1>11 DEF Resync
<1>12. CASE UNCHANGED deliveryVars
    BY <1>12 DEF deliveryVars
<1> QED
    BY <1>1, <1>2, <1>3, <1>4, <1>5, <1>6, <1>7, <1>8, <1>9, <1>10, <1>11, <1>12
       DEF DeliveryNext

(* Only a process that runs leads, only a leader has listed the rows, and  *)
(* a list without a gap was made while the slot was open: once the slot is *)
(* gone, it comes back only with a new life of the process.                *)
ListedInLife ==
    \A s \in Server :
        /\ leads[s] => Running(s)
        /\ listed[s] # "no" => leads[s]
        /\ listed[s] = "whole" => phase[s] \in {"streaming", "deaf"}

(* Every step keeps the order of a life: start, stream, lead, list.        *)
LEMMA LifeStep ==
    DeliveryTypeOK /\ ListedInLife /\ [DeliveryNext]_deliveryVars => ListedInLife'
<1> SUFFICES ASSUME DeliveryTypeOK, ListedInLife, [DeliveryNext]_deliveryVars
             PROVE  ListedInLife'
    OBVIOUS
<1> USE DEF DeliveryTypeOK, ListedInLife, Running, Streaming
<1>1. ASSUME NEW s \in Server,
             Start(s) \/ StartLists(s) \/ StartFails(s) \/ CreateReplicationSlot(s)
             \/ ConnectionBreaks(s)
      PROVE  ListedInLife'
    BY <1>1 DEF Start, StartLists, StartFails, CreateReplicationSlot, ConnectionBreaks
<1>2. ASSUME NEW s \in Server, Crash(s) PROVE ListedInLife'
    BY <1>2 DEF Crash
<1>3. ASSUME NEW s \in Server, Acquire(s) PROVE ListedInLife'
    BY <1>3 DEF Acquire
<1>4. ASSUME NEW s \in Server, BootstrapGlobal(s) \/ BootstrapFails(s)
      PROVE  ListedInLife'
    BY <1>4 DEF BootstrapGlobal, BootstrapFails, ListedNow
<1>5. CASE UNCHANGED <<phase, leads, listed>>
    BY <1>5
<1> QED
    BY <1>1, <1>2, <1>3, <1>4, <1>5
       DEF DeliveryNext, Commit, DropSlot, Handle, CallbackFails, LockLost, Pass,
           Resync, deliveryVars

(* A leader becomes covered by listing the rows; while it is, a commit is  *)
(* sent to it, an event it handles makes the deployment due, and a pass    *)
(* reads the row.                                                          *)
LEMMA MissedStep ==
    DeliveryTypeOK /\ ListedInLife /\ NothingMissed /\ [DeliveryNext]_deliveryVars
        => NothingMissed'
<1> SUFFICES ASSUME DeliveryTypeOK, ListedInLife, NothingMissed,
                    [DeliveryNext]_deliveryVars,
                    NEW s \in Server, Covered(s)', "callback" \notin faults',
                    NEW d \in Deployment, row'[d] > seen'[d]
             PROVE  d \in queued'[s] \/ (\E e \in wal'[s] : e[1] = d)
    BY DEF NothingMissed
<1> USE DEF DeliveryTypeOK
<1> DEFINE Told == d \in queued[s] \/ (\E e \in wal[s] : e[1] = d)
<1>0. ASSUME Covered(s), "callback" \notin faults, row[d] > seen[d] PROVE Told
    BY <1>0 DEF NothingMissed
<1>1. ASSUME NEW c \in Deployment, NEW table \in {"deployment", "vm"}, Commit(c, table)
      PROVE  d \in queued'[s] \/ (\E e \in wal'[s] : e[1] = d)
  <2>1. Covered(s) /\ "callback" \notin faults
    BY <1>1 DEF Commit, Covered, Streaming
  <2>2. wal'[s] = wal[s] \union {<<c, table>>} /\ queued' = queued /\ seen' = seen
    BY <1>1, <2>1 DEF Commit, Send, Covered
  <2>3. CASE c = d
    <3>1. <<c, table>>[1] = d
      BY <2>3
    <3> QED BY <2>2, <3>1
  <2>4. CASE c # d
    BY <1>0, <1>1, <2>1, <2>2, <2>4 DEF Commit
  <2> QED BY <2>3, <2>4
<1>2. ASSUME NEW t \in Server,
             Start(t) \/ StartFails(t) \/ CreateReplicationSlot(t)
             \/ ConnectionBreaks(t) \/ Crash(t) \/ Acquire(t) \/ LockLost(t)
             \/ BootstrapFails(t) \/ DropSlot(t)
      PROVE  d \in queued'[s] \/ (\E e \in wal'[s] : e[1] = d)
  <2>1. Covered(s) /\ queued'[s] = queued[s] /\ wal'[s] = wal[s]
    BY <1>2 DEF ListedInLife, Running, Covered, Streaming, Start, StartFails,
       CreateReplicationSlot, ConnectionBreaks, Crash, Acquire, LockLost,
       BootstrapFails, DropSlot
  <2>2. UNCHANGED <<row, seen>> /\ faults \subseteq faults'
    BY <1>2 DEF Start, StartFails, CreateReplicationSlot, ConnectionBreaks, Crash,
       Acquire, LockLost, BootstrapFails, DropSlot, Suffer
  <2> QED BY <1>0, <2>1, <2>2
<1>3. ASSUME NEW t \in Server, StartLists(t)
      PROVE  d \in queued'[s] \/ (\E e \in wal'[s] : e[1] = d)
  <2>1. Covered(s) /\ queued[s] \subseteq queued'[s] /\ wal' = wal
    BY <1>3 DEF Covered, Streaming, StartLists, ScheduleNow
  <2> QED BY <1>0, <1>3, <2>1 DEF StartLists
<1>4. ASSUME NEW t \in Server, NEW f \in Event, Handle(t, f)
      PROVE  d \in queued'[s] \/ (\E e \in wal'[s] : e[1] = d)
  <2>1. Covered(s) /\ Told
    BY <1>0, <1>4 DEF Handle, Covered, Streaming
  <2>2. queued[s] \subseteq queued'[s]
    BY <1>4 DEF Handle, ScheduleNow
  <2>3. \A e \in wal[s] : e \in wal'[s] \/ e[1] \in queued'[s]
    BY <1>4 DEF Handle, ScheduleNow
  <2> QED BY <2>1, <2>2, <2>3
<1>5. ASSUME NEW t \in Server, NEW f \in Event, CallbackFails(t, f)
      PROVE  FALSE
    BY <1>5 DEF CallbackFails, Suffer
<1>6. ASSUME NEW t \in Server, BootstrapGlobal(t)
      PROVE  d \in queued'[s] \/ (\E e \in wal'[s] : e[1] = d)
  <2>1. UNCHANGED <<row, seen, wal, faults>> /\ queued[s] \subseteq queued'[s]
    BY <1>6 DEF BootstrapGlobal, ScheduleNow
  <2>2. d \in Exists
    BY <2>1, BoundAssumption DEF Exists
  <2>3. CASE t = s
    BY <1>6, <2>2, <2>3 DEF BootstrapGlobal, ScheduleNow
  <2>4. CASE t # s
    <3>1. Covered(s)
      BY <1>6, <2>4 DEF BootstrapGlobal, Covered, Streaming
    <3> QED BY <1>0, <2>1, <3>1
  <2> QED BY <2>3, <2>4
<1>7. ASSUME NEW t \in Server, NEW c \in Deployment, Pass(t, c)
      PROVE  d \in queued'[s] \/ (\E e \in wal'[s] : e[1] = d)
  <2>1. Covered(s) /\ wal' = wal /\ row' = row /\ faults' = faults
    BY <1>7 DEF Pass, Covered, Streaming
  <2>2. CASE c = d /\ leads[t]
    <3>1. seen'[d] = row[d]
      BY <1>7, <2>2 DEF Pass
    <3> QED BY <2>1, <3>1, BoundAssumption
  <2>3. CASE c = d /\ ~leads[t]
    <3>1. t # s /\ seen' = seen
      BY <1>7, <2>1, <2>3 DEF Covered, Pass
    <3>2. queued'[s] = queued[s]
      BY <1>7, <3>1 DEF Pass
    <3> QED BY <1>0, <2>1, <3>1, <3>2
  <2>4. CASE c # d
    <3>1. seen'[d] = seen[d]
      BY <1>7, <2>4 DEF Pass
    <3>2. d \in queued[s] => d \in queued'[s]
      BY <1>7, <2>4 DEF Pass
    <3> QED BY <1>0, <2>1, <3>1, <3>2
  <2> QED BY <2>2, <2>3, <2>4
<1>8. ASSUME NEW t \in Server, NEW c \in Deployment, Resync(t, c)
      PROVE  d \in queued'[s] \/ (\E e \in wal'[s] : e[1] = d)
  <2>1. Covered(s) /\ queued[s] \subseteq queued'[s] /\ UNCHANGED <<row, seen, wal, faults>>
    BY <1>8 DEF Resync, Covered, Streaming
  <2> QED BY <1>0, <2>1
<1>9. CASE UNCHANGED deliveryVars
    BY <1>0, <1>9 DEF deliveryVars, Covered, Streaming
<1> QED
    BY <1>1, <1>2, <1>3, <1>4, <1>5, <1>6, <1>7, <1>8, <1>9 DEF DeliveryNext

(* A leader that listed the deployments while its listener was open, and   *)
(* still is, has every change that no leader has read yet, due or on its   *)
(* way: whoever else leads, and whatever crashed or broke before.          *)
THEOREM ChangesReachLeader == DeliverySpec => []NothingMissed
<1>1. DeliveryInit => DeliveryTypeOK /\ ListedInLife /\ NothingMissed
  <2> SUFFICES ASSUME DeliveryInit
               PROVE  DeliveryTypeOK /\ ListedInLife /\ NothingMissed
    OBVIOUS
  <2>1. row \in [Deployment -> 0 .. MaxVersion] /\ seen \in [Deployment -> 0 .. MaxVersion]
    BY BoundAssumption DEF DeliveryInit
  <2>2. DeliveryTypeOK
    BY <2>1 DEF DeliveryInit, DeliveryTypeOK
  <2>3. ListedInLife /\ NothingMissed
    BY DEF DeliveryInit, ListedInLife, NothingMissed, Covered
  <2> QED BY <2>2, <2>3
<1> QED
    BY <1>1, DeliveryTypeStep, LifeStep, MissedStep, PTL DEF DeliverySpec
=============================================================================
