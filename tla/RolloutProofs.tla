--------------------------- MODULE RolloutProofs ---------------------------
(***************************************************************************)
(* For any deployments and VMs: the custom domains never lead to a         *)
(* deployment that is not up, but for those that others than the rollout   *)
(* have undone, and no VM is left behind but the strays.                   *)
(*                                                                         *)
(* Both are about what several passes do to each other between their       *)
(* statements: which VM a pass may still delete, and who may take the      *)
(* domains while somebody is about to stop it.                             *)
(***************************************************************************)
EXTENDS Rollout, TLAPS

(* At first every variable has its type.                                   *)
LEMMA InitType == Init => TypeOK
  <1> SUFFICES ASSUME Init PROVE TypeOK
    OBVIOUS
  <1>1. PICK live \in SUBSET Live :
            /\ running = [d \in Deployment |-> d \in live]
            /\ vmId = [d \in Deployment |-> IF d \in live THEN d ELSE None]
            /\ row = [v \in Vm |-> IF v \in live THEN "up" ELSE "unused"]
            /\ build = [d \in Deployment |-> IF d \in live THEN "image" ELSE "none"]
            /\ domain \in IF live = {} THEN {None} ELSE live
    BY DEF Init
  <1> USE <1>1, DeploymentAssumption, VmAssumption
  <1>2. domain \in Deployment \union {None}
    OBVIOUS
  <1>3. running \in [Deployment -> BOOLEAN]
    OBVIOUS
  <1> QED
    BY <1>2, <1>3 DEF Init, TypeOK

(* A new VM has an id no row has used.                                     *)
LEMMA FreshIsUnused == Unused # {} => FreshVm \in Vm /\ row[FreshVm] = "unused"
  BY DEF Unused, FreshVm

USE DEF stamps, locals, history, At, Goto

(* Whoever is woken, queued stays a function of the deployments.           *)
LEMMA WakeType ==
    ASSUME NEW D, Wake(D)
    PROVE  queued' \in [Deployment -> BOOLEAN]
  BY DEF Wake

(* The passes keep the types, one action after the other.                  *)
LEMMA PassTypes ==
    ASSUME TypeOK, NEW d \in Deployment, Pass(d)
    PROVE  TypeOK'
  <1> USE WakeType DEF TypeOK
  <1>1. CASE BeginPass(d)
    BY <1>1 DEF BeginPass
  <1>2. CASE Retire(d)
    BY <1>2 DEF Retire, VMSoftDelete
  <1>3. CASE CreateBuild(d) \/ LinkBuild(d) \/ AwaitBuild(d)
    BY <1>3 DEF CreateBuild, LinkBuild, AwaitBuild
  <1>4. CASE BuildFailed(d)
    BY <1>4 DEF BuildFailed
  <1>5. CASE BuildReady(d)
    BY <1>5 DEF BuildReady
  <1>6. CASE VMCreate(d)
    BY <1>6, FreshIsUnused DEF VMCreate
  <1>7. CASE LinkVm(d)
    BY <1>7 DEF LinkVm
  <1>8. CASE LookupVm(d)
    <2>1. CASE row[copy[d]] = "deleted"
      BY <1>8, <2>1 DEF LookupVm
    <2>2. CASE row[copy[d]] # "deleted"
      BY <1>8, <2>2 DEF LookupVm
    <2> QED
      BY <2>1, <2>2
  <1>9. CASE Probe(d)
    BY <1>9 DEF Probe
  <1>10. CASE MarkRunning(d)
    BY <1>10 DEF MarkRunning
  <1>11. CASE PointDomains(d)
    BY <1>11 DEF PointDomains, Overtaken
  <1>12. CASE FindOlder(d)
    <2>1. RunningAndOlder(d) \in SUBSET (Deployment \X (Vm \union {None}))
      BY DEF RunningAndOlder
    <2> QED
      BY <1>12, <2>1 DEF FindOlder
  <1>13. CASE \E r \in older[d] : StopVm(d, r)
    <2>1. PICK r \in older[d] : StopVm(d, r)
      BY <1>13
    <2>2. CASE r[2] = None
      BY <2>1, <2>2 DEF StopVm
    <2>3. CASE r[2] # None
      BY <2>1, <2>3 DEF StopVm, VMSoftDelete
    <2> QED
      BY <2>2, <2>3
  <1>14. CASE \E r \in older[d] : MarkStopped(d, r)
    BY <1>14 DEF MarkStopped
  <1>15. CASE EndPass(d)
    BY <1>15 DEF EndPass
  <1> QED
    BY <1>1, <1>2, <1>3, <1>4, <1>5, <1>6, <1>7, <1>8, <1>9, <1>10, <1>11,
       <1>12, <1>13, <1>14, <1>15 DEF Pass

(* So do the others.                                                       *)
LEMMA TypeStep == TypeOK /\ [Next]_vars => TypeOK'
  <1> SUFFICES ASSUME TypeOK, [Next]_vars PROVE TypeOK'
    OBVIOUS
  <1>1. ASSUME NEW d \in Deployment, Pass(d) PROVE TypeOK'
    BY <1>1, PassTypes
  <1> USE WakeType DEF TypeOK, Suffer, FaultKind
  <1>2. ASSUME NEW d \in Deployment, StatementFails(d) PROVE TypeOK'
    <2> DEFINE skips == pc[d] \in {"stop", "stamp"} /\ older[d] # {}
    <2>0. Unlinked(d) \subseteq Vm \union {None}
      BY DEF Unlinked
    <2>1. CASE skips
      BY <1>2, <2>0, <2>1 DEF StatementFails
    <2>2. CASE ~skips
      BY <1>2, <2>0, <2>2 DEF StatementFails
    <2> QED
      BY <2>1, <2>2
  <1>3. ASSUME NEW d \in Deployment, BuildEnds(d) PROVE TypeOK'
    BY <1>3 DEF BuildEnds
  <1>4. ASSUME NEW d \in Deployment, UserStops(d) PROVE TypeOK'
    BY <1>4 DEF UserStops
  <1>5. ASSUME NEW v \in Vm, GuestAnswers(v) PROVE TypeOK'
    BY <1>5 DEF GuestAnswers
  <1>6. ASSUME NEW v \in Vm, Failover(v) PROVE TypeOK'
    BY <1>6, FreshIsUnused DEF Failover
  <1>7. CASE Crash
    <2>1. \A d \in Deployment : Unlinked(d) \subseteq Vm \union {None}
      BY DEF Unlinked
    <2> QED
      BY <1>7, <2>1 DEF Crash
  <1>8. ASSUME NEW v \in Vm, DropVm(v) PROVE TypeOK'
    BY <1>8 DEF DropVm, VMSoftDelete, UsersOf
  <1>9. CASE UNCHANGED vars
    BY <1>9 DEF vars
  <1> QED
    BY <1>1, <1>2, <1>3, <1>4, <1>5, <1>6, <1>7, <1>8, <1>9 DEF Next

(* Every variable has its type.                                            *)
THEOREM TypeCorrect == Spec => []TypeOK
  BY InitType, TypeStep, PTL DEF Spec

-----------------------------------------------------------------------------
(* What a deployment may still delete or be given: the VM it is linked to, *)
(* that of its pass, and those that passes of newer ones have read.        *)
Owns(d, v) ==
    \/ vmId[d] = v
    \/ copy[d] = v
    \/ \E e \in Deployment : <<d, v>> \in older[e]

OwnVms ==
    \A v \in Vm : \A d \in Deployment :
        Owns(d, v) => /\ row[v] # "unused"
                      /\ \A c \in Deployment : Owns(c, v) => c = d

(* What is known of a deployment where its pass stands.                    *)
Stages ==
    \A d \in Deployment :
        /\ pc[d] = "retire" => Terminal(d)
        /\ pc[d] \in {"build", "attach", "vm", "link", "lookup", "probe", "mark"} =>
              ~running[d] /\ ~failed[d] /\ (stopped[d] => d \in undone)
        /\ pc[d] \in {"point", "find", "stop", "stamp"} => running[d]
        /\ pc[d] = "point" => ~Terminal(d) \/ d \in undone
        /\ failed[d] => ~running[d]

(* A pass stops deployments that are older and run; those that have the    *)
(* domains, or will, are overtaken.                                        *)
Passed(c) == c \in undone \/ (c # domain /\ pc[c] # "point")

OlderRun ==
    \A d \in Deployment : \A r \in older[d] :
        /\ r[1] < d /\ running[r[1]] /\ pc[d] \in {"stop", "stamp"}
        /\ Passed(r[1])

(* So are they when it is about to look for them.                          *)
Order ==
    \A d \in Deployment : pc[d] = "find" =>
        \A c \in Deployment : c < d => Passed(c)

(* And of its VM.                                                          *)
Has(d) == vmId[d] # None /\ row[vmId[d]] # "deleted"

Linked ==
    \A d \in Deployment :
        /\ pc[d] \in {"build", "attach"} =>
              copy[d] \in {None, vmId[d]} \/ row[copy[d]] = "deleted"
        /\ pc[d] = "link" => copy[d] # None
        /\ pc[d] = "lookup" =>
              copy[d] # None /\ (vmId[d] = copy[d] \/ row[copy[d]] = "deleted")
        /\ pc[d] \in {"probe", "mark", "point"} => Has(d) \/ d \in undone

Up == TypeOK /\ OwnVms /\ Stages /\ OlderRun /\ Linked /\ Order /\ DomainStaysUp

LEMMA InitUp == Init => Up
  <1> SUFFICES ASSUME Init PROVE Up
    OBVIOUS
  <1>1. TypeOK
    BY InitType
  <1>2. PICK live \in SUBSET Live :
            /\ running = [d \in Deployment |-> d \in live]
            /\ vmId = [d \in Deployment |-> IF d \in live THEN d ELSE None]
            /\ row = [v \in Vm |-> IF v \in live THEN "up" ELSE "unused"]
            /\ domain \in IF live = {} THEN {None} ELSE live
    BY DEF Init
  <1>3. /\ pc = [d \in Deployment |-> "idle"] /\ copy = [d \in Deployment |-> None]
        /\ older = [d \in Deployment |-> {}]
        /\ stopped = [d \in Deployment |-> FALSE] /\ failed = [d \in Deployment |-> FALSE]
    BY DEF Init
  <1> USE DeploymentAssumption, VmAssumption
  <1>4. OwnVms
    BY <1>2, <1>3 DEF OwnVms, Owns
  <1>5. Stages /\ OlderRun /\ Linked /\ Order
    BY <1>3 DEF Stages, OlderRun, Linked, Order
  <1>6. DomainStaysUp
    BY <1>2, <1>3 DEF DomainStaysUp, DomainUp, Serving, Terminal
  <1> QED
    BY <1>1, <1>4, <1>5, <1>6 DEF Up

(* Steps that give no VM away and take no new one.                         *)
LEMMA OwnVmsKept ==
    ASSUME OwnVms,
           \A d \in Deployment, v \in Vm : Owns(d, v)' => Owns(d, v),
           \A v \in Vm : row[v] # "unused" => row'[v] # "unused"
    PROVE  OwnVms'
  BY DEF OwnVms

(* Steps of a pass, of the builds and of the guests that neither link nor  *)
(* delete, and what is left when a pass is cut off.                        *)
LEMMA QuietStep ==
    ASSUME Up, UNCHANGED <<stamps, vmId, copy, domain, undone>>,
           \A v \in Vm : /\ row[v] # "unused" => row'[v] # "unused"
                         /\ row[v] = "deleted" <=> row'[v] = "deleted",
           \A e \in Deployment :
               \/ pc'[e] = pc[e] /\ older'[e] = older[e]
               \/ pc'[e] = "idle" /\ older'[e] = {}
               \/ pc'[e] = "attach" /\ pc[e] = "build" /\ older'[e] = older[e]
               \/ pc'[e] = "build" /\ pc[e] = "attach" /\ older'[e] = older[e]
               \/ pc'[e] = "vm" /\ pc[e] = "build" /\ older'[e] = older[e]
               \/ pc'[e] = "stop" /\ pc[e] \in {"stop", "stamp"} /\ older'[e] \subseteq older[e]
               \/ pc'[e] = "lookup" /\ pc[e] = "build" /\ copy[e] # None /\ older'[e] = older[e]
               \/ pc'[e] = "mark" /\ pc[e] = "probe" /\ older'[e] = older[e],
           TypeOK'
    PROVE  Up'
  <1> USE DEF Up
  <1>1. \A e \in Deployment : older'[e] \subseteq older[e]
    OBVIOUS
  <1>2. OwnVms'
    <2>1. \A d \in Deployment, v \in Vm : Owns(d, v)' => Owns(d, v)
      BY <1>1 DEF Owns
    <2> QED
      BY <2>1, OwnVmsKept
  <1>3. Stages'
    BY DEF Stages, Terminal
  <1>4. \A e \in Deployment : Passed(e) => Passed(e)'
    BY DEF Passed
  <1>5. \A e \in Deployment : \A r \in older[e] : r[1] \in Deployment
    BY DEF TypeOK
  <1>6. OlderRun'
    BY <1>1, <1>4, <1>5 DEF OlderRun
  <1>7. \A e \in Deployment : Has(e) => Has(e)'
    BY DEF Has, TypeOK
  <1>8. \A e \in Deployment : copy[e] = None \/ (row[copy[e]] = "deleted" => row'[copy[e]] = "deleted")
    BY DEF TypeOK
  <1>9. Linked'
    BY <1>7, <1>8 DEF Linked, OlderRun
  <1>10. Order'
    BY <1>4 DEF Order
  <1>11. DomainStaysUp'
    BY DEF DomainStaysUp, DomainUp, Serving, Terminal, TypeOK
  <1> QED
    BY <1>2, <1>3, <1>6, <1>9, <1>10, <1>11

(* A VM is deleted whose deployment neither serves the domains nor will,   *)
(* or is undone: nobody else misses it.                                    *)
LEMMA DeleteStep ==
    ASSUME Up, TypeOK', NEW w \in Vm, row[w] # "unused",
           row' = [row EXCEPT ![w] = "deleted"],
           UNCHANGED <<stamps, vmId, copy, domain, older>>,
           undone \subseteq undone',
           \A x \in Deployment : Owns(x, w) =>
               \/ x \in undone'
               \/ x # domain /\ pc[x] \notin {"probe", "mark", "point"}
               \/ vmId[x] # w,
           \A d \in Deployment :
               \/ pc'[d] = pc[d]
               \/ pc[d] = "retire" /\ pc'[d] = "idle"
               \/ pc[d] = "stop" /\ pc'[d] = "stamp"
    PROVE  Up'
  <1> USE DEF Up
  <1>1. OwnVms'
    <2>1. \A e \in Deployment, v \in Vm : Owns(e, v)' => Owns(e, v)
      BY DEF Owns
    <2>2. \A v \in Vm : row[v] # "unused" => row'[v] # "unused"
      BY DEF TypeOK
    <2> QED
      BY <2>1, <2>2, OwnVmsKept
  <1>2. \A e \in Deployment :
            (e = domain \/ pc[e] \in {"probe", "mark", "point"}) /\ Has(e) =>
                Has(e)' \/ e \in undone'
    <2> SUFFICES ASSUME NEW e \in Deployment, Has(e), e \notin undone',
                        e = domain \/ pc[e] \in {"probe", "mark", "point"}
                 PROVE  Has(e)'
      OBVIOUS
    <2>1. vmId[e] \in Vm /\ Owns(e, vmId[e])
      BY DEF Has, TypeOK, Owns
    <2>2. vmId[e] # w
      BY <2>1
    <2> QED
      BY <2>1, <2>2 DEF Has, TypeOK
  <1>3. Stages'
    BY DEF Stages, Terminal, TypeOK
  <1>4. \A e \in Deployment : Passed(e) => Passed(e)'
    BY DEF Passed, TypeOK
  <1>5. OlderRun'
    <2>1. \A e \in Deployment : \A r \in older[e] : r[1] \in Deployment
      BY DEF TypeOK
    <2> QED
      BY <1>4, <2>1 DEF OlderRun, TypeOK
  <1>6. Linked'
    <2>1. \A v \in Vm : row[v] = "deleted" => row'[v] = "deleted"
      BY DEF TypeOK
    <2>2. \A e \in Deployment : copy[e] # None => copy[e] \in Vm
      BY DEF TypeOK
    <2> QED
      BY <1>2, <2>1, <2>2 DEF Linked, TypeOK
  <1>7. Order'
    BY <1>4 DEF Order, TypeOK
  <1>8. DomainStaysUp'
    <2> SUFFICES ASSUME domain \notin undone' \union {None} PROVE DomainUp'
      BY DEF DomainStaysUp
    <2>1. domain \in Deployment /\ Has(domain) /\ Serving(domain)
      BY DEF DomainStaysUp, DomainUp, Has, TypeOK
    <2> QED
      BY <1>2, <2>1 DEF DomainUp, Serving, Terminal, Has
  <1> QED
    BY <1>1, <1>3, <1>5, <1>6, <1>7, <1>8

(* What serves the domains is retired only when a user has stopped it; and *)
(* the older ones a pass stops are not it, nor about to get it.            *)
LEMMA UpRetire ==
    ASSUME Up, TypeOK', NEW d \in Deployment, Retire(d)
    PROVE  Up'
  <1>1. /\ pc[d] = "retire" /\ pc' = [pc EXCEPT ![d] = "idle"]
        /\ UNCHANGED <<stamps, vmId, copy, domain, older, undone>>
    BY DEF Retire
  <1>2. d # domain \/ d \in undone
    BY <1>1, VmAssumption DEF Up, Stages, DomainStaysUp, DomainUp, Serving
  <1>3. CASE copy[d] # None /\ row[copy[d]] # "deleted"
    <2>1. copy[d] \in Vm /\ Owns(d, copy[d])
      BY <1>3 DEF Up, TypeOK, Owns
    <2>2. row' = [row EXCEPT ![copy[d]] = "deleted"]
      BY <1>3 DEF Retire, VMSoftDelete
    <2>3. /\ row[copy[d]] # "unused"
          /\ \A x \in Deployment : Owns(x, copy[d]) => x = d
      BY <2>1 DEF Up, OwnVms
    <2>4. \A e \in Deployment : pc'[e] = pc[e] \/ (pc[e] = "retire" /\ pc'[e] = "idle")
      BY <1>1 DEF Up, TypeOK
    <2> QED
      BY <1>1, <1>2, <2>1, <2>2, <2>3, <2>4, DeleteStep
  <1>4. CASE ~(copy[d] # None /\ row[copy[d]] # "deleted")
    <2>1. row' = row
      BY <1>4 DEF Retire
    <2>2. \A e \in Deployment : \/ pc'[e] = pc[e] /\ older'[e] = older[e]
                                \/ pc'[e] = "idle" /\ older'[e] = {}
      BY <1>1 DEF Up, TypeOK, OlderRun
    <2> QED
      BY <1>1, <2>1, <2>2, QuietStep
  <1> QED
    BY <1>3, <1>4

LEMMA UpStopVm ==
    ASSUME Up, TypeOK', NEW d \in Deployment, NEW r \in older[d], StopVm(d, r)
    PROVE  Up'
  <1>1. /\ pc[d] = "stop" /\ pc' = [pc EXCEPT ![d] = "stamp"]
        /\ UNCHANGED <<stamps, vmId, copy, domain, older, undone>>
    BY DEF StopVm
  <1>2. r \in Deployment \X (Vm \union {None})
    BY DEF Up, TypeOK
  <1>3. r = <<r[1], r[2]>> /\ r[1] \in Deployment /\ r[2] \in Vm \union {None}
    BY <1>2
  <1>4. running[r[1]] /\ Passed(r[1])
    BY DEF Up, OlderRun
  <1>5. r[1] \in undone \/ (r[1] # domain /\ pc[r[1]] \notin {"probe", "mark", "point"})
    BY <1>3, <1>4 DEF Up, Stages, Passed
  <1>6. \A e \in Deployment : pc'[e] = pc[e] \/ (pc[e] = "stop" /\ pc'[e] = "stamp")
    BY <1>1 DEF Up, TypeOK
  <1>7. CASE r[2] # None
    <2>1. r[2] \in Vm /\ Owns(r[1], r[2])
      BY <1>3, <1>7 DEF Owns
    <2>2. row' = [row EXCEPT ![r[2]] = "deleted"]
      BY <1>7 DEF StopVm, VMSoftDelete
    <2>3. row[r[2]] # "unused" /\ \A x \in Deployment : Owns(x, r[2]) => x = r[1]
      BY <1>3, <2>1 DEF Up, OwnVms
    <2>4. \A x \in Deployment : Owns(x, r[2]) =>
              x \in undone' \/ (x # domain /\ pc[x] \notin {"probe", "mark", "point"})
      BY <1>1, <1>5, <2>3
    <2>5. undone \subseteq undone'
      BY <1>1
    <2> HIDE DEF Owns
    <2> QED
      BY <1>1, <1>6, <2>1, <2>2, <2>3, <2>4, <2>5, DeleteStep
  <1>8. CASE r[2] = None
    <2> USE DEF Up
    <2>1. row' = row
      BY <1>8 DEF StopVm
    <2>2. OwnVms'
      BY <1>1, <2>1 DEF OwnVms, Owns
    <2>3. Stages'
      BY <1>1, <1>6 DEF Stages, Terminal, TypeOK
    <2>4. \A e \in Deployment : Passed(e) => Passed(e)'
      BY <1>1, <1>6 DEF Passed
    <2>5. \A e \in Deployment : \A q \in older[e] : q[1] \in Deployment
      BY DEF TypeOK
    <2>6. OlderRun' /\ Order'
      BY <1>1, <1>6, <2>4, <2>5 DEF OlderRun, Order
    <2>7. Linked'
      BY <1>1, <1>6, <2>1 DEF Linked, Has, TypeOK
    <2>8. DomainStaysUp'
      BY <1>1, <2>1 DEF DomainStaysUp, DomainUp, Serving, Terminal
    <2> QED
      BY <2>2, <2>3, <2>6, <2>7, <2>8
  <1> QED
    BY <1>7, <1>8

LEMMA UpMarkStopped ==
    ASSUME Up, TypeOK', NEW d \in Deployment, NEW r \in older[d], MarkStopped(d, r)
    PROVE  Up'
  <1> USE DEF Up
  <1>1. /\ pc[d] = "stamp" /\ pc' = [pc EXCEPT ![d] = "stop"]
        /\ stopped' = [stopped EXCEPT ![r[1]] = TRUE]
        /\ older' = [older EXCEPT ![d] = @ \ {r}]
        /\ UNCHANGED <<running, failed, vmId, row, domain, copy, undone>>
    BY DEF MarkStopped
  <1>2. r[1] \in Deployment /\ running[r[1]] /\ Passed(r[1])
    BY DEF TypeOK, OlderRun
  <1>3. \A e \in Deployment : older'[e] \subseteq older[e]
    BY <1>1 DEF TypeOK
  <1>4. OwnVms'
    <2>1. \A e \in Deployment, v \in Vm : Owns(e, v)' => Owns(e, v)
      BY <1>1, <1>3 DEF Owns
    <2> QED
      BY <1>1, <2>1, OwnVmsKept
  <1>5. Stages'
    BY <1>1, <1>2 DEF Stages, Terminal, Passed, TypeOK
  <1>6. \A e \in Deployment : Passed(e) => Passed(e)'
    BY <1>1 DEF Passed, TypeOK
  <1>7. OlderRun'
    <2>1. \A e \in Deployment : \A q \in older[e] : q[1] \in Deployment
      BY DEF TypeOK
    <2> QED
      BY <1>1, <1>3, <1>6, <2>1 DEF OlderRun, TypeOK
  <1>8. Linked'
    BY <1>1 DEF Linked, Has, TypeOK
  <1>9. Order'
    BY <1>1, <1>6 DEF Order, TypeOK
  <1>10. DomainStaysUp'
    BY <1>1, <1>2 DEF DomainStaysUp, DomainUp, Serving, Terminal, Passed, TypeOK
  <1> QED
    BY <1>4, <1>5, <1>7, <1>8, <1>9, <1>10

LEMMA UpBeginPass ==
    ASSUME Up, TypeOK', NEW d \in Deployment, BeginPass(d)
    PROVE  Up'
  <1> USE DEF Up
  <1>1. /\ pc[d] = "idle" /\ copy' = [copy EXCEPT ![d] = vmId[d]]
        /\ pc' = [pc EXCEPT ![d] = IF Terminal(d) THEN "retire"
                                   ELSE IF running[d] THEN "idle" ELSE "build"]
        /\ UNCHANGED <<stamps, vmId, row, domain, older, undone>>
    BY DEF BeginPass
  <1>2. OwnVms'
    <2>1. \A e \in Deployment, v \in Vm : Owns(e, v)' => Owns(e, v)
      BY <1>1 DEF Owns, TypeOK
    <2> QED
      BY <1>1, <2>1, OwnVmsKept
  <1>3. older[d] = {}
    BY <1>1 DEF OlderRun
  <1>4. Stages'
    BY <1>1 DEF Stages, Terminal, TypeOK
  <1>5. \A e \in Deployment : Passed(e) => Passed(e)'
    BY <1>1 DEF Passed, TypeOK
  <1>6. OlderRun'
    <2>1. \A e \in Deployment : \A q \in older[e] : q[1] \in Deployment
      BY DEF TypeOK
    <2> QED
      BY <1>1, <1>3, <1>5, <2>1 DEF OlderRun, TypeOK
  <1>7. Linked'
    BY <1>1 DEF Linked, Has, TypeOK
  <1>8. Order'
    BY <1>1, <1>5 DEF Order, TypeOK
  <1>9. DomainStaysUp'
    BY <1>1 DEF DomainStaysUp, DomainUp, Serving, Terminal
  <1> QED
    BY <1>2, <1>4, <1>6, <1>7, <1>8, <1>9

LEMMA UpBuildFailed ==
    ASSUME Up, TypeOK', NEW d \in Deployment, BuildFailed(d)
    PROVE  Up'
  <1> USE DEF Up
  <1>1. /\ pc[d] = "build" /\ pc' = [pc EXCEPT ![d] = "idle"]
        /\ failed' = [failed EXCEPT ![d] = TRUE]
        /\ UNCHANGED <<running, stopped, vmId, row, domain, copy, older, undone>>
    BY DEF BuildFailed
  <1>2. ~running[d] /\ (d # domain \/ d \in undone)
    BY <1>1, VmAssumption DEF Stages, DomainStaysUp, DomainUp, Serving
  <1>3. OwnVms'
    BY <1>1 DEF OwnVms, Owns
  <1>4. Stages'
    BY <1>1, <1>2 DEF Stages, Terminal, TypeOK
  <1>5. \A e \in Deployment : Passed(e) => Passed(e)'
    BY <1>1 DEF Passed, TypeOK
  <1>6. OlderRun'
    <2>1. \A e \in Deployment : \A q \in older[e] : q[1] \in Deployment
      BY DEF TypeOK
    <2> QED
      BY <1>1, <1>5, <2>1 DEF OlderRun, TypeOK
  <1>7. Linked'
    BY <1>1 DEF Linked, Has, TypeOK
  <1>8. Order'
    BY <1>1, <1>5 DEF Order, TypeOK
  <1>9. DomainStaysUp'
    BY <1>1, <1>2 DEF DomainStaysUp, DomainUp, Serving, Terminal, TypeOK
  <1> QED
    BY <1>3, <1>4, <1>6, <1>7, <1>8, <1>9

(* A new row is nobody's yet.                                              *)
LEMMA UpVMCreate ==
    ASSUME Up, TypeOK', NEW d \in Deployment, VMCreate(d)
    PROVE  Up'
  <1> USE DEF Up
  <1>1. FreshVm \in Vm /\ row[FreshVm] = "unused"
    BY FreshIsUnused DEF VMCreate
  <1>2. /\ pc[d] = "vm" /\ pc' = [pc EXCEPT ![d] = "link"]
        /\ row' = [row EXCEPT ![FreshVm] = "made"]
        /\ copy' = [copy EXCEPT ![d] = FreshVm]
        /\ UNCHANGED <<stamps, vmId, domain, older, undone>>
    BY DEF VMCreate
  <1> HIDE DEF FreshVm
  <1>3. \A e \in Deployment : ~Owns(e, FreshVm)
    BY <1>1 DEF OwnVms
  <1>4. \A e \in Deployment, v \in Vm :
            Owns(e, v)' => Owns(e, v) \/ (e = d /\ v = FreshVm)
    BY <1>2 DEF Owns, TypeOK
  <1>5. OwnVms'
    BY <1>1, <1>2, <1>3, <1>4 DEF OwnVms, TypeOK
  <1>6. Stages'
    BY <1>2 DEF Stages, Terminal, TypeOK
  <1>7. \A e \in Deployment : Passed(e) => Passed(e)'
    BY <1>2 DEF Passed, TypeOK
  <1>8. OlderRun'
    <2>1. \A e \in Deployment : \A q \in older[e] : q[1] \in Deployment
      BY DEF TypeOK
    <2> QED
      BY <1>2, <1>7, <2>1 DEF OlderRun, TypeOK
  <1>9. \A e \in Deployment : Has(e) => Has(e)'
    BY <1>2 DEF Has, TypeOK
  <1>10. Linked'
    <2>1. \A v \in Vm : row[v] = "deleted" => row'[v] = "deleted"
      BY <1>1, <1>2 DEF TypeOK
    <2>2. \A e \in Deployment : copy[e] # None => copy[e] \in Vm
      BY DEF TypeOK
    <2> QED
      BY <1>1, <1>2, <1>9, <2>1, <2>2, VmAssumption DEF Linked, TypeOK
  <1>11. Order'
    BY <1>2, <1>7 DEF Order, TypeOK
  <1>12. DomainStaysUp'
    BY <1>2, <1>9 DEF DomainStaysUp, DomainUp, Serving, Terminal, Has, TypeOK
  <1> QED
    BY <1>5, <1>6, <1>8, <1>10, <1>11, <1>12

(* Only a deployment that is not serving yet is linked and unlinked.       *)
LEMMA UpLink ==
    ASSUME Up, TypeOK', NEW d \in Deployment, LinkVm(d) \/ LookupVm(d)
    PROVE  Up'
  <1> USE DEF Up
  <1>1. /\ pc[d] \in {"link", "lookup"}
        /\ UNCHANGED <<stamps, row, domain, copy, older, undone>>
    BY DEF LinkVm, LookupVm
  <1>2. \/ /\ pc[d] = "link" /\ pc' = [pc EXCEPT ![d] = "lookup"]
           /\ vmId' = [vmId EXCEPT ![d] = copy[d]]
        \/ /\ pc[d] = "lookup" /\ row[copy[d]] = "deleted"
           /\ pc' = [pc EXCEPT ![d] = "idle"]
           /\ vmId' = [vmId EXCEPT ![d] = None]
        \/ /\ pc[d] = "lookup" /\ row[copy[d]] # "deleted"
           /\ pc' = [pc EXCEPT ![d] = "probe"] /\ vmId' = vmId
    BY DEF LinkVm, LookupVm
  <1>3. ~running[d] /\ (d # domain \/ d \in undone)
    BY <1>1, VmAssumption DEF Stages, DomainStaysUp, DomainUp, Serving
  <1>4. OwnVms'
    <2>1. \A e \in Deployment, v \in Vm : Owns(e, v)' => Owns(e, v)
      BY <1>1, <1>2, VmAssumption DEF Owns, TypeOK
    <2> QED
      BY <1>1, <2>1, OwnVmsKept
  <1>5. Stages'
    BY <1>1, <1>2 DEF Stages, Terminal, TypeOK
  <1>6. \A e \in Deployment : Passed(e) => Passed(e)'
    BY <1>1, <1>2 DEF Passed, TypeOK
  <1>7. OlderRun'
    <2>1. \A e \in Deployment : \A q \in older[e] : q[1] \in Deployment
      BY DEF TypeOK
    <2> QED
      BY <1>1, <1>2, <1>6, <2>1 DEF OlderRun, TypeOK
  <1>8. Linked'
    BY <1>1, <1>2 DEF Linked, Has, TypeOK
  <1>9. Order'
    BY <1>1, <1>2, <1>6 DEF Order, TypeOK
  <1>10. DomainStaysUp'
    <2> SUFFICES ASSUME domain \notin undone \union {None} PROVE DomainUp'
      BY <1>1 DEF DomainStaysUp
    <2>1. domain \in Deployment /\ domain # d /\ DomainUp
      BY <1>3 DEF DomainStaysUp, TypeOK
    <2>2. vmId'[domain] = vmId[domain]
      BY <1>2, <2>1 DEF TypeOK
    <2>3. Serving(domain)' = Serving(domain)
      BY <1>1 DEF Serving, Terminal
    <2>4. domain' = domain /\ row' = row
      BY <1>1
    <2> QED
      BY <2>1, <2>2, <2>3, <2>4 DEF DomainUp
  <1> QED
    BY <1>4, <1>5, <1>7, <1>8, <1>9, <1>10

(* Who comes to run while a newer one is about to look is overtaken.       *)
LEMMA UpMarkRunning ==
    ASSUME Up, TypeOK', NEW d \in Deployment, MarkRunning(d)
    PROVE  Up'
  <1> USE DEF Up
  <1>1. /\ pc[d] = "mark" /\ pc' = [pc EXCEPT ![d] = "point"]
        /\ running' = [running EXCEPT ![d] = TRUE]
        /\ undone' = IF IsOvertaken(d) THEN undone \union {d} ELSE undone
        /\ UNCHANGED <<stopped, failed, vmId, row, domain, copy, older>>
    BY DEF MarkRunning
  <1>2. undone \subseteq undone'
    BY <1>1
  <1>3. OwnVms'
    BY <1>1 DEF OwnVms, Owns
  <1>4. Stages'
    BY <1>1, <1>2 DEF Stages, Terminal, TypeOK
  <1>5. \A e \in Deployment : e # d /\ Passed(e) => Passed(e)'
    BY <1>1, <1>2 DEF Passed, TypeOK
  <1>6. OlderRun'
    <2>1. \A e \in Deployment : \A q \in older[e] : q[1] \in Deployment /\ q[1] # d
      BY <1>1 DEF TypeOK, OlderRun, Stages
    <2> QED
      BY <1>1, <1>5, <2>1 DEF OlderRun, TypeOK
  <1>7. Linked'
    BY <1>1, <1>2 DEF Linked, Has, TypeOK
  <1>8. Order'
    <2> SUFFICES ASSUME NEW e \in Deployment, pc'[e] = "find",
                        NEW c \in Deployment, c < e
                 PROVE  Passed(c)'
      BY DEF Order
    <2>1. pc[e] = "find"
      BY <1>1 DEF TypeOK
    <2>2. CASE c = d
      BY <1>1, <2>1, <2>2 DEF IsOvertaken, Passed
    <2>3. CASE c # d
      BY <1>5, <2>1, <2>3 DEF Order
    <2> QED
      BY <2>2, <2>3
  <1>9. DomainStaysUp'
    BY <1>1, <1>2 DEF DomainStaysUp, DomainUp, Serving, Terminal, TypeOK
  <1> QED
    BY <1>3, <1>4, <1>6, <1>7, <1>8, <1>9

(* The domains move to one that is up, and not to one that is stopped next *)
(* unless it is overtaken.                                                 *)
LEMMA UpPointDomains ==
    ASSUME Up, TypeOK', NEW d \in Deployment, PointDomains(d)
    PROVE  Up'
  <1> USE DEF Up
  <1>1. /\ pc[d] = "point" /\ pc' = [pc EXCEPT ![d] = "find"] /\ domain' = d
        /\ undone' = undone \union Overtaken(d)
        /\ UNCHANGED <<stamps, vmId, row, copy, older>>
    BY DEF PointDomains
  <1>2. undone \subseteq undone'
    BY <1>1
  <1>3. OwnVms'
    BY <1>1 DEF OwnVms, Owns
  <1>4. Stages'
    BY <1>1, <1>2 DEF Stages, Terminal, TypeOK
  <1>5. \A e \in Deployment : Passed(e) => Passed(e)'
    BY <1>1, <1>2 DEF Passed, TypeOK
  <1>6. OlderRun'
    <2>1. \A e \in Deployment : \A q \in older[e] : q[1] \in Deployment
      BY DEF TypeOK
    <2> QED
      BY <1>1, <1>5, <2>1 DEF OlderRun, TypeOK
  <1>7. Linked'
    BY <1>1, <1>2 DEF Linked, Has, TypeOK
  <1>8. Order'
    <2> SUFFICES ASSUME NEW e \in Deployment, pc'[e] = "find",
                        NEW c \in Deployment, c < e
                 PROVE  Passed(c)'
      BY DEF Order
    <2>1. CASE e = d
      <3>1. c # d
        BY <2>1, DeploymentAssumption
      <3>2. pc[c] = "point" => c \in undone'
        BY <1>1, <2>1 DEF Overtaken
      <3> QED
        BY <1>1, <3>1, <3>2 DEF Passed, TypeOK
    <2>2. CASE e # d
      BY <1>1, <1>5, <2>2 DEF Order, TypeOK
    <2> QED
      BY <2>1, <2>2
  <1>9. d \in undone \/ (running[d] /\ ~Terminal(d) /\ Has(d))
    BY <1>1 DEF Stages, Linked
  <1>10. DomainStaysUp'
    BY <1>1, <1>2, <1>9, VmAssumption DEF DomainStaysUp, DomainUp, Serving, Terminal, Has
  <1> QED
    BY <1>3, <1>4, <1>6, <1>7, <1>8, <1>10

LEMMA UpFindOlder ==
    ASSUME Up, TypeOK', NEW d \in Deployment, FindOlder(d)
    PROVE  Up'
  <1> USE DEF Up
  <1>1. /\ pc[d] = "find" /\ pc' = [pc EXCEPT ![d] = "stop"]
        /\ older' = [older EXCEPT ![d] = RunningAndOlder(d)]
        /\ UNCHANGED <<stamps, vmId, row, domain, copy, undone>>
    BY DEF FindOlder
  <1>2. \A r \in RunningAndOlder(d) :
            r[1] \in Deployment /\ r[1] < d /\ running[r[1]] /\ r[2] = vmId[r[1]]
    BY DEF RunningAndOlder, Serving
  <1>3. OwnVms'
    <2>1. \A e \in Deployment, v \in Vm : Owns(e, v)' => Owns(e, v)
      <3> SUFFICES ASSUME NEW e \in Deployment, NEW v \in Vm, Owns(e, v)' PROVE Owns(e, v)
        OBVIOUS
      <3>1. CASE <<e, v>> \in RunningAndOlder(d)
        BY <1>2, <3>1 DEF Owns
      <3>2. CASE <<e, v>> \notin RunningAndOlder(d)
        BY <1>1, <3>2 DEF Owns, TypeOK
      <3> QED
        BY <3>1, <3>2
    <2> QED
      BY <1>1, <2>1, OwnVmsKept
  <1>4. Stages'
    BY <1>1 DEF Stages, Terminal, TypeOK
  <1>5. \A e \in Deployment : Passed(e) => Passed(e)'
    BY <1>1 DEF Passed, TypeOK
  <1>6. OlderRun'
    <2>1. \A e \in Deployment : \A q \in older[e] : q[1] \in Deployment
      BY DEF TypeOK
    <2>2. \A q \in RunningAndOlder(d) : Passed(q[1])
      BY <1>1, <1>2 DEF Order
    <2> QED
      BY <1>1, <1>2, <1>5, <2>1, <2>2 DEF OlderRun, TypeOK
  <1>7. Linked'
    BY <1>1 DEF Linked, Has, TypeOK
  <1>8. Order'
    BY <1>1, <1>5 DEF Order, TypeOK
  <1>9. DomainStaysUp'
    BY <1>1 DEF DomainStaysUp, DomainUp, Serving, Terminal
  <1> QED
    BY <1>3, <1>4, <1>6, <1>7, <1>8, <1>9

(* A failover gives a deployment a new VM for the one it deletes.          *)
LEMMA UpFailover ==
    ASSUME Up, TypeOK', NEW v \in Vm, Failover(v)
    PROVE  Up'
  <1> USE DEF Up
  <1>1. FreshVm \in Vm /\ row[FreshVm] = "unused"
    BY FreshIsUnused DEF Failover
  <1>2. /\ row[v] \in {"made", "up"}
        /\ row' = [row EXCEPT ![v] = "deleted", ![FreshVm] = "made"]
        /\ vmId' = [d \in Deployment |-> IF vmId[d] = v THEN FreshVm ELSE vmId[d]]
        /\ UNCHANGED <<stamps, domain, pc, copy, older, undone>>
    BY DEF Failover
  <1> HIDE DEF FreshVm
  <1>3. \A e \in Deployment : ~Owns(e, FreshVm)
    BY <1>1 DEF OwnVms
  <1>4. \A e \in Deployment, w \in Vm :
            Owns(e, w)' => Owns(e, w) \/ (Owns(e, v) /\ w = FreshVm)
    BY <1>2 DEF Owns
  <1>5. OwnVms'
    BY <1>1, <1>2, <1>3, <1>4 DEF OwnVms, TypeOK
  <1>6. \A e \in Deployment : Has(e) => Has(e)'
    BY <1>1, <1>2, VmAssumption DEF Has, TypeOK
  <1>7. \A w \in Vm : row[w] = "deleted" \/ w = v => row'[w] = "deleted"
    BY <1>1, <1>2 DEF TypeOK
  <1>8. Stages'
    BY <1>2 DEF Stages, Terminal
  <1>9. OlderRun' /\ Order'
    BY <1>2 DEF OlderRun, Order, Passed
  <1>10. Linked'
    <2>1. \A e \in Deployment : copy[e] # None => copy[e] \in Vm
      BY DEF TypeOK
    <2>2. \A e \in Deployment : vmId'[e] = vmId[e] \/ vmId[e] = v
      BY <1>2
    <2> QED
      BY <1>2, <1>6, <1>7, <2>1, <2>2 DEF Linked
  <1>11. DomainStaysUp'
    BY <1>2, <1>6 DEF DomainStaysUp, DomainUp, Serving, Terminal, Has, TypeOK
  <1> QED
    BY <1>5, <1>8, <1>9, <1>10, <1>11

(* A drain undoes the deployment whose VM it deletes, unless its pass will *)
(* look at the row again.                                                  *)
LEMMA UpDropVm ==
    ASSUME Up, TypeOK', NEW v \in Vm, DropVm(v)
    PROVE  Up'
  <1>1. /\ row[v] \in {"made", "up"}
        /\ row' = [row EXCEPT ![v] = "deleted"]
        /\ undone' = undone \union
              {d \in UsersOf(v) : running[d] \/ pc[d] \in {"probe", "mark"}}
        /\ UNCHANGED <<stamps, vmId, domain, pc, copy, older>>
    BY DEF DropVm, VMSoftDelete
  <1>2. ASSUME NEW x \in Deployment, x \notin undone', vmId[x] = v
        PROVE  x # domain /\ pc[x] \notin {"probe", "mark", "point"}
    <2>1. ~running[x] /\ pc[x] \notin {"probe", "mark"} /\ x \notin undone
      BY <1>1, <1>2 DEF UsersOf
    <2> QED
      BY <2>1, VmAssumption DEF Up, Stages, DomainStaysUp, DomainUp, Serving
  <1> QED
    BY <1>1, <1>2, DeleteStep

(* A user undoes the deployment he stops.                                  *)
LEMMA UpUserStops ==
    ASSUME Up, TypeOK', NEW d \in Deployment, UserStops(d)
    PROVE  Up'
  <1> USE DEF Up
  <1>1. /\ stopped' = [stopped EXCEPT ![d] = TRUE] /\ undone' = undone \union {d}
        /\ UNCHANGED <<running, failed, vmId, row, domain, pc, copy, older>>
    BY DEF UserStops
  <1>2. OwnVms'
    BY <1>1 DEF OwnVms, Owns
  <1>3. Stages'
    BY <1>1 DEF Stages, Terminal, TypeOK
  <1>4. \A e \in Deployment : Passed(e) => Passed(e)'
    BY <1>1 DEF Passed
  <1>5. OlderRun' /\ Order'
    <2>1. \A e \in Deployment : \A q \in older[e] : q[1] \in Deployment
      BY DEF TypeOK
    <2> QED
      BY <1>1, <1>4, <2>1 DEF OlderRun, Order
  <1>6. Linked'
    BY <1>1 DEF Linked, Has
  <1>7. DomainStaysUp'
    BY <1>1 DEF DomainStaysUp, DomainUp, Serving, Terminal, TypeOK
  <1> QED
    BY <1>2, <1>3, <1>5, <1>6, <1>7

(* The other steps of a pass, failed statements, crashes, builds, guests.  *)
LEMMA UpOthers ==
    ASSUME Up, TypeOK', NEW d \in Deployment,
           \/ CreateBuild(d) \/ LinkBuild(d) \/ AwaitBuild(d) \/ BuildReady(d)
           \/ Probe(d) \/ EndPass(d) \/ StatementFails(d)
    PROVE  Up'
  <1>0. TypeOK /\ OlderRun
    BY DEF Up
  <1>1. UNCHANGED <<stamps, vmId, copy, domain, undone, row>>
    BY DEF CreateBuild, LinkBuild, AwaitBuild, BuildReady, Probe, EndPass, StatementFails
  <1> DEFINE Quiet(e) ==
        \/ pc'[e] = pc[e] /\ older'[e] = older[e]
        \/ pc'[e] = "idle" /\ older'[e] = {}
        \/ pc'[e] = "attach" /\ pc[e] = "build" /\ older'[e] = older[e]
        \/ pc'[e] = "build" /\ pc[e] = "attach" /\ older'[e] = older[e]
        \/ pc'[e] = "vm" /\ pc[e] = "build" /\ older'[e] = older[e]
        \/ pc'[e] = "stop" /\ pc[e] \in {"stop", "stamp"} /\ older'[e] \subseteq older[e]
        \/ pc'[e] = "lookup" /\ pc[e] = "build" /\ copy[e] # None /\ older'[e] = older[e]
        \/ pc'[e] = "mark" /\ pc[e] = "probe" /\ older'[e] = older[e]
  <1>2. CASE CreateBuild(d) \/ LinkBuild(d) \/ AwaitBuild(d) \/ BuildReady(d)
    <2>1. \A e \in Deployment : Quiet(e)
      BY <1>0, <1>2 DEF CreateBuild, LinkBuild, AwaitBuild, BuildReady, TypeOK, OlderRun
    <2> QED
      BY <1>1, <2>1, QuietStep
  <1>3. CASE Probe(d)
    <2>1. \A e \in Deployment : Quiet(e)
      BY <1>0, <1>3 DEF Probe, TypeOK, OlderRun
    <2> QED
      BY <1>1, <2>1, QuietStep
  <1>4. CASE EndPass(d)
    <2>1. \A e \in Deployment : Quiet(e)
      BY <1>0, <1>4 DEF EndPass, TypeOK
    <2> QED
      BY <1>1, <2>1, QuietStep
  <1>5. CASE StatementFails(d)
    <2> DEFINE skips == pc[d] \in {"stop", "stamp"} /\ older[d] # {}
    <2>1. CASE skips
      <3>1. /\ pc' = [pc EXCEPT ![d] = "stop"]
            /\ older' = [older EXCEPT ![d] = {r \in @ : ~NextOlder(d, r)}]
        BY <1>5, <2>1 DEF StatementFails
      <3>2. \A e \in Deployment : Quiet(e)
        BY <1>0, <2>1, <3>1 DEF TypeOK
      <3> QED
        BY <1>1, <3>2, QuietStep
    <2>2. CASE ~skips
      <3>1. pc' = [pc EXCEPT ![d] = "idle"] /\ older' = older
        BY <1>5, <2>2 DEF StatementFails
      <3>2. older[d] = {}
        BY <1>0, <2>2 DEF OlderRun
      <3>3. \A e \in Deployment : Quiet(e)
        BY <1>0, <3>1, <3>2 DEF TypeOK
      <3> QED
        BY <1>1, <3>3, QuietStep
    <2> QED
      BY <2>1, <2>2
  <1> QED
    BY <1>2, <1>3, <1>4, <1>5

LEMMA UpAround ==
    ASSUME Up, TypeOK',
           \/ Crash \/ (\E v \in Vm : GuestAnswers(v))
           \/ (\E d \in Deployment : BuildEnds(d)) \/ UNCHANGED vars
    PROVE  Up'
  <1>1. UNCHANGED <<stamps, vmId, copy, domain, undone>>
    BY DEF Crash, GuestAnswers, BuildEnds, vars
  <1>2. \A v \in Vm : /\ row[v] # "unused" => row'[v] # "unused"
                      /\ row[v] = "deleted" <=> row'[v] = "deleted"
    <2>1. row' = row \/ \E v \in Vm : row[v] = "made" /\ row' = [row EXCEPT ![v] = "up"]
      BY DEF Crash, GuestAnswers, BuildEnds, vars
    <2> QED
      BY <2>1 DEF Up, TypeOK
  <1>3. \A e \in Deployment : \/ pc'[e] = pc[e] /\ older'[e] = older[e]
                              \/ pc'[e] = "idle" /\ older'[e] = {}
    BY DEF Crash, GuestAnswers, BuildEnds, vars
  <1> QED
    BY <1>1, <1>2, <1>3, QuietStep

LEMMA UpStep == Up /\ [Next]_vars => Up'
  <1> SUFFICES ASSUME Up, [Next]_vars PROVE Up'
    OBVIOUS
  <1>1. TypeOK'
    BY TypeStep DEF Up
  <1>2. ASSUME NEW d \in Deployment, Pass(d) PROVE Up'
    BY <1>1, <1>2, UpBeginPass, UpRetire, UpBuildFailed, UpVMCreate, UpLink, UpMarkRunning,
       UpPointDomains, UpFindOlder, UpStopVm, UpMarkStopped, UpOthers DEF Pass
  <1> QED
    BY <1>1, <1>2, UpFailover, UpDropVm, UpUserStops, UpOthers, UpAround DEF Next

(* deployment.go:181-273: whatever fails or crashes while deployments come *)
(* up and stop each other, and whatever VMs are replaced or lost, the      *)
(* domains point to a deployment that is up, or to one that a user has     *)
(* stopped, that has lost its VM, or that was overtaken itself.            *)
THEOREM NoDowntime == Spec => []DomainStaysUp
  <1>1. Up => DomainStaysUp
    BY DEF Up
  <1> QED
    BY InitUp, UpStep, <1>1, PTL DEF Spec

-----------------------------------------------------------------------------
(* A pass that makes a VM has none, so the link it makes hides no other.   *)
NoneYet ==
    \A d \in Deployment :
        /\ pc[d] \in {"build", "attach"} /\ copy[d] = None => vmId[d] = None
        /\ pc[d] \in {"vm", "link"} => vmId[d] = None

Accounted == TypeOK /\ NoneYet /\ NoVmLeak

LEMMA InitAccounted == Init => Accounted
  <1> SUFFICES ASSUME Init PROVE Accounted
    OBVIOUS
  <1>1. TypeOK
    BY InitType
  <1>2. NoneYet
    BY DEF Init, NoneYet
  <1>3. NoVmLeak
    BY DeploymentAssumption DEF Init, NoVmLeak, UsersOf
  <1> QED
    BY <1>1, <1>2, <1>3 DEF Accounted

LEMMA NoneYetStep == TypeOK /\ NoneYet /\ [Next]_vars => NoneYet'
  <1> SUFFICES ASSUME TypeOK, NoneYet, [Next]_vars PROVE NoneYet'
    OBVIOUS
  <1> USE DEF NoneYet, TypeOK
  <1>1. ASSUME NEW d \in Deployment, Pass(d) PROVE NoneYet'
    <2>1. CASE BeginPass(d)
      BY <2>1 DEF BeginPass
    <2>2. CASE CreateBuild(d) \/ LinkBuild(d) \/ BuildReady(d)
      BY <2>2 DEF CreateBuild, LinkBuild, BuildReady
    <2>3. CASE VMCreate(d)
      BY <2>3 DEF VMCreate
    <2>4. CASE LinkVm(d) \/ LookupVm(d)
      BY <2>4 DEF LinkVm, LookupVm
    <2>5. CASE \/ Retire(d) \/ AwaitBuild(d) \/ BuildFailed(d) \/ Probe(d) \/ MarkRunning(d)
               \/ PointDomains(d) \/ FindOlder(d) \/ EndPass(d)
               \/ (\E r \in older[d] : StopVm(d, r)) \/ (\E r \in older[d] : MarkStopped(d, r))
      <3>1. UNCHANGED <<vmId, copy>>
        BY <2>5 DEF Retire, AwaitBuild, BuildFailed, Probe, MarkRunning, PointDomains,
                    FindOlder, EndPass, StopVm, MarkStopped
      <3>2. \E l : l \notin {"build", "attach", "vm", "link"} /\ pc' = [pc EXCEPT ![d] = l]
        BY <2>5 DEF Retire, AwaitBuild, BuildFailed, Probe, MarkRunning, PointDomains,
                    FindOlder, EndPass, StopVm, MarkStopped
      <3> QED
        BY <3>1, <3>2
    <2> QED
      BY <1>1, <2>1, <2>2, <2>3, <2>4, <2>5 DEF Pass
  <1>2. ASSUME NEW d \in Deployment, StatementFails(d) PROVE NoneYet'
    BY <1>2 DEF StatementFails
  <1>3. ASSUME NEW v \in Vm, Failover(v) PROVE NoneYet'
    BY <1>3, VmAssumption DEF Failover
  <1>4. CASE Crash
    BY <1>4 DEF Crash
  <1>5. CASE \/ (\E d \in Deployment : BuildEnds(d) \/ UserStops(d))
             \/ (\E v \in Vm : GuestAnswers(v) \/ DropVm(v)) \/ UNCHANGED vars
    BY <1>5 DEF BuildEnds, UserStops, GuestAnswers, DropVm, vars
  <1> QED
    BY <1>1, <1>2, <1>3, <1>4, <1>5 DEF Next

(* Steps that make no VM, cut no link and end no pass before one.          *)
LEMMA KeptStep ==
    ASSUME NoVmLeak, vmId' = vmId, stray \subseteq stray',
           \A v \in Vm : row'[v] \in {"made", "up"} => row[v] \in {"made", "up"},
           \A d \in Deployment : pc[d] = "link" =>
               copy[d] \in stray' \/ (pc'[d] = "link" /\ copy'[d] = copy[d])
    PROVE  NoVmLeak'
  BY DEF NoVmLeak, UsersOf

LEMMA NoVmLeakStep == Accounted /\ [Next]_vars => NoVmLeak'
  <1> SUFFICES ASSUME Accounted, [Next]_vars PROVE NoVmLeak'
    OBVIOUS
  <1>0. TypeOK /\ NoneYet /\ NoVmLeak
    BY DEF Accounted
  <1>1. ASSUME NEW d \in Deployment, VMCreate(d) PROVE NoVmLeak'
    <2>1. FreshVm \in Vm /\ row[FreshVm] = "unused"
      BY <1>1, FreshIsUnused DEF VMCreate
    <2>2. /\ pc[d] = "vm" /\ pc' = [pc EXCEPT ![d] = "link"]
          /\ row' = [row EXCEPT ![FreshVm] = "made"]
          /\ copy' = [copy EXCEPT ![d] = FreshVm]
          /\ UNCHANGED <<vmId, stray>>
      BY <1>1 DEF VMCreate
    <2> HIDE DEF FreshVm
    <2> QED
      BY <1>0, <2>1, <2>2 DEF NoVmLeak, UsersOf, TypeOK
  <1>2. ASSUME NEW d \in Deployment, LinkVm(d) PROVE NoVmLeak'
    <2>1. /\ pc[d] = "link" /\ vmId' = [vmId EXCEPT ![d] = copy[d]]
          /\ pc' = [pc EXCEPT ![d] = "lookup"]
          /\ UNCHANGED <<row, copy, stray>>
      BY <1>2 DEF LinkVm
    <2>2. vmId[d] = None
      BY <1>0, <2>1 DEF NoneYet
    <2> QED
      BY <1>0, <2>1, <2>2, VmAssumption DEF NoVmLeak, UsersOf, TypeOK
  <1>3. ASSUME NEW d \in Deployment, LookupVm(d) PROVE NoVmLeak'
    <2>1. CASE row[copy[d]] = "deleted"
      <3>1. /\ pc[d] = "lookup" /\ vmId' = [vmId EXCEPT ![d] = None]
            /\ stray' = stray \union ({vmId[d]} \ {None, copy[d]})
            /\ pc' = [pc EXCEPT ![d] = "idle"]
            /\ UNCHANGED <<row, copy>>
        BY <1>3, <2>1 DEF LookupVm
      <3> QED
        BY <1>0, <2>1, <3>1, VmAssumption DEF NoVmLeak, UsersOf, TypeOK
    <2>2. CASE row[copy[d]] # "deleted"
      <3>1. /\ pc[d] = "lookup" /\ pc' = [pc EXCEPT ![d] = "probe"]
            /\ UNCHANGED <<row, copy, vmId, stray>>
        BY <1>3, <2>2 DEF LookupVm
      <3> QED
        BY <1>0, <3>1, KeptStep DEF TypeOK
    <2> QED
      BY <2>1, <2>2
  <1>4. ASSUME NEW v \in Vm, Failover(v) PROVE NoVmLeak'
    <2>1. FreshVm \in Vm /\ row[FreshVm] = "unused"
      BY <1>4, FreshIsUnused DEF Failover
    <2>2. /\ row' = [row EXCEPT ![v] = "deleted", ![FreshVm] = "made"]
          /\ vmId' = [d \in Deployment |-> IF vmId[d] = v THEN FreshVm ELSE vmId[d]]
          /\ stray' = IF UsersOf(v) = {} THEN stray \union {FreshVm} ELSE stray
          /\ row[v] # "unused"
          /\ UNCHANGED <<pc, copy>>
      BY <1>4 DEF Failover
    <2> HIDE DEF FreshVm
    <2> SUFFICES ASSUME NEW w \in Vm, row'[w] \in {"made", "up"}
                 PROVE  \/ UsersOf(w)' # {}
                        \/ \E d \in Deployment : pc'[d] = "link" /\ copy'[d] = w
                        \/ w \in stray'
      BY DEF NoVmLeak
    <2>3. CASE w = FreshVm
      BY <1>0, <2>2, <2>3 DEF UsersOf, TypeOK
    <2>4. CASE w # FreshVm
      <3>1. w # v /\ row[w] \in {"made", "up"}
        BY <1>0, <2>1, <2>2, <2>4 DEF TypeOK
      <3>2. UsersOf(w) \subseteq UsersOf(w)'
        BY <2>2, <3>1 DEF UsersOf
      <3>3. stray \subseteq stray'
        BY <2>2
      <3> QED
        BY <1>0, <2>2, <3>1, <3>2, <3>3 DEF NoVmLeak
    <2> QED
      BY <2>3, <2>4
  <1>5. ASSUME NEW d \in Deployment, StatementFails(d) PROVE NoVmLeak'
    <2>1. /\ UNCHANGED <<vmId, row, copy>> /\ stray' = stray \union Unlinked(d)
          /\ pc' = [pc EXCEPT ![d] = "stop"] \/ pc' = [pc EXCEPT ![d] = "idle"]
      BY <1>5 DEF StatementFails
    <2> QED
      BY <1>0, <2>1, KeptStep DEF Unlinked, TypeOK
  <1>6. CASE Crash
    <2>1. /\ UNCHANGED <<vmId, row>>
          /\ stray' = stray \union UNION {Unlinked(d) : d \in Deployment}
      BY <1>6 DEF Crash
    <2>2. \A d \in Deployment : pc[d] = "link" => copy[d] \in stray'
      BY <2>1 DEF Unlinked
    <2> QED
      BY <1>0, <2>1, <2>2, KeptStep
  <1>7. ASSUME NEW d \in Deployment, Pass(d), ~VMCreate(d), ~LinkVm(d), ~LookupVm(d)
        PROVE  NoVmLeak'
    <2>1. vmId' = vmId /\ stray' = stray
      BY <1>7 DEF Pass, BeginPass, Retire, CreateBuild, LinkBuild, AwaitBuild, BuildFailed,
         BuildReady, Probe, MarkRunning, PointDomains, FindOlder, StopVm, MarkStopped, EndPass
    <2>2. row' = row \/ \E w : row' = [row EXCEPT ![w] = "deleted"]
      BY <1>7 DEF Pass, BeginPass, Retire, CreateBuild, LinkBuild, AwaitBuild, BuildFailed,
         BuildReady, Probe, MarkRunning, PointDomains, FindOlder, StopVm, MarkStopped, EndPass,
         VMSoftDelete
    <2>3. pc[d] # "link" /\ (copy' = copy \/ copy' = [copy EXCEPT ![d] = vmId[d]])
      BY <1>7 DEF Pass, BeginPass, Retire, CreateBuild, LinkBuild, AwaitBuild, BuildFailed,
         BuildReady, Probe, MarkRunning, PointDomains, FindOlder, StopVm, MarkStopped, EndPass
    <2>4. \E l : pc' = [pc EXCEPT ![d] = l]
      BY <1>7 DEF Pass, BeginPass, Retire, CreateBuild, LinkBuild, AwaitBuild, BuildFailed,
         BuildReady, Probe, MarkRunning, PointDomains, FindOlder, StopVm, MarkStopped, EndPass
    <2>5. \A v \in Vm : row'[v] \in {"made", "up"} => row[v] \in {"made", "up"}
      BY <1>0, <2>2 DEF TypeOK
    <2>6. \A e \in Deployment : pc[e] = "link" => pc'[e] = "link" /\ copy'[e] = copy[e]
      BY <1>0, <2>3, <2>4 DEF TypeOK
    <2> QED
      BY <1>0, <2>1, <2>5, <2>6, KeptStep
  <1>8. ASSUME NEW v \in Vm, GuestAnswers(v) \/ DropVm(v) PROVE NoVmLeak'
    <2>1. UNCHANGED <<vmId, pc, copy, stray>>
      BY <1>8 DEF GuestAnswers, DropVm
    <2>2. \A w \in Vm : row'[w] \in {"made", "up"} => row[w] \in {"made", "up"}
      BY <1>0, <1>8 DEF GuestAnswers, DropVm, VMSoftDelete, TypeOK
    <2> QED
      BY <1>0, <2>1, <2>2, KeptStep
  <1>9. CASE (\E d \in Deployment : BuildEnds(d) \/ UserStops(d)) \/ UNCHANGED vars
    <2>1. UNCHANGED <<vmId, row, pc, copy, stray>>
      BY <1>9 DEF BuildEnds, UserStops, vars
    <2> QED
      BY <1>0, <2>1, KeptStep
  <1> QED
    BY <1>1, <1>2, <1>3, <1>4, <1>5, <1>6, <1>7, <1>8, <1>9 DEF Next

(* deployment.go:124-171: for any deployments, VMs and faults, every VM    *)
(* that is not deleted is linked, about to be, or one of the strays.       *)
THEOREM NothingLeaks == Spec => []NoVmLeak
  <1>1. Accounted /\ [Next]_vars => Accounted'
    BY TypeStep, NoneYetStep, NoVmLeakStep DEF Accounted
  <1>2. Accounted => NoVmLeak
    BY DEF Accounted
  <1> QED
    BY InitAccounted, <1>1, <1>2, PTL DEF Spec
=============================================================================
