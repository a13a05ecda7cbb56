-------------------------- MODULE EdgeProxyProofs --------------------------
(***************************************************************************)
(* For any names, rows, proxies and bounds, what an edge proxy serves and  *)
(* with which certificate:                                                 *)
(*                                                                         *)
(*   - no announced change is forgotten by the channel of capacity one,    *)
(*     the debounce timer and the loads (module EdgeRoutes);               *)
(*   - the lock of a certificate is exclusive until some client is late,   *)
(*     and is a lease lock (module CertLock), also as the proxies use it   *)
(*     (module Certificates);                                              *)
(*   - two rows of one name are never verified at once, but for a row that *)
(*     is added again between the list and the mark of its own pass, and   *)
(*     one whose name was generated twice (module DomainVerify).           *)
(***************************************************************************)
EXTENDS Certificates, EdgeRoutes, TLAPS

-----------------------------------------------------------------------------
(* The route table.                                                        *)

(* A VM that is found behind a name is one.                                *)
LEMMA VmBehindType ==
    RoutesTypeOK => \A n \in Name : VmBehind(n) \in Vm \union {None}
  <1> SUFFICES ASSUME RoutesTypeOK, NEW n \in Name
               PROVE  VmBehind(n) \in Vm \union {None}
    OBVIOUS
  <1>1. target[n] # None => vmId[target[n]] \in Vm \union {None}
    BY DEF RoutesTypeOK
  <1> QED
    BY <1>1 DEF VmBehind

(* What a load reads is a table, whatever the rows say.                    *)
LEMMA ReadsTable == RoutesTypeOK => RouteFindActive \in Table
  <1> SUFFICES ASSUME RoutesTypeOK PROVE RouteFindActive \in Table
    OBVIOUS
  <1>1. \A n \in Name : VmBehind(n) \in Vm \union {None}
    BY VmBehindType
  <1>2. ASSUME NEW n \in Name
        PROVE  (IF n \notin routable THEN "not found"
                ELSE IF n \in redirect THEN "redirect"
                ELSE IF VmBehind(n) # None THEN VmBehind(n) ELSE "not found") \in Route
    BY <1>1 DEF Route
  <1> QED
    BY <1>2 DEF RouteFindActive, Table

(* The rows that exist when the process starts, apart from the table.      *)
LEMMA InitRows ==
    RoutesInit => /\ target \in [Name -> Deployment \union {None}]
            /\ vmId \in [Deployment -> Vm \union {None}]
            /\ alive \subseteq Vm
  <1> SUFFICES ASSUME RoutesInit
               PROVE  /\ target \in [Name -> Deployment \union {None}]
                      /\ vmId \in [Deployment -> Vm \union {None}]
                      /\ alive \subseteq Vm
    OBVIOUS
  <1>1. vmId \in [Deployment -> Vm]
    BY VmAssumption DEF RoutesInit
  <1> QED
    BY <1>1 DEF RoutesInit

(* The process starts with good types and nothing announced.               *)
LEMMA RoutesInitType == RoutesInit => RoutesTypeOK /\ NotificationKept
  <1> SUFFICES ASSUME RoutesInit PROVE RoutesTypeOK /\ NotificationKept
    OBVIOUS
  <1>1. \A n \in Name : VmBehind(n) \in Vm \union {None}
    <2>1. ASSUME NEW n \in Name PROVE VmBehind(n) \in Vm \union {None}
      <3>1. target[n] # None => vmId[target[n]] \in Vm \union {None}
        BY InitRows DEF RoutesInit
      <3> QED
        BY <3>1 DEF VmBehind
    <2> QED
      BY <2>1
  <1>2. RouteFindActive \in Table
    BY <1>1 DEF RouteFindActive, Table, Route
  <1>3. Nothing \in Table
    BY DEF Nothing, Table, Route
  <1>4. load \in [Loader -> Table \union {NoLoad}]
    BY DEF RoutesInit
  <1>5. changes \in 0 .. MaxChanges /\ events \in Nat
    BY BoundAssumption DEF RoutesInit
  <1>6. NotificationKept
    BY DEF RoutesInit, NotificationKept
  <1> QED
    BY <1>2, <1>3, <1>4, <1>5, <1>6, InitRows DEF RoutesInit, RoutesTypeOK

(* A load that begins keeps the types.                                     *)
LEMMA ReadStep ==
    ASSUME RoutesTypeOK, NEW l \in Loader, Read(l)
    PROVE  RoutesTypeOK'
  <1>1. RouteFindActive \in Table
    BY ReadsTable
  <1>2. load' \in [Loader -> Table \union {NoLoad}]
    BY <1>1 DEF RoutesTypeOK, Read
  <1> QED
    BY <1>2 DEF RoutesTypeOK, Read, rows

(* Every step keeps the types.                                             *)
LEMMA RoutesTypeStep ==
    RoutesTypeOK /\ [RoutesNext]_routesVars => RoutesTypeOK'
  <1> SUFFICES ASSUME RoutesTypeOK, [RoutesNext]_routesVars PROVE RoutesTypeOK'
    OBVIOUS
  <1>1. CASE Change
    <2> USE <1>1 DEF RoutesTypeOK, Change
    <2>1. /\ target' \in [Name -> Deployment \union {None}]
          /\ routable' \subseteq Name /\ redirect' \subseteq Name
          /\ serving' \subseteq Deployment
          /\ vmId' \in [Deployment -> Vm \union {None}]
          /\ alive' \subseteq Vm
      BY DEF PointTo, SetRedirect, RemoveName, StopDeployment, ReplaceVm
    <2>2. changes' \in 0 .. MaxChanges
      BY BoundAssumption
    <2>3. events' \in Nat
      BY BoundAssumption
    <2> QED
      BY <2>1, <2>2, <2>3
  <1>2. CASE Notify
    BY <1>2, BoundAssumption DEF RoutesTypeOK, Notify, rows
  <1>3. CASE ListenerEnds
    BY <1>3, BoundAssumption
    DEF RoutesTypeOK, ListenerEnds, RoutesSuffer, FailureKind, rows
  <1>4. CASE Receive
    BY <1>4 DEF RoutesTypeOK, Receive, rows
  <1>5. ASSUME NEW g \in Goroutine, TimerFires(g) PROVE RoutesTypeOK'
    BY <1>5 DEF RoutesTypeOK, TimerFires, rows
  <1>6. CASE FallbackPoll \/ \E g \in Goroutine : TimerLoads(g)
    BY <1>6, ReadStep DEF FallbackPoll, TimerLoads, Loader
  <1>7. ASSUME NEW l \in Loader, StoreRoutes(l) PROVE RoutesTypeOK'
    BY <1>7 DEF RoutesTypeOK, StoreRoutes, rows
  <1>8. ASSUME NEW l \in Loader, LoadFails(l) PROVE RoutesTypeOK'
    BY <1>8 DEF RoutesTypeOK, LoadFails, RoutesSuffer, FailureKind, rows
  <1>9. CASE UNCHANGED routesVars
    BY <1>9 DEF RoutesTypeOK, routesVars, rows
  <1> QED
    BY <1>1, <1>2, <1>3, <1>4, <1>5, <1>6, <1>7, <1>8, <1>9 DEF RoutesNext

(* A token leaves the channel only into the timer, the timer fires only    *)
(* into a goroutine, and that reads or fails.                              *)
LEMMA KeptStep ==
    NotificationKept /\ [RoutesNext]_routesVars => NotificationKept'
  <1> SUFFICES ASSUME NotificationKept, [RoutesNext]_routesVars
               PROVE  NotificationKept'
    OBVIOUS
  <1> USE DEF NotificationKept
  <1>1. CASE Change \/ Notify \/ ListenerEnds
    BY <1>1 DEF Change, Notify, ListenerEnds
  <1>2. CASE Receive
    BY <1>2 DEF Receive
  <1>3. CASE FallbackPoll \/ \E g \in Goroutine : TimerFires(g) \/ TimerLoads(g)
    BY <1>3 DEF FallbackPoll, TimerFires, TimerLoads, Read
  <1>4. CASE \E l \in Loader : StoreRoutes(l) \/ LoadFails(l)
    <2>1. CASE \E l \in Loader : StoreRoutes(l)
      BY <2>1 DEF StoreRoutes
    <2>2. CASE \E l \in Loader : LoadFails(l)
      BY <2>2 DEF LoadFails
    <2> QED
      BY <1>4, <2>1, <2>2
  <1>5. CASE UNCHANGED routesVars
    BY <1>5 DEF routesVars
  <1> QED
    BY <1>1, <1>2, <1>3, <1>4, <1>5 DEF RoutesNext

(* The route table and the loads under way are tables of routes.           *)
THEOREM RoutesTypeCorrect == RoutesSpec => []RoutesTypeOK
  BY RoutesInitType, RoutesTypeStep, PTL DEF RoutesSpec

(* edgeproxy.go:250-285: a change that was announced is on its way to a    *)
(* query that reads after it, unless that query has failed.                *)
THEOREM AnnouncedIsRead == RoutesSpec => []NotificationKept
  BY RoutesInitType, KeptStep, PTL DEF RoutesSpec

-----------------------------------------------------------------------------
(* The lock of a certificate, by itself.                                   *)

(* The initial state satisfies the inductive invariant.                    *)
LEMMA LockInit == Locks!Init => Locks!Inv
  BY DEF Locks!Init, Locks!Inv, Locks!TypeOK, Locks!MutualExclusion,
         Locks!RowIsKept

(* Every step keeps it: only Lock adds a client, and only when the row is  *)
(* not ahead, which RowIsKept says is never the case while an on-time      *)
(* client works.                                                           *)
LEMMA LockStep == Locks!Inv /\ [Locks!Next]_(Locks!vars) => Locks!Inv'
  <1> SUFFICES ASSUME Locks!Inv, [Locks!Next]_(Locks!vars) PROVE Locks!Inv'
    OBVIOUS
  <1> USE DEF Locks!Inv, Locks!TypeOK, Locks!MutualExclusion, Locks!RowIsKept
  <1>1. ASSUME NEW c \in Edge, Locks!Lock(c) PROVE Locks!Inv'
    <2>1. ~lapsed => working = {}
      BY <1>1 DEF Locks!Lock, Locks!Free
    <2>2. Locks!TypeOK'
      BY <1>1 DEF Locks!Lock
    <2>3. Locks!MutualExclusion' /\ Locks!RowIsKept'
      BY <1>1, <2>1 DEF Locks!Lock
    <2> QED
      BY <2>2, <2>3
  <1>2. ASSUME NEW c \in Edge, Locks!Unlock(c) PROVE Locks!Inv'
    <2>1. Locks!TypeOK'
      BY <1>2 DEF Locks!Unlock
    <2>2. Locks!MutualExclusion'
      BY <1>2 DEF Locks!Unlock
    <2>3. Locks!RowIsKept'
      BY <1>2 DEF Locks!Unlock
    <2> QED
      BY <2>1, <2>2, <2>3
  <1>3. ASSUME NEW c \in Edge, Locks!Die(c) PROVE Locks!Inv'
    <2>1. Locks!TypeOK' /\ Locks!MutualExclusion'
      BY <1>3 DEF Locks!Die
    <2>2. Locks!RowIsKept'
      BY <1>3 DEF Locks!Die
    <2> QED
      BY <2>1, <2>2
  <1>4. CASE Locks!Expire
    BY <1>4 DEF Locks!Expire
  <1>5. CASE UNCHANGED Locks!vars \/ \E c \in Edge : Locks!LockRefused(c)
    BY <1>5 DEF Locks!LockRefused, Locks!vars
  <1> QED
    BY <1>1, <1>2, <1>3, <1>4, <1>5 DEF Locks!Next

(* Lock and Unlock keep the inductive invariant.                           *)
LEMMA LockInvariance == Locks!Spec => []Locks!Inv
  BY LockInit, LockStep, PTL DEF Locks!Spec

(* The row's time is one of three, only clients work, lapsed is a Boolean. *)
THEOREM LockTypeCorrect == Locks!Spec => []Locks!TypeOK
  <1>1. Locks!Inv => Locks!TypeOK
    BY DEF Locks!Inv
  <1> QED
    BY LockInvariance, <1>1, PTL

(* Two proxies order one certificate at once only after one was late.      *)
THEOREM Exclusive == Locks!Spec => []Locks!MutualExclusion
  <1>1. Locks!Inv => Locks!MutualExclusion
    BY DEF Locks!Inv
  <1> QED
    BY LockInvariance, <1>1, PTL

(* A step of the lock is a step of the lease lock, or changes neither who  *)
(* works nor whether somebody was late.                                    *)
LEMMA LockStepRefines ==
    Locks!Inv /\ [Locks!Next]_(Locks!vars) => [Locks!Lease!Next]_(Locks!Lease!vars)
  <1> SUFFICES ASSUME Locks!Inv, [Locks!Next]_(Locks!vars)
               PROVE  [Locks!Lease!Next]_(Locks!Lease!vars)
    OBVIOUS
  <1> USE DEF Locks!Inv, Locks!TypeOK
  <1>1. ASSUME NEW c \in Edge, Locks!Lock(c) PROVE Locks!Lease!Acquire(c)
    <2>1. working = {} \/ lapsed
      BY <1>1 DEF Locks!Lock, Locks!Free, Locks!RowIsKept
    <2> QED
      BY <1>1, <2>1 DEF Locks!Lock, Locks!Lease!Acquire
  <1>2. ASSUME NEW c \in Edge, Locks!Unlock(c) PROVE Locks!Lease!Release(c)
    BY <1>2 DEF Locks!Unlock, Locks!Lease!Release
  <1>3. ASSUME NEW c \in Edge, Locks!Die(c) PROVE Locks!Lease!Release(c)
    BY <1>3 DEF Locks!Die, Locks!Lease!Release
  <1>4. CASE Locks!Expire
    <2>1. CASE working = {}
      BY <1>4, <2>1 DEF Locks!Expire, Locks!Lease!vars
    <2>2. CASE working # {}
      BY <1>4, <2>2 DEF Locks!Expire, Locks!Lease!Outstay, Locks!Lease!Next
    <2> QED
      BY <2>1, <2>2
  <1>5. CASE UNCHANGED Locks!vars \/ \E c \in Edge : Locks!LockRefused(c)
    BY <1>5 DEF Locks!LockRefused, Locks!vars, Locks!Lease!vars
  <1> QED
    BY <1>1, <1>2, <1>3, <1>4, <1>5 DEF Locks!Next, Locks!Lease!Next

(* The certificate lock implements the lease lock.                         *)
THEOREM LockImplementsLease == Locks!Spec => Locks!LeaseSpec
  <1>1. Locks!Init => Locks!Lease!Init
    BY DEF Locks!Init, Locks!Lease!Init
  <1> QED
    BY LockInvariance, LockStepRefines, <1>1, PTL
    DEF Locks!Spec, Locks!LeaseSpec, Locks!Lease!Spec

-----------------------------------------------------------------------------
(* The proxies take, give back, lose and outlast the lock as its clients.  *)
LEMMA ProxiesUseLock == [Next]_vars => [Locks!Next]_(Locks!vars)
  <1> SUFFICES ASSUME [Next]_vars PROVE [Locks!Next]_(Locks!vars)
    OBVIOUS
  <1>1. CASE UNCHANGED lockVars
    BY <1>1 DEF lockVars, Locks!vars
  <1>2. ASSUME NEW e \in Edge, Lock(e) \/ LockRefused(e) \/ Unlock(e) \/ Die(e)
        PROVE  Locks!Next
    BY <1>2 DEF Lock, LockRefused, Unlock, Die, Locks!Next
  <1>3. CASE Expire
    BY <1>3 DEF Expire, Locks!Next
  <1> QED
    BY <1>1, <1>2, <1>3 DEF Next, Handshake, Decide, Order, vars

(* Handshakes keep to the lock of the name, which is a lease lock.         *)
THEOREM CertificateLease == Spec => LeaseSpec
  <1>1. Init => Locks!Init
    BY DEF Init
  <1>2. Spec => Locks!Spec
    BY <1>1, ProxiesUseLock, PTL DEF Spec, Locks!Spec
  <1> QED
    BY <1>2, LockImplementsLease DEF LeaseSpec

-----------------------------------------------------------------------------
(* The rows of a name.  A pass that is about to verify its row excludes    *)
(* the others before, by the list of rows it has still to delete.          *)
Claims(d) == verified[d] \/ pc[d] = "delete"

(* A row is not verified before its pass ends, and a row that is not there *)
(* has neither a pass nor a mark.                                          *)
PassOrder ==
    \A d \in Domain :
        /\ row[d] = "absent" => pc[d] = "idle" /\ ~verified[d]
        /\ pc[d] = "resolve" => copy[d].verified \/ ~verified[d]
        /\ pc[d] \in {"find", "delete"} => ~verified[d]

(* Of two active rows that claim the name, one's pass will delete the      *)
(* other.                                                                  *)
OneGivesWay ==
    \A c, d \in Domains!Active \ unchecked : c # d /\ Claims(c) /\ Claims(d) =>
        \/ pc[d] = "delete" /\ c \in conflicts[d]
        \/ pc[c] = "delete" /\ d \in conflicts[c]

NameInv == PassOrder /\ OneGivesWay

(* The rows and the passes over them keep their types.                     *)
LEMMA DomainTypeStep ==
    Domains!TypeOK /\ [Domains!Next]_(Domains!vars) => Domains!TypeOK'
  <1> SUFFICES ASSUME Domains!TypeOK, [Domains!Next]_(Domains!vars)
               PROVE  Domains!TypeOK'
    OBVIOUS
  <1> USE DEF Domains!TypeOK, Domains!Copy, Domains!Blank, Domains!rows, Domains!dns,
              Domains!locals, Domains!Goto, Domains!EndPass
  <1>1. ASSUME NEW d \in Domain, Domains!BeginPass(d) PROVE Domains!TypeOK'
    BY <1>1 DEF Domains!BeginPass
  <1>2. ASSUME NEW d \in Domain, Domains!Resolve(d) PROVE Domains!TypeOK'
    BY <1>2 DEF Domains!Resolve
  <1>3. ASSUME NEW d \in Domain, Domains!NothingToDo(d) PROVE Domains!TypeOK'
    BY <1>3 DEF Domains!NothingToDo
  <1>4. ASSUME NEW d \in Domain, Domains!FindConflicts(d) PROVE Domains!TypeOK'
    BY <1>4 DEF Domains!FindConflicts, Domains!Others, Domains!Active
  <1>5. ASSUME NEW d \in Domain, NEW c \in Domain, Domains!DeleteConflict(d, c)
        PROVE  Domains!TypeOK'
    BY <1>5 DEF Domains!DeleteConflict, Domains!DomainSoftDelete
  <1>6. ASSUME NEW d \in Domain, Domains!MarkVerified(d) PROVE Domains!TypeOK'
    BY <1>6 DEF Domains!MarkVerified
  <1>7. ASSUME NEW d \in Domain, Domains!StatementFails(d) PROVE Domains!TypeOK'
    BY <1>7 DEF Domains!StatementFails, Domains!Suffer, Domains!FaultKind
  <1>8. ASSUME NEW d \in Domain, Domains!User(d) PROVE Domains!TypeOK'
    <2>1. CASE Domains!ReadClaims(d)
      BY <2>1 DEF Domains!ReadClaims
    <2>2. CASE Domains!AddDomain(d)
      BY <2>2 DEF Domains!AddDomain, Domains!Overtaken, Domains!Suffer,
                  Domains!FaultKind
    <2>3. CASE Domains!RenameInto(d)
      BY <2>3 DEF Domains!RenameInto, Domains!Overtaken, Domains!Suffer,
                  Domains!FaultKind
    <2>4. CASE Domains!RemoveDomain(d)
      BY <2>4 DEF Domains!RemoveDomain, Domains!Suffer, Domains!FaultKind
    <2>5. CASE Domains!SetToken(d)
      BY <2>5 DEF Domains!SetToken
    <2>6. CASE Domains!AddGenerated(d)
      BY <2>6 DEF Domains!AddGenerated, Domains!Suffer, Domains!FaultKind
    <2> QED
      BY <1>8, <2>1, <2>2, <2>3, <2>4, <2>5, <2>6 DEF Domains!User
  <1>9. CASE Domains!SetAddress
    BY <1>9 DEF Domains!SetAddress, Domains!Suffer, Domains!FaultKind
  <1>10. CASE UNCHANGED Domains!vars
    BY <1>10 DEF Domains!vars
  <1> QED
    BY <1>1, <1>2, <1>3, <1>4, <1>5, <1>6, <1>7, <1>8, <1>9, <1>10
    DEF Domains!Next, Domains!Pass

(* Every step of a pass, a user or the owner of the zone keeps it.         *)
LEMMA NameStep ==
    Domains!TypeOK /\ NameInv /\ [Domains!Next]_(Domains!vars) => NameInv'
  <1> SUFFICES ASSUME Domains!TypeOK, PassOrder, OneGivesWay,
                      [Domains!Next]_(Domains!vars)
               PROVE  PassOrder' /\ OneGivesWay'
    BY DEF NameInv
  <1> USE DEF Domains!TypeOK, Domains!rows, Domains!locals, Domains!Goto,
              Domains!EndPass, Domains!Active, PassOrder, OneGivesWay, Claims
  <1>1. ASSUME NEW d \in Domain, Domains!BeginPass(d) PROVE PassOrder' /\ OneGivesWay'
    BY <1>1 DEF Domains!BeginPass
  <1>2. ASSUME NEW d \in Domain, Domains!Resolve(d) PROVE PassOrder' /\ OneGivesWay'
    BY <1>2 DEF Domains!Resolve
  <1>3. ASSUME NEW d \in Domain,
               Domains!NothingToDo(d) \/ Domains!StatementFails(d)
        PROVE  PassOrder' /\ OneGivesWay'
    BY <1>3 DEF Domains!NothingToDo, Domains!StatementFails
  <1>4. ASSUME NEW d \in Domain, Domains!FindConflicts(d)
        PROVE  PassOrder' /\ OneGivesWay'
    BY <1>4 DEF Domains!FindConflicts, Domains!Others
  <1>5. ASSUME NEW d \in Domain, NEW c \in Domain, Domains!DeleteConflict(d, c)
        PROVE  PassOrder' /\ OneGivesWay'
    BY <1>5 DEF Domains!DeleteConflict, Domains!DomainSoftDelete
  <1>6. ASSUME NEW d \in Domain, Domains!MarkVerified(d)
        PROVE  PassOrder' /\ OneGivesWay'
    BY <1>6 DEF Domains!MarkVerified
  <1>7. ASSUME NEW d \in Domain, Domains!AddDomain(d) \/ Domains!RenameInto(d)
        PROVE  PassOrder' /\ OneGivesWay'
    <2>1. /\ row' = [row EXCEPT ![d] = "active"]
          /\ verified' = [verified EXCEPT ![d] = FALSE]
          /\ unchecked' = IF pc[d] = "delete" THEN unchecked \union {d}
                          ELSE unchecked \ {d}
          /\ UNCHANGED <<pc, copy, conflicts>>
      BY <1>7 DEF Domains!AddDomain, Domains!RenameInto, Domains!Overtaken
    <2>2. PassOrder'
      BY <2>1
    <2>3. ASSUME NEW c \in Domains!Active' \ unchecked',
                 NEW e \in Domains!Active' \ unchecked', c # e, Claims(c)', Claims(e)'
          PROVE  /\ c \in Domains!Active \ unchecked /\ Claims(c)
                 /\ e \in Domains!Active \ unchecked /\ Claims(e)
      BY <2>1, <2>3
    <2> QED
      BY <2>1, <2>2, <2>3
  <1>8. ASSUME NEW d \in Domain, Domains!RemoveDomain(d)
        PROVE  PassOrder' /\ OneGivesWay'
    BY <1>8 DEF Domains!RemoveDomain
  <1>9. ASSUME NEW d \in Domain, Domains!AddGenerated(d)
        PROVE  PassOrder' /\ OneGivesWay'
    <2>1. /\ row[d] = "absent" /\ row' = [row EXCEPT ![d] = "active"]
          /\ verified' = [verified EXCEPT ![d] = TRUE]
          /\ UNCHANGED <<pc, copy, conflicts>>
      BY <1>9 DEF Domains!AddGenerated
    <2>2. PassOrder'
      BY <2>1
    <2>3. CASE \A c \in Domain : row[c] = "absent"
      BY <2>1, <2>3
    <2>4. CASE unchecked' = unchecked \union {d}
      BY <2>1, <2>4
    <2> QED
      BY <1>9, <2>2, <2>3, <2>4 DEF Domains!AddGenerated
  <1>10. CASE UNCHANGED <<row, verified, pc, copy, conflicts, unchecked>>
    BY <1>10
  <1> QED
    BY <1>1, <1>2, <1>3, <1>4, <1>5, <1>6, <1>7, <1>8, <1>9, <1>10
    DEF Domains!Next, Domains!Pass, Domains!User, Domains!ReadClaims,
        Domains!SetToken, Domains!SetAddress, Domains!vars

(* domain.go:73: there are never two active verified rows of one name,     *)
(* whatever their passes, users and failed statements do at once, and      *)
(* whatever the proxies do with them.  Excepted are a row that is removed  *)
(* and added again between the list and the mark of its own pass, and one  *)
(* whose name was generated twice.                                         *)
THEOREM NeverTwoVerified == Spec => []OneVerified
  <1>1. Init => Domains!TypeOK /\ NameInv
    BY DEF Init, Domains!Init, Domains!TypeOK, Domains!Copy, Domains!Blank,
       Domains!FaultKind, NameInv, PassOrder, OneGivesWay, Claims, Domains!Active
  <1>2. [Next]_vars => [Domains!Next]_(Domains!vars)
    BY DEF Next, Handshake, Decide, Lock, LockRefused, Order, Unlock, Expire, Die,
       vars, domainVars, Domains!vars, Domains!rows, Domains!dns, Domains!locals
  <1>3. NameInv => OneVerified
    BY DEF NameInv, PassOrder, OneGivesWay, Claims, Domains!Active, OneVerified,
       Domains!OneVerified
  <1> QED
    BY <1>1, <1>2, <1>3, DomainTypeStep, NameStep, PTL DEF Spec
=============================================================================
