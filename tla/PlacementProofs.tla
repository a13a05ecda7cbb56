--------------------------- MODULE PlacementProofs ---------------------------
(***************************************************************************)
(* For any servers, callers, VMs, faults, sizes of ranges and ranges that  *)
(* were there before: no call ever inserts an address in use, and every    *)
(* address is routed to the server of its VM.                              *)
(*                                                                         *)
(* Neither is inductive.  That a free place of a server's range is free in *)
(* the cluster needs ranges that are apart, which needs what the range     *)
(* lock protects between the allocation and the upsert; that it is still   *)
(* free at the INSERT needs the address lock; and both need that no        *)
(* statement moves the range of a server that has one.                     *)
(***************************************************************************)
EXTENDS Placement, TLAPS

Registered(s) == status[s] # None
Used(v) == row[v] \in {"live", "ended"}

(* Servers of the table have ranges, apart from each other.                *)
RangesApart ==
    /\ \A s \in Server : Registered(s) => range[s] \in IpRange
    /\ \A s, t \in Server :
          s # t /\ Registered(s) /\ Registered(t) => Apart(range[s], range[t])

(* Who has allocated a range has the lock, and nobody has any of it.       *)
RangePromised ==
    \A s \in Server : reg[s] = "allocated" =>
        /\ rangeLock = s
        /\ next[s] \in IpRange
        /\ \A t \in Server : Registered(t) => Apart(range[t], next[s])

(* Who drains is in the table.                                             *)
Drainers == \A s \in Server : drain[s] = "delete" => Registered(s)

(* VMs are on servers of the table, with addresses of their ranges.        *)
VmsPlaced ==
    \A v \in Vm : Used(v) =>
        /\ on[v] \in Server /\ Registered(on[v])
        /\ addr[v] \in Nat /\ Within(addr[v], range[on[v]])

(* Calls have chosen servers of the table.                                 *)
CallsPlaced ==
    \A c \in Caller : pc[c] # "idle" => target[c] \in Server /\ Registered(target[c])

(* Who has allocated an address has the lock, and the address is free.     *)
CallsHold ==
    \A c \in Caller : pc[c] = "allocated" =>
        /\ vmLock = c
        /\ ip[c] \in Nat /\ Within(ip[c], range[target[c]])
        /\ ~InUse(ip[c])

IInv ==
    /\ TypeOK /\ RangesApart /\ RangePromised /\ Drainers
    /\ VmsPlaced /\ CallsPlaced /\ CallsHold

(* The servers that are there at first have ranges apart, and no VMs.      *)
LEMMA InitIInv == Init => IInv
  <1> SUFFICES ASSUME Init PROVE IInv
    OBVIOUS
  <1>0. /\ range \in [Server -> IpRange \union {None}]
        /\ \A s, t \in Server :
              s # t /\ range[s] # None /\ range[t] # None => Apart(range[s], range[t])
    BY GivenAssumption DEF Init
  <1>1. TypeOK
    BY <1>0 DEF Init, TypeOK, FaultKind
  <1>2. RangesApart /\ RangePromised /\ Drainers
    BY <1>0 DEF Init, RangesApart, RangePromised, Drainers, Registered
  <1>3. VmsPlaced /\ CallsPlaced /\ CallsHold
    BY DEF Init, VmsPlaced, CallsPlaced, CallsHold, Used
  <1> QED
    BY <1>1, <1>2, <1>3 DEF IInv

(* A new range is apart from all: those that begin no later than the last  *)
(* one and are apart from it end before it begins.                         *)
LEMMA NextRangeIsNew ==
    ASSUME NEW r \in NextRanges, RangesApart
    PROVE  /\ r \in IpRange
           /\ \A t \in Server : Registered(t) => Apart(range[t], r)
  <1>1. CASE Ranges = {}
    <2>1. r = <<0, Size>>
      BY <1>1 DEF NextRanges
    <2>2. \A t \in Server : ~Registered(t)
      BY <1>1 DEF Ranges, Registered
    <2> QED
      BY <2>1, <2>2, SizeAssumption DEF IpRange
  <1>2. CASE Ranges # {}
    <2>1. PICK q \in Ranges : r = <<q[1] + q[2], 1>> /\ \A p \in Ranges : p[1] <= q[1]
      BY <1>2 DEF NextRanges
    <2>2. PICK s \in Server : Registered(s) /\ q = range[s]
      BY <2>1 DEF Ranges, Registered
    <2>3. q \in IpRange
      BY <2>2 DEF RangesApart
    <2>4. q[1] \in Nat /\ q[2] \in Nat \ {0}
      BY <2>3 DEF IpRange
    <2>5. r \in IpRange
      BY <2>1, <2>4 DEF IpRange
    <2>6. ASSUME NEW t \in Server, Registered(t) PROVE Apart(range[t], r)
      <3> DEFINE p == range[t]
      <3>1. p \in IpRange /\ p \in Ranges
        BY <2>6 DEF RangesApart, Ranges, Registered
      <3>2. p[1] \in Nat /\ p[2] \in Nat \ {0} /\ p[1] <= q[1]
        BY <2>1, <3>1 DEF IpRange
      <3>3. p = q \/ Apart(p, q)
        BY <2>2, <2>6 DEF RangesApart
      <3>4. p[1] + p[2] <= q[1] + q[2]
        BY <2>4, <3>2, <3>3 DEF Apart
      <3> QED
        BY <2>1, <3>4 DEF Apart
    <2> QED
      BY <2>5, <2>6
  <1> QED
    BY <1>1, <1>2

(* Places of a range lie in it.                                            *)
LEMMA PlacesWithin ==
    ASSUME NEW s \in Server, range[s] \in IpRange, NEW k \in FreePlaces(s)
    PROVE  range[s][1] + k \in Nat /\ Within(range[s][1] + k, range[s])
  <1>1. range[s][1] \in Nat /\ range[s][2] \in Nat
    BY DEF IpRange
  <1>2. k \in 1 .. range[s][2] - 2
    BY DEF FreePlaces
  <1> QED
    BY <1>1, <1>2 DEF Within

(* A place that is free on a server is free in the cluster.                *)
LEMMA FreeIsUnused ==
    ASSUME RangesApart, VmsPlaced, NEW s \in Server, Registered(s),
           NEW k \in FreePlaces(s)
    PROVE  ~InUse(range[s][1] + k)
  <1> SUFFICES ASSUME NEW v \in Vm, Used(v), addr[v] = range[s][1] + k
               PROVE  FALSE
    BY DEF InUse, Used
  <1>1. /\ on[v] \in Server /\ Registered(on[v])
        /\ addr[v] \in Nat /\ Within(addr[v], range[on[v]])
    BY DEF VmsPlaced
  <1>2. range[s] \in IpRange /\ range[on[v]] \in IpRange
    BY <1>1 DEF RangesApart
  <1>3. Within(addr[v], range[s])
    BY <1>2, PlacesWithin
  <1>4. ~Apart(range[s], range[on[v]])
    BY <1>1, <1>2, <1>3 DEF Apart, Within, IpRange
  <1>5. on[v] = s
    BY <1>1, <1>4 DEF RangesApart
  <1> QED
    BY <1>5 DEF FreePlaces, Vms, Used

Safe == RangesApart /\ RangePromised /\ VmsPlaced /\ CallsPlaced /\ CallsHold

(* A step of the servers that leaves ranges, VMs and calls alone, keeps    *)
(* who is in the table and allocates no range.                             *)
LEMMA TableStep ==
    ASSUME IInv, UNCHANGED <<range, vms, calls>>,
           \A s \in Server : Registered(s)' <=> Registered(s),
           \A s \in Server : reg'[s] = "allocated" =>
               reg[s] = "allocated" /\ next'[s] = next[s] /\ rangeLock' = rangeLock
    PROVE  Safe'
  <1> USE DEF IInv
  <1>1. RangesApart'
    BY DEF RangesApart
  <1>2. RangePromised'
    BY DEF RangePromised
  <1>3. VmsPlaced'
    BY DEF VmsPlaced, Used, vms
  <1>4. CallsPlaced'
    BY DEF CallsPlaced, calls
  <1>5. CallsHold'
    BY DEF CallsHold, calls, vms, InUse
  <1> QED
    BY <1>1, <1>2, <1>3, <1>4, <1>5 DEF Safe

(* A step that changes the state of VMs, but makes none used.              *)
LEMMA VmStep ==
    ASSUME IInv, UNCHANGED <<table, register, on, addr, calls>>,
           \A v \in Vm : Used(v)' => Used(v)
    PROVE  Safe'
  <1> USE DEF IInv
  <1>1. RangesApart' /\ RangePromised'
    BY DEF RangesApart, RangePromised, Registered, table, register
  <1>2. VmsPlaced'
    BY DEF VmsPlaced, Registered, table
  <1>3. CallsPlaced'
    BY DEF CallsPlaced, calls, Registered, table
  <1>4. \A a : InUse(a)' => InUse(a)
    BY DEF InUse, Used
  <1>5. CallsHold'
    BY <1>4 DEF CallsHold, calls, table
  <1> QED
    BY <1>1, <1>2, <1>3, <1>5 DEF Safe

(* The types and the rest, one action after the other.                     *)
LEMMA TypeStep == IInv /\ [Next]_vars => TypeOK'
  <1> SUFFICES ASSUME IInv, [Next]_vars PROVE TypeOK'
    OBVIOUS
  <1>0. TypeOK
    BY DEF IInv
  <1> USE <1>0
  <1> USE DEF TypeOK, table, register, draining, vms, calls, Suffer
  <1>1. ASSUME NEW s \in Server, RegisterAgain(s) PROVE TypeOK'
    BY <1>1 DEF RegisterAgain
  <1>2. ASSUME NEW s \in Server, AllocateRange(s) PROVE TypeOK'
    <2>1. NextRanges \subseteq IpRange
      BY NextRangeIsNew DEF IInv
    <2>2. next' \in [Server -> IpRange \union {None}]
      BY <1>2, <2>1 DEF AllocateRange
    <2>3. faults' \in [FaultKind -> Nat]
      BY <1>2 DEF AllocateRange
    <2> QED
      BY <1>2, <2>2, <2>3 DEF AllocateRange
  <1>3. ASSUME NEW s \in Server, Upsert(s) PROVE TypeOK'
    BY <1>3 DEF Upsert, RangeAfter
  <1>4. ASSUME NEW s \in Server, Crash(s) PROVE TypeOK'
    BY <1>4 DEF Crash, FaultKind
  <1>5. ASSUME NEW s \in Server, Silence(s) \/ AskToDrain(s) PROVE TypeOK'
    <2>1. CASE Silence(s)
      BY <2>1 DEF Silence
    <2>2. CASE AskToDrain(s)
      BY <2>2 DEF AskToDrain
    <2> QED
      BY <1>5, <2>1, <2>2
  <1>6. ASSUME NEW s \in Server, BeginDrain(s) PROVE TypeOK'
    BY <1>6 DEF BeginDrain, Vms
  <1>7. ASSUME NEW s \in Server, DeleteVm(s) PROVE TypeOK'
    BY <1>7 DEF DeleteVm
  <1>8. ASSUME NEW s \in Server, EndDrain(s) PROVE TypeOK'
    BY <1>8 DEF EndDrain
  <1>9. ASSUME NEW c \in Caller, Choose(c) PROVE TypeOK'
    BY <1>9 DEF Choose, LeastLoaded, Candidates
  <1>10. ASSUME NEW c \in Caller, Allocate(c) PROVE TypeOK'
    <2>1. target[c] \in Server /\ range[target[c]] \in IpRange
      BY <1>10 DEF Allocate, IInv, CallsPlaced, RangesApart
    <2>2. ASSUME NEW k \in FreePlaces(target[c])
          PROVE  range[target[c]][1] + k \in Nat
      BY <2>1, <2>2, PlacesWithin
    <2>3. ip' \in [Caller -> Nat \union {None}]
      BY <1>10, <2>2 DEF Allocate
    <2> QED
      BY <1>10, <2>3 DEF Allocate
  <1>11. ASSUME NEW c \in Caller, Insert(c) PROVE TypeOK'
    BY <1>11 DEF Insert, EndCall
  <1>12. ASSUME NEW c \in Caller, CreateFails(c) PROVE TypeOK'
    BY <1>12 DEF CreateFails, EndCall
  <1>13. ASSUME NEW v \in Vm, VmChanges(v) PROVE TypeOK'
    BY <1>13 DEF VmChanges
  <1>14. CASE UNCHANGED vars
    BY <1>14 DEF vars
  <1> QED
    BY <1>1, <1>2, <1>3, <1>4, <1>5, <1>6, <1>7, <1>8, <1>9, <1>10, <1>11,
       <1>12, <1>13, <1>14 DEF Next, Start, Drain, Call

(* Only a server in the table begins a drain, and rows stay.               *)
LEMMA DrainersStep == IInv /\ [Next]_vars => Drainers'
  <1> SUFFICES ASSUME IInv, [Next]_vars, NEW s \in Server, drain'[s] = "delete"
               PROVE  Registered(s)'
    BY DEF Drainers, Registered
  <1>0. TypeOK /\ Drainers
    BY DEF IInv
  <1> USE <1>0, NoneAssumption DEF TypeOK, Drainers, Registered
  <1>1. ASSUME NEW t \in Server, Start(t) PROVE status'[s] # None
    BY <1>1 DEF Start, RegisterAgain, AllocateRange, Upsert, table, draining
  <1>2. ASSUME NEW t \in Server, Drain(t) PROVE status'[s] # None
    BY <1>2 DEF Drain, BeginDrain, DeleteVm, EndDrain, table
  <1>3. ASSUME NEW t \in Server, Crash(t) \/ Silence(t) \/ AskToDrain(t)
        PROVE  status'[s] # None
    BY <1>3 DEF Crash, Silence, AskToDrain, table, draining
  <1>4. ASSUME NEW c \in Caller, Choose(c) \/ Call(c) PROVE status'[s] # None
    BY <1>4 DEF Choose, Call, Allocate, Insert, CreateFails, EndCall, table,
                draining
  <1>5. ASSUME NEW v \in Vm, VmChanges(v) PROVE status'[s] # None
    BY <1>5 DEF VmChanges, table, draining
  <1>6. CASE UNCHANGED vars
    BY <1>6 DEF vars, table, draining
  <1> QED
    BY <1>1, <1>2, <1>3, <1>4, <1>5, <1>6 DEF Next

(* Calls that end by failing, and starts that allocate a range or insert   *)
(* the row, keep everything: one step per action.                          *)
LEMMA SafeStep == IInv /\ [Next]_vars => Safe'
  <1> SUFFICES ASSUME IInv, [Next]_vars PROVE Safe'
    OBVIOUS
  <1>0. /\ TypeOK /\ RangesApart /\ RangePromised /\ Drainers
        /\ VmsPlaced /\ CallsPlaced /\ CallsHold
    BY DEF IInv
  <1>1. ASSUME NEW s \in Server, RegisterAgain(s) PROVE Safe'
    <2>1. \A t \in Server : Registered(t)' <=> Registered(t)
      BY <1>0, <1>1, NoneAssumption DEF RegisterAgain, Registered, TypeOK
    <2>2. \A t \in Server : reg'[t] = "allocated" => reg[t] = "allocated"
      BY <1>0, <1>1 DEF RegisterAgain, TypeOK
    <2> QED
      BY <1>1, <2>1, <2>2, TableStep DEF RegisterAgain
  <1>2. ASSUME NEW s \in Server, AllocateRange(s) PROVE Safe'
    <2>1. PICK r \in NextRanges : next' = [next EXCEPT ![s] = r]
      BY <1>2 DEF AllocateRange
    <2>2. r \in IpRange
      BY <1>0, NextRangeIsNew
    <2>3. \A t \in Server : Registered(t) => Apart(range[t], r)
      BY <1>0, NextRangeIsNew
    <2>4. \A t \in Server : reg[t] # "allocated"
      BY <1>0, <1>2, NoneAssumption DEF AllocateRange, RangePromised
    <2>5. RangesApart'
      BY <1>0, <1>2 DEF AllocateRange, RangesApart, Registered, table
    <2>6. RangePromised'
      BY <1>0, <1>2, <2>1, <2>2, <2>3, <2>4
      DEF AllocateRange, RangePromised, Registered, table, TypeOK
    <2>7. VmsPlaced' /\ CallsPlaced' /\ CallsHold'
      BY <1>0, <1>2
      DEF AllocateRange, VmsPlaced, CallsPlaced, CallsHold, Registered, Used,
          InUse, table, vms, calls
    <2> QED
      BY <2>5, <2>6, <2>7 DEF Safe
  <1>3. ASSUME NEW s \in Server, Upsert(s) PROVE Safe'
    <2>1. /\ rangeLock = s /\ next[s] \in IpRange
          /\ \A t \in Server : Registered(t) =>
                Apart(range[t], next[s]) /\ Apart(next[s], range[t])
      BY <1>0, <1>3 DEF Upsert, RangePromised, Apart
    <2>2. ASSUME NEW t \in Server, Registered(t)
          PROVE  Registered(t)' /\ range'[t] = range[t]
      BY <1>0, <1>3, <2>2, NoneAssumption DEF Upsert, Registered, RangeAfter, TypeOK
    <2>3. ASSUME NEW t \in Server, t # s, Registered(t)'
          PROVE  Registered(t)
      BY <1>0, <1>3, <2>3 DEF Upsert, Registered, TypeOK
    <2>4. ~Registered(s) => range'[s] = next[s]
      BY <1>0, <1>3 DEF Upsert, Registered, RangeAfter, TypeOK
    <2>5. RangesApart'
      <3>1. ASSUME NEW t \in Server, Registered(t)'
            PROVE  range'[t] \in IpRange
        BY <1>0, <2>1, <2>2, <2>3, <2>4, <3>1 DEF RangesApart
      <3>2. ASSUME NEW t \in Server, NEW u \in Server, t # u,
                   Registered(t)', Registered(u)'
            PROVE  Apart(range'[t], range'[u])
        <4>1. CASE Registered(t) /\ Registered(u)
          BY <1>0, <2>2, <3>2, <4>1 DEF RangesApart
        <4>2. CASE ~Registered(t)
          <5>1. t = s /\ Registered(u)
            BY <2>3, <3>2, <4>2
          <5> QED
            BY <2>1, <2>2, <2>4, <4>2, <5>1
        <4>3. CASE ~Registered(u)
          <5>1. u = s /\ Registered(t)
            BY <2>3, <3>2, <4>3
          <5> QED
            BY <2>1, <2>2, <2>4, <4>3, <5>1
        <4> QED
          BY <4>1, <4>2, <4>3
      <3> QED
        BY <3>1, <3>2 DEF RangesApart
    <2>6. RangePromised'
      BY <1>0, <1>3, <2>1 DEF Upsert, RangePromised, TypeOK
    <2>7. VmsPlaced'
      <3>1. ASSUME NEW v \in Vm, Used(v)
            PROVE  /\ on[v] \in Server /\ status'[on[v]] # None
                   /\ addr[v] \in Nat /\ Within(addr[v], range'[on[v]])
        BY <1>0, <2>2, <3>1 DEF VmsPlaced, Registered
      <3> QED
        BY <1>3, <3>1 DEF Upsert, VmsPlaced, Used, vms, Registered
    <2>8. CallsPlaced'
      <3>1. ASSUME NEW c \in Caller, pc[c] # "idle"
            PROVE  target[c] \in Server /\ status'[target[c]] # None
        BY <1>0, <2>2, <3>1 DEF CallsPlaced, Registered
      <3> QED
        BY <1>3, <3>1 DEF Upsert, CallsPlaced, calls, Registered
    <2>9. CallsHold'
      <3>1. ASSUME NEW c \in Caller, pc[c] = "allocated"
            PROVE  range'[target[c]] = range[target[c]]
        BY <1>0, <2>2, <3>1 DEF CallsPlaced
      <3> QED
        BY <1>0, <1>3, <3>1 DEF Upsert, CallsHold, InUse, vms, calls
    <2> QED
      BY <2>5, <2>6, <2>7, <2>8, <2>9 DEF Safe
  <1>4. ASSUME NEW s \in Server, Crash(s) PROVE Safe'
    <2>1. \A t \in Server : Registered(t)' <=> Registered(t)
      BY <1>4 DEF Crash, Registered, table
    <2>2. ASSUME NEW t \in Server, reg'[t] = "allocated"
          PROVE  reg[t] = "allocated" /\ next'[t] = next[t] /\ rangeLock' = rangeLock
      <3>1. t # s /\ reg[t] = "allocated" /\ next'[t] = next[t]
        BY <1>0, <1>4, <2>2 DEF Crash, TypeOK
      <3> QED
        BY <1>0, <1>4, <3>1 DEF Crash, RangePromised
    <2> QED
      BY <1>4, <2>1, <2>2, TableStep DEF Crash, table
  <1>5. ASSUME NEW s \in Server,
               Silence(s) \/ AskToDrain(s) \/ BeginDrain(s) \/ EndDrain(s)
        PROVE  Safe'
    <2>1. UNCHANGED <<range, register, vms, calls>>
      BY <1>5 DEF Silence, AskToDrain, BeginDrain, EndDrain, table
    <2>2. \A t \in Server : Registered(t)' <=> Registered(t)
      <3>1. CASE Silence(s) \/ BeginDrain(s)
        BY <3>1 DEF Silence, BeginDrain, Registered, table
      <3>2. CASE AskToDrain(s)
        BY <1>0, <3>2, NoneAssumption DEF AskToDrain, Registered, TypeOK
      <3>3. CASE EndDrain(s)
        BY <1>0, <3>3, NoneAssumption DEF EndDrain, Drainers, Registered, TypeOK
      <3> QED
        BY <1>5, <3>1, <3>2, <3>3
    <2> QED
      BY <2>1, <2>2, TableStep DEF register
  <1>6. ASSUME NEW s \in Server, DeleteVm(s) PROVE Safe'
    <2>1. \A v \in Vm : Used(v)' => Used(v)
      BY <1>0, <1>6 DEF DeleteVm, Used, TypeOK
    <2> QED
      BY <1>6, <2>1, VmStep DEF DeleteVm
  <1>7. ASSUME NEW v \in Vm, VmChanges(v) PROVE Safe'
    <2>1. \A w \in Vm : Used(w)' => Used(w)
      BY <1>0, <1>7 DEF VmChanges, Used, TypeOK
    <2> QED
      BY <1>7, <2>1, VmStep DEF VmChanges
  <1>8. ASSUME NEW c \in Caller, Choose(c) PROVE Safe'
    <2>1. PICK s \in LeastLoaded : target' = [target EXCEPT ![c] = s]
      BY <1>8 DEF Choose
    <2>2. s \in Server /\ Registered(s)
      BY <2>1, NoneAssumption DEF LeastLoaded, Candidates, Registered
    <2>3. \A d \in Caller : d # c => pc'[d] = pc[d] /\ target'[d] = target[d]
      BY <1>0, <1>8, <2>1 DEF Choose, TypeOK
    <2>4. pc'[c] = "chosen" /\ target'[c] = s
      BY <1>0, <1>8, <2>1 DEF Choose, TypeOK
    <2>5. RangesApart' /\ RangePromised' /\ VmsPlaced'
      BY <1>0, <1>8 DEF Choose, RangesApart, RangePromised, VmsPlaced,
         Registered, Used, table, register, vms
    <2>6. CallsPlaced'
      BY <1>0, <1>8, <2>2, <2>3, <2>4 DEF Choose, CallsPlaced, Registered, table
    <2>7. CallsHold'
      BY <1>0, <1>8, <2>3, <2>4 DEF Choose, CallsHold, InUse, table, vms
    <2> QED
      BY <2>5, <2>6, <2>7 DEF Safe
  <1>9. ASSUME NEW c \in Caller, Allocate(c) PROVE Safe'
    <2>1. PICK k \in FreePlaces(target[c]) :
              ip' = [ip EXCEPT ![c] = range[target[c]][1] + k]
      BY <1>9 DEF Allocate
    <2>2. /\ target[c] \in Server /\ Registered(target[c])
          /\ range[target[c]] \in IpRange
      BY <1>0, <1>9 DEF Allocate, CallsPlaced, RangesApart
    <2>3. ~InUse(range[target[c]][1] + k)
      BY <1>0, <2>2, FreeIsUnused
    <2>4. \A d \in Caller : pc[d] # "allocated"
      BY <1>0, <1>9, NoneAssumption DEF Allocate, LockFree, CallsHold
    <2>5. \A d \in Caller : pc'[d] # "idle" => pc[d] # "idle"
      BY <1>0, <1>9 DEF Allocate, TypeOK
    <2>6. \A d \in Caller : pc'[d] = "allocated" => d = c
      BY <1>0, <1>9, <2>4 DEF Allocate, TypeOK
    <2>7. /\ ip'[c] = range[target[c]][1] + k
          /\ ip'[c] \in Nat /\ Within(ip'[c], range[target[c]])
      BY <1>0, <2>1, <2>2, PlacesWithin DEF TypeOK
    <2>8. RangesApart' /\ RangePromised' /\ VmsPlaced'
      BY <1>0, <1>9 DEF Allocate, RangesApart, RangePromised, VmsPlaced,
         Registered, Used, table, register, vms
    <2>9. CallsPlaced'
      BY <1>0, <1>9, <2>5 DEF Allocate, CallsPlaced, Registered, table
    <2>10. CallsHold'
      <3>1. ~InUse(ip[c])'
        BY <1>9, <2>3, <2>7 DEF Allocate, InUse, vms
      <3> QED
        BY <1>9, <2>6, <2>7, <3>1 DEF Allocate, CallsHold, table
    <2> QED
      BY <2>8, <2>9, <2>10 DEF Safe
  <1>10. ASSUME NEW c \in Caller, EndCall(c),
                \A d \in Caller \ {c} : pc[d] = "allocated" => ~InUse(ip[d])',
                VmsPlaced'
         PROVE  Safe'
    <2>1. \A d \in Caller : d # c =>
              /\ pc'[d] = pc[d] /\ target'[d] = target[d] /\ ip'[d] = ip[d]
              /\ vmLock = d => vmLock' = d
      BY <1>0, <1>10 DEF EndCall, TypeOK
    <2>2. pc'[c] = "idle"
      BY <1>0, <1>10 DEF EndCall, TypeOK
    <2>3. RangesApart' /\ RangePromised'
      BY <1>0, <1>10 DEF EndCall, RangesApart, RangePromised, Registered,
         table, register
    <2>4. CallsPlaced'
      BY <1>0, <1>10, <2>1, <2>2 DEF EndCall, CallsPlaced, Registered, table
    <2>5. CallsHold'
      BY <1>0, <1>10, <2>1, <2>2 DEF EndCall, CallsHold, table
    <2> QED
      BY <1>10, <2>3, <2>4, <2>5 DEF Safe
  <1>11. ASSUME NEW c \in Caller, Insert(c) PROVE Safe'
    <2>1. PICK v \in Vm : /\ row' = [row EXCEPT ![v] = "live"]
                          /\ on' = [on EXCEPT ![v] = target[c]]
                          /\ addr' = [addr EXCEPT ![v] = ip[c]]
      BY <1>11 DEF Insert
    <2>2. /\ target[c] \in Server /\ Registered(target[c])
          /\ ip[c] \in Nat /\ Within(ip[c], range[target[c]]) /\ vmLock = c
      BY <1>0, <1>11 DEF Insert, CallsPlaced, CallsHold
    <2>3. \A w \in Vm : w # v => /\ Used(w)' <=> Used(w)
                                /\ on'[w] = on[w] /\ addr'[w] = addr[w]
      BY <1>0, <2>1 DEF Used, TypeOK
    <2>4. on'[v] = target[c] /\ addr'[v] = ip[c]
      BY <1>0, <2>1 DEF TypeOK
    <2>5. VmsPlaced'
      BY <1>0, <1>11, <2>2, <2>3, <2>4
      DEF Insert, EndCall, VmsPlaced, Registered, table
    <2>6. \A d \in Caller \ {c} : pc[d] # "allocated"
      BY <1>0, <2>2 DEF CallsHold
    <2> QED
      BY <1>10, <1>11, <2>5, <2>6 DEF Insert
  <1>12. ASSUME NEW c \in Caller, CreateFails(c) PROVE Safe'
    <2>1. VmsPlaced'
      BY <1>0, <1>12
      DEF CreateFails, EndCall, VmsPlaced, Registered, Used, table, vms
    <2>2. \A d \in Caller \ {c} : pc[d] = "allocated" => ~InUse(ip[d])'
      BY <1>0, <1>12 DEF CreateFails, EndCall, CallsHold, InUse, vms, TypeOK
    <2> QED
      BY <1>10, <1>12, <2>1, <2>2 DEF CreateFails
  <1>13. CASE UNCHANGED vars
    BY <1>13, TableStep DEF vars, table, register, Registered
  <1> QED
    BY <1>1, <1>2, <1>3, <1>4, <1>5, <1>6, <1>7, <1>8, <1>9, <1>11, <1>12,
       <1>13 DEF Next, Start, Drain, Call

(* The invariant holds in every state.                                     *)
THEOREM Invariance == Spec => []IInv
  <1>1. IInv /\ [Next]_vars => IInv'
    BY TypeStep, DrainersStep, SafeStep DEF IInv, Safe
  <1> QED
    BY InitIInv, <1>1, PTL DEF Spec

(* Every variable has its type.                                            *)
THEOREM TypeCorrect == Spec => []TypeOK
  <1>1. IInv => TypeOK
    BY DEF IInv
  <1> QED
    BY Invariance, <1>1, PTL

(* VMCreate never inserts an address that is in use: the advisory lock and *)
(* the ranges of VMNextIPAddress are enough, in any number of processes.   *)
THEOREM AllocationsAreFree == Spec => []AllocationsHold
  <1>1. IInv => AllocationsHold
    BY DEF IInv, CallsHold, AllocationsHold
  <1> QED
    BY Invariance, <1>1, PTL

(* The address of a VM that is not deleted is in the range of its server,  *)
(* and ranges are apart: registerServer never moves one, and what the      *)
(* query computes, of one address as it may be, lies after all the others. *)
THEOREM AddressesRoutable == Spec => []Routable
  <1>1. IInv => Routable
    BY DEF IInv, VmsPlaced, RangesApart, Registered, Used, Routable
  <1> QED
    BY Invariance, <1>1, PTL
=============================================================================
