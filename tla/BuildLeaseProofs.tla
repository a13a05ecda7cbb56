-------------------------- MODULE BuildLeaseProofs --------------------------
(***************************************************************************)
(* For any servers, VMs and faults: the lease of a build is a lease lock,  *)
(* and a build is never executed twice at once, even after an execution    *)
(* has outlasted its lease; while none has, and no statement that took     *)
(* effect has reported an error, the outcome of a build stays; and a pass  *)
(* that has executed a build deletes its VM.                               *)
(*                                                                         *)
(* Once a lease was taken over, what keeps the two apart is the age of the *)
(* build.  The invariant says that an execution is always younger than the *)
(* build, so whoever takes the lease over finds a build older than         *)
(* StuckAfter and gives it up at once; and that nobody can set the age     *)
(* back meanwhile, because only a pass beyond that check does.             *)
(***************************************************************************)
EXTENDS BuildLease, TLAPS

Early(s) == pc[s] \in {"age", "create", "link", "look"}
Late(s)  == pc[s] \in {"exec", "succeed", "fail", "clean"}

(* No time passes between the claim and the execution.                     *)
EarlyHolds == \A s \in Server : Early(s) => holder = s /\ leaseAge = 0

(* A build with a VM is not pending, nor is one that a pass looks at.      *)
HasVm ==
    /\ vmId # None => status # "pending"
    /\ \A s \in Server : pc[s] = "age" /\ copy[s].vmId # None => status # "pending"
    /\ \A s \in Server : pc[s] = "look" => status # "pending"

(* The build is at least as old as the lease under which it is executed,   *)
(* and stuck once somebody else took the lease.                            *)
Aged ==
    \A s \in Server : Late(s) =>
        /\ status # "pending"
        /\ IF holder = s THEN leaseAge <= buildAge ELSE buildAge > StuckAfter

(* Of two passes one has just taken the lease over and will give up.       *)
Apart ==
    \A s, t \in Server : s # t /\ Processing(s) /\ Processing(t) =>
        \/ s = holder /\ pc[s] = "age" /\ copy[s].status = "building"
        \/ t = holder /\ pc[t] = "age" /\ copy[t].status = "building"

(* While nobody was late, whoever processes the build has its lease.       *)
OnTime ==
    "overrun" \notin faults =>
        \A s \in Server : Processing(s) => holder = s /\ leaseAge <= StaleAfter

IInv == TypeOK /\ EarlyHolds /\ HasVm /\ Aged /\ Apart /\ OnTime

(* Every server is idle at first.                                          *)
LEMMA InitIInv == Init => IInv
  <1> SUFFICES ASSUME Init PROVE IInv
    OBVIOUS
  <1>1. TypeOK
    <2>1. 0 \in Age
      BY AgeAssumption DEF Age
    <2>2. leader \in [Server -> BOOLEAN]
      BY DEF Init
    <2>3. copy \in [Server -> [status : BuildStatus, vmId : Vm \union {None}]]
      BY DEF Init, BuildStatus
    <2> QED
      BY <2>1, <2>2, <2>3 DEF Init, TypeOK, BuildStatus
  <1>2. EarlyHolds /\ HasVm /\ Aged /\ Apart /\ OnTime
    BY DEF Init, EarlyHolds, HasVm, Aged, Apart, OnTime, Early, Late, Processing
  <1> QED
    BY <1>1, <1>2 DEF IInv

USE DEF row, lease, passes, Goto, WakeAll

(* Ages stay in their range and keep their order.                          *)
LEMMA OlderAges ==
    ASSUME NEW a \in Age, NEW b \in Age
    PROVE  Older(a) \in Age /\ a <= Older(a) /\ (a <= b => Older(a) <= Older(b))
  BY AgeAssumption DEF Age, Older

(* The types, one action after the other.                                  *)
LEMMA TypeStep == TypeOK /\ [Next]_vars => TypeOK'
  <1> SUFFICES ASSUME TypeOK, [Next]_vars PROVE TypeOK'
    OBVIOUS
  <1> USE DEF TypeOK, BuildStatus, Suffer, FaultKind
  <1>0. 0 \in Age
    BY AgeAssumption DEF Age
  <1>1. ASSUME NEW s \in Server, ClaimLease(s) PROVE TypeOK'
    BY <1>0, <1>1 DEF ClaimLease
  <1>2. ASSUME NEW s \in Server, NotClaimed(s) PROVE TypeOK'
    BY <1>2 DEF NotClaimed
  <1>3. ASSUME NEW s \in Server, CheckAge(s) PROVE TypeOK'
    BY <1>3 DEF CheckAge, BuildMarkFailed
  <1>4. ASSUME NEW s \in Server, VMCreate(s) PROVE TypeOK'
    BY <1>4 DEF VMCreate
  <1>5. ASSUME NEW s \in Server, BuildMarkBuilding(s) PROVE TypeOK'
    BY <1>0, <1>5 DEF BuildMarkBuilding
  <1>6. ASSUME NEW s \in Server, LookAtVm(s) PROVE TypeOK'
    BY <1>6 DEF LookAtVm, BuildMarkFailed
  <1>7. ASSUME NEW s \in Server, ExecuteBuild(s) PROVE TypeOK'
    BY <1>7 DEF ExecuteBuild
  <1>8. ASSUME NEW s \in Server, BuildMarkSuccessful(s) \/ ExecutionFailed(s)
        PROVE  TypeOK'
    BY <1>8 DEF BuildMarkSuccessful, ExecutionFailed, BuildMarkFailed
  <1>9. ASSUME NEW s \in Server, CleanupBuildVM(s) PROVE TypeOK'
    BY <1>9 DEF CleanupBuildVM
  <1>10. ASSUME NEW s \in Server, ReleaseLease(s) PROVE TypeOK'
    BY <1>10 DEF ReleaseLease
  <1>11. ASSUME NEW s \in Server, StatementFails(s) PROVE TypeOK'
    <2>1. pc' \in [Server -> {"idle", "age", "create", "link", "look", "exec",
                              "succeed", "fail", "clean", "release"}]
      BY <1>11 DEF StatementFails
    <2> QED
      BY <1>11, <2>1 DEF StatementFails
  <1>12. ASSUME NEW s \in Server, Resync(s) \/ LeadMoves(s) PROVE TypeOK'
    BY <1>12 DEF Resync, LeadMoves
  <1>17. ASSUME NEW s \in Server, ReplyLost(s) PROVE TypeOK'
    BY <1>0, <1>17 DEF ReplyLost
  <1>13. ASSUME NEW s \in Server, Crash(s) PROVE TypeOK'
    BY <1>13 DEF Crash
  <1>14. ASSUME NEW v \in Vm, VmBoots(v) \/ VmFails(v) \/ VmRestarts(v)
         PROVE  TypeOK'
    BY <1>14 DEF VmBoots, VmFails, VmRestarts
  <1>15. CASE Elapse
    <2>1. leaseAge' \in Age /\ buildAge' \in Age
      BY <1>15, OlderAges DEF Elapse
    <2> QED
      BY <1>15, <2>1 DEF Elapse
  <1>16. CASE UNCHANGED vars
    BY <1>16 DEF vars
  <1> QED
    BY <1>1, <1>2, <1>3, <1>4, <1>5, <1>6, <1>7, <1>8, <1>9, <1>10, <1>11,
       <1>12, <1>13, <1>14, <1>15, <1>16, <1>17 DEF Next, Pass

Safe == EarlyHolds /\ HasVm /\ Aged /\ Apart /\ OnTime

(* Steps that keep the lease, the age, whether the build is pending, and   *)
(* every pass but that of s; s goes on where Early or Late permits.        *)
LEMMA PassGoesOn ==
    ASSUME IInv, NEW s \in Server, NEW l,
           pc' = [pc EXCEPT ![s] = l],
           UNCHANGED <<lease, buildAge, vmId>>,
           \A t \in Server \ {s} : copy'[t] = copy[t],
           status # "pending" => status' # "pending",
           "overrun" \in faults => "overrun" \in faults',
           \/ l \in {"idle", "release"}
           \/ Late(s) /\ l \in {"succeed", "fail", "clean"}
           \/ pc[s] = "look" /\ l = "exec"
           \/ pc[s] = "create" /\ l = "link"
    PROVE  Safe'
  <1> USE DEF IInv, TypeOK, Early, Late, Processing
  <1>1. EarlyHolds'
    BY DEF EarlyHolds
  <1>2. HasVm'
    BY DEF HasVm
  <1>3. Aged'
    BY DEF Aged, EarlyHolds, HasVm, Age
  <1>4. Apart'
    BY DEF Apart
  <1>5. OnTime'
    BY DEF OnTime
  <1> QED
    BY <1>1, <1>2, <1>3, <1>4, <1>5 DEF Safe

(* Who may claim the lease while it processes nothing meets at most one    *)
(* late pass, and a build that is stuck.                                   *)
LEMMA ClaimMeets ==
    ASSUME IInv, NEW s \in Server, pc[s] = "idle", Claimable(s)
    PROVE  /\ \A t \in Server : Processing(t) =>
                  Late(t) /\ buildAge > StuckAfter /\ "overrun" \in faults
           /\ \A t, u \in Server : Processing(t) /\ Processing(u) => t = u
  <1> USE DEF IInv, TypeOK
  <1>1. ASSUME NEW t \in Server, Processing(t)
        PROVE  Late(t) /\ buildAge > StuckAfter /\ "overrun" \in faults
    <2>1. holder \in {None, s} \/ leaseAge > StaleAfter
      BY DEF Claimable
    <2>2. t # s /\ t # None
      BY <1>1, NoneAssumption DEF Processing
    <2>3. ~(holder = t /\ leaseAge <= StaleAfter)
      BY <2>1, <2>2, AgeAssumption DEF Age
    <2>4. Late(t)
      BY <1>1, <2>3, AgeAssumption DEF EarlyHolds, Early, Late, Processing
    <2>5. buildAge > StuckAfter
      BY <2>1, <2>2, <2>3, <2>4, AgeAssumption DEF Aged, Age
    <2>6. "overrun" \in faults
      BY <1>1, <2>3 DEF OnTime
    <2> QED
      BY <2>4, <2>5, <2>6
  <1>2. ASSUME NEW t \in Server, NEW u \in Server, Processing(t), Processing(u)
        PROVE  t = u
    BY <1>1, <1>2 DEF Apart, Late
  <1> QED
    BY <1>1, <1>2

(* A claim whose reply is lost makes nobody a holder that processes.       *)
LEMMA LostClaimStep ==
    ASSUME IInv, NEW s \in Server, pc[s] = "idle", Claimable(s), holder' = s,
           leaseAge' = 0, UNCHANGED <<row, buildAge, pc, copy>>,
           "overrun" \in faults' <=> "overrun" \in faults
    PROVE  Safe'
  <1>1. ASSUME NEW t \in Server, Processing(t)
        PROVE  Late(t) /\ buildAge > StuckAfter /\ "overrun" \in faults
    BY <1>1, ClaimMeets
  <1>2. ASSUME NEW t \in Server, NEW u \in Server, Processing(t), Processing(u)
        PROVE  t = u
    BY <1>2, ClaimMeets
  <1>3. EarlyHolds'
    BY <1>1 DEF EarlyHolds, Early, Late, Processing
  <1>4. HasVm'
    BY DEF IInv, HasVm
  <1>5. Aged'
    <2>1. ~Late(s)
      BY DEF Late
    <2> QED
      BY <1>1, <2>1 DEF IInv, Aged, Late, Processing
  <1>6. Apart' /\ OnTime'
    BY <1>1, <1>2 DEF Apart, OnTime, Processing
  <1> QED
    BY <1>3, <1>4, <1>5, <1>6 DEF Safe

(* A claim: whoever else processes the build is late, alone, and has made  *)
(* the build too old for the new holder.                                   *)
LEMMA ClaimStep ==
    ASSUME IInv, NEW s \in Server, ClaimLease(s)
    PROVE  Safe'
  <1> USE DEF IInv, TypeOK
  <1>1. ASSUME NEW t \in Server, Processing(t)
        PROVE  Late(t) /\ buildAge > StuckAfter /\ "overrun" \in faults
    BY <1>1, ClaimMeets DEF ClaimLease
  <1>2. ASSUME NEW t \in Server, NEW u \in Server, Processing(t), Processing(u)
        PROVE  t = u
    BY <1>2, ClaimMeets DEF ClaimLease
  <1>3. /\ pc[s] = "idle" /\ pc' = [pc EXCEPT ![s] = "age"]
        /\ holder' = s /\ leaseAge' = 0
        /\ copy' = [copy EXCEPT ![s] = [status |-> status, vmId |-> vmId]]
        /\ UNCHANGED <<status, vmId, buildAge, faults>>
        /\ status \notin {"succesful", "failed"}
    BY DEF ClaimLease, Claimable, Ended
  <1>4. \A t \in Server : t # s => pc'[t] = pc[t] /\ copy'[t] = copy[t]
    BY <1>3
  <1>5. pc'[s] = "age" /\ copy'[s].status = status /\ copy'[s].vmId = vmId
    BY <1>3
  <1>6. EarlyHolds'
    <2>1. \A t \in Server : t # s => ~Early(t)
      BY <1>1 DEF Early, Late, Processing
    <2> QED
      BY <1>3, <1>4, <2>1 DEF EarlyHolds, Early
  <1>7. HasVm'
    BY <1>3, <1>4, <1>5 DEF HasVm
  <1>8. Aged'
    <2>1. ASSUME NEW t \in Server, pc'[t] \in {"exec", "succeed", "fail", "clean"}
          PROVE  t # s /\ status # "pending" /\ buildAge > StuckAfter
      BY <1>1, <1>4, <1>5, <2>1 DEF Aged, Late, Processing
    <2> QED
      BY <1>3, <2>1 DEF Aged, Late
  <1>9. Apart'
    <2>1. ASSUME NEW t \in Server, t # s, Processing(t)
          PROVE  copy'[s].status = "building"
      BY <1>1, <1>3, <1>5, <2>1 DEF Aged, BuildStatus
    <2> QED
      BY <1>2, <1>3, <1>4, <1>5, <2>1 DEF Apart, Processing
  <1>10. OnTime'
    BY <1>1, <1>3, <1>4, AgeAssumption DEF OnTime, Processing
  <1> QED
    BY <1>6, <1>7, <1>8, <1>9, <1>10 DEF Safe

(* The check of the age lets a pass go on only when no other is under way. *)
LEMMA CheckStep ==
    ASSUME IInv, NEW s \in Server, CheckAge(s)
    PROVE  Safe'
  <1> USE DEF IInv, TypeOK
  <1> DEFINE stuck == copy[s].status = "building" /\ buildAge > StuckAfter
  <1>1. pc[s] = "age" /\ UNCHANGED <<lease, buildAge, vmId, copy, faults>>
    BY DEF CheckAge, BuildMarkFailed
  <1>2. CASE stuck
    <2>1. pc' = [pc EXCEPT ![s] = "release"] /\ status' = "failed"
      BY <1>2 DEF CheckAge, BuildMarkFailed
    <2> QED
      BY <1>1, <2>1, PassGoesOn
  <1>3. CASE ~stuck
    <2>1. PICK l \in {"create", "look"} :
              /\ pc' = [pc EXCEPT ![s] = l] /\ status' = status
              /\ l = "look" => copy[s].vmId # None
      BY <1>3 DEF CheckAge
    <2>2. \A t \in Server : t # s => pc'[t] = pc[t]
      BY <2>1
    <2>3. pc'[s] = l
      BY <2>1
    <2>4. ASSUME NEW t \in Server, t # s PROVE ~Processing(t)
      <3>1. holder = s
        BY <1>1 DEF EarlyHolds, Early
      <3>2. CASE Late(t)
        BY <1>1, <1>3, <2>4, <3>1, <3>2 DEF Aged, Apart, Late, Processing
      <3>3. CASE Early(t)
        BY <2>4, <3>1, <3>3 DEF EarlyHolds
      <3> QED
        BY <3>2, <3>3 DEF Late, Early, Processing
    <2>5. EarlyHolds'
      BY <1>1, <2>2 DEF EarlyHolds, Early
    <2>6. HasVm'
      BY <1>1, <2>1, <2>2, <2>3 DEF HasVm
    <2>7. Aged'
      BY <1>1, <2>1, <2>2, <2>3 DEF Aged, Late
    <2>8. Apart'
      BY <2>2, <2>4 DEF Apart, Processing
    <2>9. OnTime'
      BY <1>1, <2>2 DEF OnTime, Processing
    <2> QED
      BY <2>5, <2>6, <2>7, <2>8, <2>9 DEF Safe
  <1> QED
    BY <1>2, <1>3

(* The age is set back only by the one pass under way.                     *)
LEMMA LinkStep ==
    ASSUME IInv, NEW s \in Server, BuildMarkBuilding(s)
    PROVE  Safe'
  <1> USE DEF IInv, TypeOK
  <1>1. /\ pc[s] = "link" /\ pc' = [pc EXCEPT ![s] = "release"]
        /\ status' = "building" /\ UNCHANGED <<lease, copy, faults>>
    BY DEF BuildMarkBuilding
  <1>2. holder = s
    BY <1>1 DEF EarlyHolds, Early
  <1>3. ASSUME NEW t \in Server, t # s PROVE ~Late(t)
    BY <1>1, <1>2, <1>3 DEF Apart, Late, Processing
  <1>4. \A t \in Server : t # s => pc'[t] = pc[t]
    BY <1>1
  <1>5. pc'[s] = "release"
    BY <1>1
  <1>6. EarlyHolds' /\ HasVm'
    BY <1>1, <1>4, <1>5 DEF EarlyHolds, HasVm, Early
  <1>7. Aged'
    BY <1>3, <1>4, <1>5 DEF Aged, Late
  <1>8. Apart' /\ OnTime'
    BY <1>1, <1>4, <1>5 DEF Apart, OnTime, Processing
  <1> QED
    BY <1>6, <1>7, <1>8 DEF Safe

(* The release of a server that holds the lease leaves at most a late one. *)
LEMMA ReleaseStep ==
    ASSUME IInv, NEW s \in Server, ReleaseLease(s)
    PROVE  Safe'
  <1> USE DEF IInv, TypeOK
  <1>1. /\ pc[s] = "release" /\ pc' = [pc EXCEPT ![s] = "idle"]
        /\ holder' = IF holder = s THEN None ELSE holder
        /\ UNCHANGED <<row, leaseAge, buildAge, copy, faults>>
    BY DEF ReleaseLease
  <1>2. \A t \in Server : t # s => pc'[t] = pc[t] /\ (holder' = t <=> holder = t)
    BY <1>1, NoneAssumption
  <1>3. pc'[s] = "idle"
    BY <1>1
  <1>4. EarlyHolds' /\ HasVm'
    BY <1>1, <1>2, <1>3 DEF EarlyHolds, HasVm, Early
  <1>5. Aged'
    BY <1>1, <1>2, <1>3 DEF Aged, Late
  <1>6. Apart'
    BY <1>1, <1>2, <1>3 DEF Apart, Processing
  <1>7. OnTime'
    BY <1>1, <1>2, <1>3 DEF OnTime, Processing
  <1> QED
    BY <1>4, <1>5, <1>6, <1>7 DEF Safe

(* Time passes for the lease and the build alike.                          *)
LEMMA ElapseStep == ASSUME IInv, Elapse PROVE Safe'
  <1> USE DEF IInv, TypeOK
  <1>1. /\ \A s \in Server : pc[s] \in {"idle", "exec"}
        /\ leaseAge' = Older(leaseAge) /\ buildAge' = Older(buildAge)
        /\ UNCHANGED <<row, holder, passes>>
    BY DEF Elapse
  <1>2. EarlyHolds' /\ HasVm' /\ Apart'
    BY <1>1 DEF EarlyHolds, HasVm, Apart, Early, Processing
  <1>3. Aged'
    BY <1>1, OlderAges, AgeAssumption DEF Aged, Late, Age
  <1>4. OnTime'
    <2> SUFFICES ASSUME "overrun" \notin faults', NEW s \in Server, Processing(s)
                 PROVE  holder = s /\ leaseAge' <= StaleAfter
      BY <1>1 DEF OnTime, Processing
    <2>1. "overrun" \notin faults /\ ~Overruns
      BY DEF Elapse, Suffer
    <2>2. holder = s /\ leaseAge <= StaleAfter /\ pc[s] = "exec"
      BY <1>1, <2>1 DEF OnTime, Processing
    <2>3. leaseAge < StaleAfter
      BY <2>1, <2>2, AgeAssumption DEF Overruns, Age
    <2> QED
      BY <1>1, <2>2, <2>3, AgeAssumption DEF Older, Age
  <1> QED
    BY <1>2, <1>3, <1>4 DEF Safe

(* One step per action, by the lemmas above.                               *)
LEMMA SafeStep == IInv /\ [Next]_vars => Safe'
  <1> SUFFICES ASSUME IInv, [Next]_vars PROVE Safe'
    OBVIOUS
  <1>1. ASSUME NEW s \in Server, Pass(s) PROVE Safe'
    <2>1. CASE ClaimLease(s)
      BY <2>1, ClaimStep
    <2>2. CASE NotClaimed(s)
      BY <2>2 DEF NotClaimed, IInv, Safe, EarlyHolds, HasVm, Aged, Apart, OnTime,
         Early, Late, Processing
    <2>3. CASE CheckAge(s)
      BY <2>3, CheckStep
    <2>4. CASE VMCreate(s)
      <3>1. \A t \in Server \ {s} : copy'[t] = copy[t]
        BY <2>4 DEF VMCreate, IInv, TypeOK
      <3> QED
        BY <2>4, <3>1, PassGoesOn DEF VMCreate
    <2>5. CASE BuildMarkBuilding(s)
      BY <2>5, LinkStep
    <2>6. CASE LookAtVm(s)
      <3>1. PICK l \in {"exec", "release"} : pc' = [pc EXCEPT ![s] = l]
        BY <2>6 DEF LookAtVm
      <3>2. /\ pc[s] = "look" /\ UNCHANGED <<lease, buildAge, vmId, copy, faults>>
            /\ status' \in {status, "failed"}
        BY <2>6 DEF LookAtVm, BuildMarkFailed
      <3> QED
        BY <3>1, <3>2, PassGoesOn
    <2>7. CASE ExecuteBuild(s)
      BY <2>7, PassGoesOn DEF ExecuteBuild, Late
    <2>8. CASE BuildMarkSuccessful(s)
      BY <2>8, PassGoesOn DEF BuildMarkSuccessful, Late
    <2>9. CASE ExecutionFailed(s)
      BY <2>9, PassGoesOn DEF ExecutionFailed, BuildMarkFailed, Late
    <2>10. CASE CleanupBuildVM(s)
      BY <2>10, PassGoesOn DEF CleanupBuildVM
    <2>11. CASE ReleaseLease(s)
      BY <2>11, ReleaseStep
    <2> QED
      BY <1>1, <2>1, <2>2, <2>3, <2>4, <2>5, <2>6, <2>7, <2>8, <2>9, <2>10,
         <2>11 DEF Pass
  <1>2. ASSUME NEW s \in Server, StatementFails(s) PROVE Safe'
    <2>1. PICK l : /\ pc' = [pc EXCEPT ![s] = l]
                   /\ \/ pc[s] = "succeed" /\ l = "fail"
                      \/ pc[s] = "fail" /\ l = "clean"
                      \/ l \in {"idle", "release"}
      BY <1>2 DEF StatementFails
    <2> QED
      BY <1>2, <2>1, PassGoesOn DEF StatementFails, Suffer, Late
  <1>3. ASSUME NEW s \in Server, Crash(s) PROVE Safe'
    BY <1>3, PassGoesOn DEF Crash, Suffer
  <1>9. ASSUME NEW s \in Server, ReplyLost(s) PROVE Safe'
    <2>1. CASE pc[s] = "idle"
      BY <1>9, <2>1, LostClaimStep DEF ReplyLost, Suffer
    <2>2. CASE pc[s] = "create"
      BY <1>9, <2>2, PassGoesOn DEF ReplyLost, Suffer
    <2>3. CASE pc[s] = "succeed"
      BY <1>9, <2>3, PassGoesOn DEF ReplyLost, Suffer, Late
    <2> QED
      BY <1>9, <2>1, <2>2, <2>3 DEF ReplyLost
  <1>4. ASSUME UNCHANGED <<row, lease, buildAge, passes>>, faults \subseteq faults'
        PROVE  Safe'
    BY <1>4 DEF IInv, Safe, EarlyHolds, HasVm, Aged, Apart, OnTime, Early, Late,
       Processing
  <1>5. ASSUME NEW s \in Server, Resync(s) \/ LeadMoves(s) PROVE Safe'
    BY <1>4, <1>5 DEF Resync, LeadMoves, Suffer
  <1>6. ASSUME NEW v \in Vm, VmBoots(v) \/ VmFails(v) \/ VmRestarts(v)
        PROVE  Safe'
    BY <1>4, <1>6 DEF VmBoots, VmFails, VmRestarts, Suffer
  <1>7. CASE Elapse
    BY <1>7, ElapseStep
  <1>8. CASE UNCHANGED vars
    BY <1>4, <1>8 DEF vars
  <1> QED
    BY <1>1, <1>2, <1>3, <1>5, <1>6, <1>7, <1>8, <1>9 DEF Next

(* The invariant holds in every state.                                     *)
THEOREM Invariance == Spec => []IInv
  <1>1. IInv /\ [Next]_vars => IInv'
    BY TypeStep, SafeStep DEF IInv, Safe
  <1> QED
    BY InitIInv, <1>1, PTL DEF Spec

(* Every variable has its type.                                            *)
THEOREM TypeCorrect == Spec => []TypeOK
  <1>1. IInv => TypeOK
    BY DEF IInv
  <1> QED
    BY Invariance, <1>1, PTL

(* No build is executed on two servers at once, whoever leads, crashes or  *)
(* outlasts its lease.                                                     *)
THEOREM ExecutedOnce == Spec => []OneExecutor
  <1>1. IInv => OneExecutor
    BY DEF IInv, Apart, Processing, OneExecutor
  <1> QED
    BY Invariance, <1>1, PTL

(* A claim finds nobody while nobody was late; only Elapse makes one late. *)
LEMMA StepRefines == IInv /\ [Next]_vars => [Lease!Next]_(Lease!vars)
  <1> DEFINE holders == {s \in Server : Processing(s)}
             late    == "overrun" \in faults
  <1> SUFFICES ASSUME IInv, [Next]_vars PROVE [Lease!Next]_(Lease!vars)
    OBVIOUS
  <1>0. TypeOK
    BY DEF IInv
  <1>1. ASSUME UNCHANGED pc, UNCHANGED late PROVE UNCHANGED Lease!vars
    BY <1>1 DEF Lease!vars, Processing
  <1>2. ASSUME NEW s \in Server, ClaimLease(s) PROVE Lease!Next
    <2>1. ASSUME ~late PROVE holders = {}
      <3>1. ASSUME NEW t \in Server, Processing(t) PROVE FALSE
        <4>1. holder = t /\ leaseAge <= StaleAfter /\ t # s
          BY <1>2, <2>1, <3>1 DEF IInv, OnTime, ClaimLease, Processing
        <4> QED
          BY <1>0, <1>2, <4>1, NoneAssumption, AgeAssumption
          DEF ClaimLease, Claimable, TypeOK, Age
      <3> QED
        BY <3>1
    <2>2. pc' = [pc EXCEPT ![s] = "age"] /\ faults' = faults
      BY <1>2 DEF ClaimLease
    <2>3. holders' = holders \union {s}
      BY <1>0, <2>2 DEF Processing, TypeOK
    <2>4. Lease!Acquire(s)
      BY <2>1, <2>2, <2>3 DEF Lease!Acquire
    <2> QED
      BY <2>4 DEF Lease!Next
  <1>3. ASSUME NEW s \in Server, NEW l, Processing(s), UNCHANGED late,
               pc' = [pc EXCEPT ![s] = l]
        PROVE  [Lease!Next]_(Lease!vars)
    <2>1. CASE l \in {"idle", "release"}
      <3>1. holders' = holders \ {s}
        BY <1>0, <1>3, <2>1 DEF Processing, TypeOK
      <3>2. Lease!Release(s)
        BY <1>3, <3>1 DEF Lease!Release
      <3> QED
        BY <3>2 DEF Lease!Next
    <2>2. CASE l \notin {"idle", "release"}
      <3>1. holders' = holders
        BY <1>0, <1>3, <2>2 DEF Processing, TypeOK
      <3> QED
        BY <1>3, <3>1 DEF Lease!vars
    <2> QED
      BY <2>1, <2>2
  <1>4. ASSUME NEW s \in Server, ~Processing(s), UNCHANGED late,
               pc' = [pc EXCEPT ![s] = "idle"]
        PROVE  UNCHANGED Lease!vars
    <2>1. holders' = holders
      BY <1>0, <1>4 DEF Processing, TypeOK
    <2> QED
      BY <1>4, <2>1 DEF Lease!vars
  <1>5. ASSUME NEW s \in Server, Pass(s) PROVE [Lease!Next]_(Lease!vars)
    <2>1. CASE ClaimLease(s)
      BY <1>2, <2>1
    <2>2. CASE NotClaimed(s)
      BY <1>1, <2>2 DEF NotClaimed
    <2>3. CASE CheckAge(s)
      <3>1. \E l : pc' = [pc EXCEPT ![s] = l]
        BY <2>3 DEF CheckAge
      <3> QED
        BY <1>3, <2>3, <3>1 DEF CheckAge, Processing
    <2>4. CASE VMCreate(s) \/ BuildMarkBuilding(s)
      BY <1>3, <2>4 DEF VMCreate, BuildMarkBuilding, Processing
    <2>5. CASE LookAtVm(s)
      <3>1. \E l : pc' = [pc EXCEPT ![s] = l]
        BY <2>5 DEF LookAtVm
      <3> QED
        BY <1>3, <2>5, <3>1 DEF LookAtVm, Processing
    <2>6. CASE ExecuteBuild(s) \/ BuildMarkSuccessful(s)
      BY <1>3, <2>6 DEF ExecuteBuild, BuildMarkSuccessful, Processing
    <2>7. CASE ExecutionFailed(s) \/ CleanupBuildVM(s)
      BY <1>3, <2>7 DEF ExecutionFailed, CleanupBuildVM, Processing
    <2>8. CASE ReleaseLease(s)
      BY <1>4, <2>8 DEF ReleaseLease, Processing
    <2> QED
      BY <1>5, <2>1, <2>2, <2>3, <2>4, <2>5, <2>6, <2>7, <2>8 DEF Pass
  <1>6. ASSUME NEW s \in Server, StatementFails(s)
        PROVE  [Lease!Next]_(Lease!vars)
    <2>1. UNCHANGED late
      BY <1>6 DEF StatementFails, Suffer
    <2>2. CASE pc[s] = "release"
      BY <1>4, <1>6, <2>1, <2>2 DEF StatementFails, Processing
    <2>3. CASE pc[s] # "release"
      <3>1. \E l : pc' = [pc EXCEPT ![s] = l]
        BY <1>6 DEF StatementFails
      <3> QED
        BY <1>3, <1>6, <2>1, <2>3, <3>1 DEF StatementFails, Processing
    <2> QED
      BY <2>2, <2>3
  <1>7. ASSUME NEW s \in Server, Crash(s) PROVE [Lease!Next]_(Lease!vars)
    <2>1. UNCHANGED late
      BY <1>7 DEF Crash, Suffer
    <2> QED
      BY <1>3, <1>4, <1>7, <2>1 DEF Crash
  <1>8. ASSUME NEW s \in Server, Resync(s) \/ LeadMoves(s)
        PROVE  UNCHANGED Lease!vars
    BY <1>1, <1>8 DEF Resync, LeadMoves, Suffer
  <1>12. ASSUME NEW s \in Server, ReplyLost(s) PROVE [Lease!Next]_(Lease!vars)
    <2>1. UNCHANGED late
      BY <1>12 DEF ReplyLost, Suffer
    <2>2. UNCHANGED pc \/ (Processing(s) /\ \E l : pc' = [pc EXCEPT ![s] = l])
      BY <1>12 DEF ReplyLost, Processing
    <2> QED
      BY <1>1, <1>3, <2>1, <2>2
  <1>9. ASSUME NEW v \in Vm, VmBoots(v) \/ VmFails(v) \/ VmRestarts(v)
        PROVE  UNCHANGED Lease!vars
    BY <1>1, <1>9 DEF VmBoots, VmFails, VmRestarts, Suffer
  <1>10. CASE Elapse
    <2>1. CASE Overruns
      <3>1. \E s \in Server : Processing(s)
        BY <2>1 DEF Overruns, Processing
      <3>2. late' /\ holders' = holders
        BY <1>10, <2>1 DEF Elapse, Suffer, Processing
      <3> QED
        BY <3>1, <3>2 DEF Lease!Outstay, Lease!Next
    <2>2. CASE ~Overruns
      BY <1>1, <1>10, <2>2 DEF Elapse
    <2> QED
      BY <2>1, <2>2
  <1>11. CASE UNCHANGED vars
    BY <1>1, <1>11 DEF vars
  <1> QED
    BY <1>5, <1>6, <1>7, <1>8, <1>9, <1>10, <1>11, <1>12 DEF Next

(* The lease of a build is a lease lock, with the servers whose passes are *)
(* under way for its holders.                                              *)
THEOREM ImplementsLease == Spec => LeaseSpec
  <1>1. Init => Lease!Init
    BY DEF Init, Lease!Init, Processing
  <1> QED
    BY Invariance, StepRefines, <1>1, PTL DEF Spec, LeaseSpec, Lease!Spec

-----------------------------------------------------------------------------
(* Nobody was late, and no error was reported of what took effect.         *)
Orderly == faults \intersect {"overrun", "reply"} = {}

(* Then a pass that may still mark the build finds it open, and an ended   *)
(* build has exactly the marks of its one outcome.                         *)
OneOutcome ==
    Orderly =>
        /\ \A s \in Server : Processing(s) /\ pc[s] # "clean" => ~Ended
        /\ failedAt \/ imageId => Ended
        /\ ~(failedAt /\ imageId)

(* While nobody was late, only one server processes the build.             *)
LEMMA Alone ==
    ASSUME IInv, "overrun" \notin faults, NEW s \in Server, Processing(s)
    PROVE  \A t \in Server : Processing(t) => t = s
  BY DEF IInv, OnTime

(* A pass that has not marked the build yet leaves it alone, or marks it   *)
(* and does not mark it again.                                             *)
LEMMA PassMarks ==
    ASSUME IInv, OneOutcome, faults \subseteq faults', NEW s \in Server, NEW l,
           Processing(s), pc[s] # "clean", pc' = [pc EXCEPT ![s] = l],
           \/ UNCHANGED <<status, failedAt, imageId>>
           \/ /\ l \in {"release", "clean"}
              /\ \/ BuildMarkFailed
                 \/ status' = "building" /\ UNCHANGED <<failedAt, imageId>>
                 \/ status' = "succesful" /\ imageId' = TRUE /\ failedAt' = failedAt
    PROVE  OneOutcome'
  <1> SUFFICES ASSUME Orderly
               PROVE  /\ \A t \in Server : (Processing(t) /\ pc[t] # "clean")' => ~Ended'
                      /\ failedAt' \/ imageId' => Ended'
                      /\ ~(failedAt' /\ imageId')
    BY DEF OneOutcome, Orderly
  <1>1. ~Ended /\ ~failedAt /\ ~imageId
    BY DEF OneOutcome
  <1>2. ASSUME NEW t \in Server, (Processing(t) /\ pc[t] # "clean")'
        PROVE  t = s /\ l \notin {"release", "clean"}
    BY <1>2, Alone DEF Processing, IInv, TypeOK, Orderly
  <1> QED
    BY <1>1, <1>2 DEF Ended, BuildMarkFailed

(* Steps that change neither the row nor the passes, steps that end one,   *)
(* and steps that go on after the mark.                                    *)
LEMMA PassKeeps ==
    ASSUME IInv, OneOutcome, faults \subseteq faults',
           UNCHANGED <<status, failedAt, imageId>>,
           \A t \in Server : (Processing(t) /\ pc[t] # "clean")'
                                => Processing(t) /\ pc[t] # "clean"
    PROVE  OneOutcome'
  BY DEF OneOutcome, Orderly, Ended

(* One step per action.                                                    *)
LEMMA OutcomeStep == IInv /\ OneOutcome /\ [Next]_vars => OneOutcome'
  <1> SUFFICES ASSUME IInv, OneOutcome, [Next]_vars PROVE OneOutcome'
    OBVIOUS
  <1>0. pc \in [Server -> {"idle", "age", "create", "link", "look", "exec",
                           "succeed", "fail", "clean", "release"}]
    BY DEF IInv, TypeOK
  <1>1. ASSUME NEW s \in Server, ClaimLease(s) PROVE OneOutcome'
    BY <1>0, <1>1 DEF ClaimLease, Claimable, OneOutcome, Orderly, Ended, Processing
  <1>2. ASSUME NEW s \in Server, NotClaimed(s) \/ Resync(s) \/ LeadMoves(s)
        PROVE  OneOutcome'
    BY <1>2, PassKeeps DEF NotClaimed, Resync, LeadMoves, Suffer, Processing
  <1>3. ASSUME NEW s \in Server, CheckAge(s) PROVE OneOutcome'
    <2>1. PICK l : pc' = [pc EXCEPT ![s] = l]
                   /\ (UNCHANGED row \/ (BuildMarkFailed /\ l = "release"))
      BY <1>3 DEF CheckAge
    <2> QED
      BY <1>3, <2>1, PassMarks DEF CheckAge, Processing
  <1>4. ASSUME NEW s \in Server, VMCreate(s) PROVE OneOutcome'
    BY <1>4, PassMarks DEF VMCreate, Processing
  <1>5. ASSUME NEW s \in Server, BuildMarkBuilding(s) PROVE OneOutcome'
    BY <1>5, PassMarks DEF BuildMarkBuilding, Processing
  <1>6. ASSUME NEW s \in Server, LookAtVm(s) PROVE OneOutcome'
    <2>1. PICK l : pc' = [pc EXCEPT ![s] = l]
                   /\ (UNCHANGED row \/ (BuildMarkFailed /\ l = "release"))
      BY <1>6 DEF LookAtVm
    <2> QED
      BY <1>6, <2>1, PassMarks DEF LookAtVm, Processing
  <1>7. ASSUME NEW s \in Server, ExecuteBuild(s) PROVE OneOutcome'
    BY <1>7, PassMarks DEF ExecuteBuild, Processing
  <1>8. ASSUME NEW s \in Server, BuildMarkSuccessful(s) PROVE OneOutcome'
    BY <1>8, PassMarks DEF BuildMarkSuccessful, Processing
  <1>9. ASSUME NEW s \in Server, ExecutionFailed(s) PROVE OneOutcome'
    BY <1>9, PassMarks DEF ExecutionFailed, Processing
  <1>10. ASSUME NEW s \in Server, CleanupBuildVM(s) \/ ReleaseLease(s) \/ Crash(s)
         PROVE  OneOutcome'
    BY <1>0, <1>10, PassKeeps DEF CleanupBuildVM, ReleaseLease, Crash, Suffer, Processing
  <1>11. ASSUME NEW s \in Server, StatementFails(s) PROVE OneOutcome'
    <2>1. PICK l : /\ pc' = [pc EXCEPT ![s] = l]
                   /\ \/ pc[s] = "succeed" /\ l = "fail"
                      \/ l \in {"clean", "release", "idle"}
      BY <1>11 DEF StatementFails
    <2>2. \A t \in Server : (Processing(t) /\ pc[t] # "clean")'
                               => Processing(t) /\ pc[t] # "clean"
      BY <1>0, <2>1 DEF Processing
    <2>3. UNCHANGED <<status, failedAt, imageId>> /\ faults \subseteq faults'
      BY <1>11 DEF StatementFails, Suffer
    <2> QED
      BY <2>2, <2>3, PassKeeps
  <1>12. ASSUME NEW v \in Vm, VmBoots(v) \/ VmFails(v) \/ VmRestarts(v)
         PROVE  OneOutcome'
    BY <1>12, PassKeeps DEF VmBoots, VmFails, VmRestarts, Suffer, Processing
  <1>15. ASSUME NEW s \in Server, ReplyLost(s) PROVE OneOutcome'
    BY <1>15 DEF ReplyLost, Suffer, OneOutcome, Orderly
  <1>13. CASE Elapse
    BY <1>13, PassKeeps DEF Elapse, Suffer, Processing
  <1>14. CASE UNCHANGED vars
    BY <1>14, PassKeeps DEF vars, Processing
  <1> QED
    BY <1>1, <1>2, <1>3, <1>4, <1>5, <1>6, <1>7, <1>8, <1>9, <1>10, <1>11,
       <1>12, <1>13, <1>14, <1>15 DEF Next, Pass

(* Only a pass that has not marked the build writes its outcome.           *)
LEMMA OutcomeKept ==
    ASSUME OneOutcome, [Next]_vars, Ended, Orderly
    PROVE  UNCHANGED <<status, failedAt, imageId>>
  <1>1. \A s \in Server : pc[s] \notin {"age", "link", "look", "succeed", "fail"}
    BY DEF OneOutcome, Processing
  <1>2. ASSUME NEW s \in Server, Pass(s) PROVE UNCHANGED <<status, failedAt, imageId>>
    BY <1>1, <1>2 DEF Pass, ClaimLease, NotClaimed, CheckAge, VMCreate, LookAtVm,
       BuildMarkBuilding, ExecuteBuild, BuildMarkSuccessful, ExecutionFailed,
       CleanupBuildVM, ReleaseLease
  <1> QED
    BY <1>1, <1>2 DEF Next, StatementFails, ReplyLost, Resync, LeadMoves, Crash,
       VmBoots, VmFails, VmRestarts, Elapse, vars

(* An ended build keeps its outcome until an execution outlasts its lease, *)
(* or a statement takes effect and reports an error.                       *)
THEOREM OutcomeStays == Spec => OutcomeStable
  <1>1. Init => OneOutcome
    BY DEF Init, OneOutcome, Processing
  <1>2. OneOutcome /\ [Next]_vars =>
            [Ended /\ faults \intersect {"overrun", "reply"} = {} =>
                status' = status /\ ~(failedAt' /\ imageId')]_vars
    BY OutcomeKept DEF OneOutcome, Orderly
  <1> QED
    BY <1>1, <1>2, Invariance, OutcomeStep, PTL DEF Spec, OutcomeStable

-----------------------------------------------------------------------------
(* A pass that looks at the build VM has one.                              *)
CopyHasVm == \A s \in Server : pc[s] = "look" \/ Late(s) => copy[s].vmId # None

(* It reads the VM when it claims the lease, and creates one in between.   *)
LEMMA CopyStep == TypeOK /\ CopyHasVm /\ [Next]_vars => CopyHasVm'
  <1> SUFFICES ASSUME TypeOK, CopyHasVm, [Next]_vars PROVE CopyHasVm'
    OBVIOUS
  <1> USE DEF TypeOK, CopyHasVm, Late
  <1>1. ASSUME NEW s \in Server, ClaimLease(s) PROVE CopyHasVm'
    BY <1>1 DEF ClaimLease
  <1>2. ASSUME NEW s \in Server, CheckAge(s) PROVE CopyHasVm'
    BY <1>2 DEF CheckAge
  <1>3. ASSUME NEW s \in Server, VMCreate(s) PROVE CopyHasVm'
    BY <1>3 DEF VMCreate
  <1>4. ASSUME NEW s \in Server, NEW l, pc' = [pc EXCEPT ![s] = l], UNCHANGED copy,
               l \in {"idle", "release"} \/ Late(s) \/ pc[s] = "look"
        PROVE  CopyHasVm'
    BY <1>4
  <1>5. ASSUME NEW s \in Server, LookAtVm(s) PROVE CopyHasVm'
    <2>1. \E l : pc' = [pc EXCEPT ![s] = l]
      BY <1>5 DEF LookAtVm
    <2> QED
      BY <1>4, <1>5, <2>1 DEF LookAtVm
  <1>6. ASSUME NEW s \in Server, BuildMarkBuilding(s) \/ ReleaseLease(s) \/ Crash(s)
        PROVE  CopyHasVm'
    BY <1>4, <1>6 DEF BuildMarkBuilding, ReleaseLease, Crash
  <1>10. ASSUME NEW s \in Server, ReplyLost(s) PROVE CopyHasVm'
    BY <1>4, <1>10 DEF ReplyLost
  <1>7. ASSUME NEW s \in Server,
               ExecuteBuild(s) \/ BuildMarkSuccessful(s) \/ ExecutionFailed(s)
               \/ CleanupBuildVM(s)
        PROVE  CopyHasVm'
    BY <1>4, <1>7 DEF ExecuteBuild, BuildMarkSuccessful, ExecutionFailed, CleanupBuildVM
  <1>8. ASSUME NEW s \in Server, StatementFails(s) PROVE CopyHasVm'
    <2>1. PICK l : /\ pc' = [pc EXCEPT ![s] = l]
                   /\ l \in {"idle", "release"} \/ pc[s] \in {"succeed", "fail"}
      BY <1>8 DEF StatementFails
    <2> QED
      BY <1>4, <1>8, <2>1 DEF StatementFails
  <1>9. CASE UNCHANGED passes
    BY <1>9
  <1> QED
    BY <1>1, <1>2, <1>3, <1>5, <1>6, <1>7, <1>8, <1>9, <1>10
    DEF Next, Pass, NotClaimed, Resync, LeadMoves, VmBoots, VmFails, VmRestarts,
        Elapse, vars

(* From the execution on, only the deletion of the VM, a fault or a crash  *)
(* leads out of the pass.                                                  *)
LEMMA LeavesClean ==
    ASSUME TypeOK, CopyHasVm, [Next]_vars, NEW s \in Server, Late(s),
           pc'[s] \in {"release", "idle"}, faults' = faults
    PROVE  vm'[copy[s].vmId] = "deleted"
  <1>1. copy[s].vmId \in Vm
    BY DEF TypeOK, CopyHasVm
  <1>2. ASSUME NEW t \in Server, Pass(t) PROVE t = s /\ CleanupBuildVM(s)
    BY <1>2 DEF TypeOK, Late, Pass, ClaimLease, NotClaimed, CheckAge, VMCreate,
       LookAtVm, BuildMarkBuilding, ExecuteBuild, BuildMarkSuccessful,
       ExecutionFailed, CleanupBuildVM, ReleaseLease
  <1>3. \E t \in Server : Pass(t)
    BY DEF Late, Next, StatementFails, ReplyLost, Resync, LeadMoves, Crash, VmBoots, VmFails,
       VmRestarts, Elapse, vars, Suffer
  <1> QED
    BY <1>1, <1>2, <1>3 DEF CleanupBuildVM, TypeOK

(* A pass that has executed the build leaves with its VM deleted, whatever *)
(* the outcome, unless a crash or the failure of the deletion ends it.     *)
THEOREM ReleasesVm == Spec => ExecutedVmReleased
  <1>1. Init => CopyHasVm
    BY DEF Init, CopyHasVm, Late
  <1>2. TypeOK /\ CopyHasVm /\ [Next]_vars =>
            [\A s \in Server :
                /\ pc[s] \in {"exec", "succeed", "fail", "clean"}
                /\ pc'[s] \in {"release", "idle"}
                /\ faults' = faults
                => vm'[copy[s].vmId] = "deleted"]_vars
    BY LeavesClean DEF Late
  <1> QED
    BY <1>1, <1>2, CopyStep, TypeCorrect, PTL DEF Spec, ExecutedVmReleased
=============================================================================
