------------------------- MODULE VmSupervisorProofs -------------------------
(***************************************************************************)
(* For any number of VMs, processes and faults: the types, that a VM never *)
(* has two hypervisors, that a live hypervisor can always be found to be   *)
(* killed, and that its vsock listener stays.  None of the three is        *)
(* inductive: vmToCmd is emptied by name and not by process, so what makes *)
(* it safe is that a goroutine still under way belongs to the process the  *)
(* map holds, unless the VM is deleted and never launched again (Watched). *)
(***************************************************************************)
EXTENDS VmSupervisor, TLAPS

Launching == {"exec", "mark"}
Deleting  == {"take", "kill", "wipe"}

(* A live hypervisor is in vmToCmd or with the delete pass.                *)
Found(v) ==
    \A n \in Slot : proc[v][n] = "alive" =>
        cmd[v] = n \/ (pc[v] = "kill" /\ held[v] = n)

(* A launch begins with an empty map, and from then on holds its entry,    *)
(* which no goroutine watches yet.                                         *)
Launched(v) ==
    /\ pc[v] \in {"prepare", "install"} => cmd[v] = NoSlot
    /\ pc[v] \in Launching =>
          /\ held[v] \in Slot
          /\ cmd[v] = held[v]
          /\ waiter[v][held[v]] = "none"
          /\ proc[v][held[v]] # "free"
    /\ pc[v] = "exec" => proc[v][held[v]] = "made"

(* Only a deleted VM goes through the delete pass, which empties the map.  *)
Deleted(v) ==
    /\ pc[v] \in Deleting => deleted[v]
    /\ pc[v] = "kill" => cmd[v] = NoSlot

(* A goroutine that has not yet emptied the map is that of the process in  *)
(* the map, unless the VM is deleted; past cmd.Wait its process is dead.   *)
Watched(v) ==
    \A n \in Slot :
        /\ waiter[v][n] # "none" => proc[v][n] # "free"
        /\ waiter[v][n] \in {"report", "forget", "wake"} =>
              proc[v][n] \in {"ok", "error"}
        /\ waiter[v][n] \in {"wait", "report", "forget"} /\ cmd[v] # n =>
              /\ cmd[v] = NoSlot
              /\ deleted[v] /\ pc[v] \in Deleting \union {"idle"}

(* The listener is registered between Prepare and Forget.                  *)
Listening(v) ==
    /\ sock[v] /\ cmd[v] = NoSlot => pc[v] = "install"
    /\ pc[v] = "install" => sock[v]
    /\ pc[v] \in Deleting => ~sock[v]
    /\ cmd[v] # NoSlot /\ ~deleted[v] => sock[v]

IInv ==
    /\ TypeOK
    /\ \A v \in VM :
          Found(v) /\ Launched(v) /\ Deleted(v) /\ Watched(v) /\ Listening(v)
(* The first pass over every VM is due and nothing runs.                   *)
LEMMA InitIInv == Init => IInv
  BY SlotAssumption
     DEF Init, IInv, TypeOK, Status, Found, Launched, Deleted, Watched,
         Listening, Launching, Deleting

(* The fault counters stay counters.                                       *)
LEMMA SufferType ==
    ASSUME faults \in [FaultKind -> Nat], NEW k \in FaultKind, Suffer(k)
    PROVE  faults' \in [FaultKind -> Nat]
  BY DEF Suffer

(* Every step keeps the types.                                             *)
LEMMA TypeStep == TypeOK /\ [Next]_vars => TypeOK'
<1> SUFFICES ASSUME TypeOK, [Next]_vars PROVE TypeOK'
    OBVIOUS
<1> USE DEF TypeOK, Status, Goto, RegisterVM, UnregisterVM, rows, pass, procs
<1>1. ASSUME NEW v \in VM, BeginPass(v) PROVE TypeOK'
    BY <1>1 DEF BeginPass
<1>2. ASSUME NEW v \in VM, Advance(v) PROVE TypeOK'
    BY <1>2 DEF Advance, VMUpdateStatus
<1>3. ASSUME NEW v \in VM, AlreadyRunning(v) PROVE TypeOK'
    BY <1>3 DEF AlreadyRunning, VMUpdateStatus
<1>4. ASSUME NEW v \in VM, NotRunning(v) PROVE TypeOK'
    BY <1>4 DEF NotRunning
<1>5. ASSUME NEW v \in VM, Prepare(v) PROVE TypeOK'
    BY <1>5 DEF Prepare
<1>6. ASSUME NEW v \in VM, PrepareFails(v) PROVE TypeOK'
    BY <1>6, SufferType DEF PrepareFails, ReturnErr, FaultKind
<1>7. ASSUME NEW v \in VM, NEW n \in Slot, Install(v, n) PROVE TypeOK'
    BY <1>7 DEF Install
<1>8. ASSUME NEW v \in VM, Exec(v) PROVE TypeOK'
    BY <1>8 DEF Exec
<1>9. ASSUME NEW v \in VM, ExecFails(v) PROVE TypeOK'
    BY <1>9, SufferType DEF ExecFails, ReturnErr, FaultKind
<1>10. ASSUME NEW v \in VM, MarkRunning(v) PROVE TypeOK'
    BY <1>10 DEF MarkRunning, VMUpdateStatus
<1>11. ASSUME NEW v \in VM, MarkFails(v) PROVE TypeOK'
    BY <1>11, SufferType DEF MarkFails, ReturnErr, FaultKind
<1>12. ASSUME NEW v \in VM, Take(v) PROVE TypeOK'
    BY <1>12 DEF Take
<1>13. ASSUME NEW v \in VM, Kill(v) PROVE TypeOK'
  <2>1. CASE held[v] # NoSlot /\ proc[v][held[v]] = "alive"
    <3>1. held[v] \in Slot
      BY <2>1
    <3>2. [proc[v] EXCEPT ![held[v]] = "error"] \in
              [Slot -> {"free", "made", "alive", "ok", "error"}]
      BY <3>1
    <3>3. proc' = [proc EXCEPT ![v] = [proc[v] EXCEPT ![held[v]] = "error"]]
      BY <1>13, <2>1 DEF Kill
    <3> QED BY <1>13, <3>2, <3>3 DEF Kill
  <2>2. CASE ~(held[v] # NoSlot /\ proc[v][held[v]] = "alive")
    BY <1>13, <2>2 DEF Kill
  <2> QED BY <2>1, <2>2
<1>14. ASSUME NEW v \in VM, Wipe(v) PROVE TypeOK'
    BY <1>14 DEF Wipe
<1>15. ASSUME NEW v \in VM, NEW n \in Slot, WaitReturns(v, n) PROVE TypeOK'
    BY <1>15 DEF WaitReturns
<1>16. ASSUME NEW v \in VM, NEW n \in Slot, Report(v, n) PROVE TypeOK'
    BY <1>16 DEF Report, VMUpdateStatus, Outcome
<1>17. ASSUME NEW v \in VM, NEW n \in Slot, ReportFails(v, n) PROVE TypeOK'
    BY <1>17, SufferType DEF ReportFails, FaultKind
<1>18. ASSUME NEW v \in VM, NEW n \in Slot, Forget(v, n) PROVE TypeOK'
    BY <1>18 DEF Forget
<1>19. ASSUME NEW v \in VM, NEW n \in Slot, Wake(v, n) PROVE TypeOK'
    BY <1>19 DEF Wake
<1>20. ASSUME NEW v \in VM, NEW n \in Slot, Exit(v, n) PROVE TypeOK'
    BY <1>20, SufferType DEF Exit, FaultKind
<1>21. ASSUME NEW v \in VM, VMSoftDelete(v) PROVE TypeOK'
    BY <1>21 DEF VMSoftDelete
<1>22. ASSUME NEW v \in VM, SpuriousEvent(v) PROVE TypeOK'
    BY <1>22 DEF SpuriousEvent
<1>23. ASSUME Restart PROVE TypeOK'
    BY <1>23, SufferType DEF Restart, FaultKind
<1>25. ASSUME NEW v \in VM, WipeFails(v) PROVE TypeOK'
    BY <1>25, SufferType DEF WipeFails, ReturnErr, FaultKind
<1>24. CASE UNCHANGED vars
    BY <1>24 DEF vars
<1> QED
    BY <1>1, <1>2, <1>3, <1>4, <1>5, <1>6, <1>7, <1>8, <1>9, <1>10, <1>11, <1>12,
       <1>13, <1>14, <1>15, <1>16, <1>17, <1>18, <1>19, <1>20, <1>21, <1>22, <1>23, <1>24,
       <1>25
       DEF Next, Pass, PassFails, Waiter

(* No step loses a live hypervisor: Forget empties the map for a dead one. *)
LEMMA FoundStep ==
    ASSUME IInv, [Next]_vars, NEW u \in VM PROVE Found(u)'
<1> USE SlotAssumption DEF IInv, TypeOK, Found, Goto, RegisterVM, UnregisterVM, rows, pass, procs,
                           Launching, Deleting
<1>1. ASSUME NEW v \in VM, BeginPass(v) PROVE Found(u)'
    BY <1>1 DEF BeginPass
<1>2. ASSUME NEW v \in VM, Advance(v) PROVE Found(u)'
    BY <1>2 DEF Advance, VMUpdateStatus
<1>3. ASSUME NEW v \in VM, AlreadyRunning(v) PROVE Found(u)'
    BY <1>3 DEF AlreadyRunning, VMUpdateStatus
<1>4. ASSUME NEW v \in VM, NotRunning(v) PROVE Found(u)'
    BY <1>4 DEF NotRunning
<1>5. ASSUME NEW v \in VM, Prepare(v) PROVE Found(u)'
    BY <1>5 DEF Prepare
<1>6. ASSUME NEW v \in VM, PrepareFails(v) PROVE Found(u)'
    BY <1>6 DEF PrepareFails, ReturnErr
<1>7. ASSUME NEW v \in VM, NEW n \in Slot, Install(v, n) PROVE Found(u)'
    BY <1>7 DEF Install
<1>8. ASSUME NEW v \in VM, Exec(v) PROVE Found(u)'
    BY <1>8 DEF Exec, Launched
<1>9. ASSUME NEW v \in VM, ExecFails(v) PROVE Found(u)'
    BY <1>9 DEF ExecFails, ReturnErr
<1>10. ASSUME NEW v \in VM, MarkRunning(v) PROVE Found(u)'
    BY <1>10 DEF MarkRunning, VMUpdateStatus
<1>11. ASSUME NEW v \in VM, MarkFails(v) PROVE Found(u)'
    BY <1>11 DEF MarkFails, ReturnErr
<1>12. ASSUME NEW v \in VM, Take(v) PROVE Found(u)'
    BY <1>12 DEF Take
<1>13. ASSUME NEW v \in VM, Kill(v) PROVE Found(u)'
    BY <1>13 DEF Kill
<1>14. ASSUME NEW v \in VM, Wipe(v) PROVE Found(u)'
    BY <1>14 DEF Wipe
<1>15. ASSUME NEW v \in VM, NEW n \in Slot, WaitReturns(v, n) PROVE Found(u)'
    BY <1>15 DEF WaitReturns
<1>16. ASSUME NEW v \in VM, NEW n \in Slot, Report(v, n) PROVE Found(u)'
    BY <1>16 DEF Report, VMUpdateStatus, Outcome
<1>17. ASSUME NEW v \in VM, NEW n \in Slot, ReportFails(v, n) PROVE Found(u)'
    BY <1>17 DEF ReportFails
<1>18. ASSUME NEW v \in VM, NEW n \in Slot, Forget(v, n) PROVE Found(u)'
  <2>1. CASE u # v
    BY <1>18, <2>1 DEF Forget
  <2>2. ASSUME u = v, NEW m \in Slot, proc[v][m] = "alive"
        PROVE  pc[v] = "kill" /\ held[v] = m
    <3>1. m # n
      BY <1>18, <2>2 DEF Forget, Watched
    <3>2. cmd[v] # m
      BY <1>18, <3>1 DEF Forget, Watched
    <3> QED BY <2>2, <3>2
  <2>3. CASE u = v
    BY <1>18, <2>2, <2>3 DEF Forget
  <2> QED BY <2>1, <2>3
<1>19. ASSUME NEW v \in VM, NEW n \in Slot, Wake(v, n) PROVE Found(u)'
    BY <1>19 DEF Wake
<1>20. ASSUME NEW v \in VM, NEW n \in Slot, Exit(v, n) PROVE Found(u)'
    BY <1>20 DEF Exit
<1>21. ASSUME NEW v \in VM, VMSoftDelete(v) PROVE Found(u)'
    BY <1>21 DEF VMSoftDelete
<1>22. ASSUME NEW v \in VM, SpuriousEvent(v) PROVE Found(u)'
    BY <1>22 DEF SpuriousEvent
<1>23. ASSUME Restart PROVE Found(u)'
    BY <1>23 DEF Restart
<1>25. ASSUME NEW v \in VM, WipeFails(v) PROVE Found(u)'
    BY <1>25 DEF WipeFails, ReturnErr
<1>24. CASE UNCHANGED vars
    BY <1>24 DEF vars
<1> QED
    BY <1>1, <1>2, <1>3, <1>4, <1>5, <1>6, <1>7, <1>8, <1>9, <1>10, <1>11, <1>12,
       <1>13, <1>14, <1>15, <1>16, <1>17, <1>18, <1>19, <1>20, <1>21, <1>22, <1>23, <1>24,
       <1>25
       DEF Next, Pass, PassFails, Waiter

(* No goroutine empties the map under a launch.                            *)
LEMMA LaunchedStep ==
    ASSUME IInv, [Next]_vars, NEW u \in VM PROVE Launched(u)'
<1> USE SlotAssumption DEF IInv, TypeOK, Launched, Goto, RegisterVM, UnregisterVM, rows, pass, procs,
                           Launching, Deleting
<1>1. ASSUME NEW v \in VM, BeginPass(v) PROVE Launched(u)'
    BY <1>1 DEF BeginPass
<1>2. ASSUME NEW v \in VM, Advance(v) PROVE Launched(u)'
    BY <1>2 DEF Advance, VMUpdateStatus
<1>3. ASSUME NEW v \in VM, AlreadyRunning(v) PROVE Launched(u)'
    BY <1>3 DEF AlreadyRunning, VMUpdateStatus
<1>4. ASSUME NEW v \in VM, NotRunning(v) PROVE Launched(u)'
    BY <1>4 DEF NotRunning
<1>5. ASSUME NEW v \in VM, Prepare(v) PROVE Launched(u)'
    BY <1>5 DEF Prepare
<1>6. ASSUME NEW v \in VM, PrepareFails(v) PROVE Launched(u)'
    BY <1>6 DEF PrepareFails, ReturnErr
<1>7. ASSUME NEW v \in VM, NEW n \in Slot, Install(v, n) PROVE Launched(u)'
    BY <1>7 DEF Install, Watched
<1>8. ASSUME NEW v \in VM, Exec(v) PROVE Launched(u)'
    BY <1>8 DEF Exec
<1>9. ASSUME NEW v \in VM, ExecFails(v) PROVE Launched(u)'
    BY <1>9 DEF ExecFails, ReturnErr
<1>10. ASSUME NEW v \in VM, MarkRunning(v) PROVE Launched(u)'
    BY <1>10 DEF MarkRunning, VMUpdateStatus
<1>11. ASSUME NEW v \in VM, MarkFails(v) PROVE Launched(u)'
    BY <1>11 DEF MarkFails, ReturnErr
<1>12. ASSUME NEW v \in VM, Take(v) PROVE Launched(u)'
    BY <1>12 DEF Take
<1>13. ASSUME NEW v \in VM, Kill(v) PROVE Launched(u)'
    BY <1>13 DEF Kill
<1>14. ASSUME NEW v \in VM, Wipe(v) PROVE Launched(u)'
    BY <1>14 DEF Wipe
<1>15. ASSUME NEW v \in VM, NEW n \in Slot, WaitReturns(v, n) PROVE Launched(u)'
    BY <1>15 DEF WaitReturns
<1>16. ASSUME NEW v \in VM, NEW n \in Slot, Report(v, n) PROVE Launched(u)'
    BY <1>16 DEF Report, VMUpdateStatus, Outcome
<1>17. ASSUME NEW v \in VM, NEW n \in Slot, ReportFails(v, n) PROVE Launched(u)'
    BY <1>17 DEF ReportFails
<1>18. ASSUME NEW v \in VM, NEW n \in Slot, Forget(v, n) PROVE Launched(u)'
    BY <1>18 DEF Forget, Watched
<1>19. ASSUME NEW v \in VM, NEW n \in Slot, Wake(v, n) PROVE Launched(u)'
    BY <1>19 DEF Wake
<1>20. ASSUME NEW v \in VM, NEW n \in Slot, Exit(v, n) PROVE Launched(u)'
    BY <1>20 DEF Exit
<1>21. ASSUME NEW v \in VM, VMSoftDelete(v) PROVE Launched(u)'
    BY <1>21 DEF VMSoftDelete
<1>22. ASSUME NEW v \in VM, SpuriousEvent(v) PROVE Launched(u)'
    BY <1>22 DEF SpuriousEvent
<1>23. ASSUME Restart PROVE Launched(u)'
    BY <1>23 DEF Restart
<1>25. ASSUME NEW v \in VM, WipeFails(v) PROVE Launched(u)'
    BY <1>25 DEF WipeFails, ReturnErr
<1>24. CASE UNCHANGED vars
    BY <1>24 DEF vars
<1> QED
    BY <1>1, <1>2, <1>3, <1>4, <1>5, <1>6, <1>7, <1>8, <1>9, <1>10, <1>11, <1>12,
       <1>13, <1>14, <1>15, <1>16, <1>17, <1>18, <1>19, <1>20, <1>21, <1>22, <1>23, <1>24,
       <1>25
       DEF Next, Pass, PassFails, Waiter

(* Only BeginPass on a deleted row leads to the delete pass.               *)
LEMMA DeletedStep ==
    ASSUME IInv, [Next]_vars, NEW u \in VM PROVE Deleted(u)'
<1> USE SlotAssumption DEF IInv, TypeOK, Deleted, Goto, RegisterVM, UnregisterVM, rows, pass, procs,
                           Launching, Deleting
<1>1. ASSUME NEW v \in VM, BeginPass(v) PROVE Deleted(u)'
    BY <1>1 DEF BeginPass
<1>2. ASSUME NEW v \in VM, Advance(v) PROVE Deleted(u)'
    BY <1>2 DEF Advance, VMUpdateStatus
<1>3. ASSUME NEW v \in VM, AlreadyRunning(v) PROVE Deleted(u)'
    BY <1>3 DEF AlreadyRunning, VMUpdateStatus
<1>4. ASSUME NEW v \in VM, NotRunning(v) PROVE Deleted(u)'
    BY <1>4 DEF NotRunning
<1>5. ASSUME NEW v \in VM, Prepare(v) PROVE Deleted(u)'
    BY <1>5 DEF Prepare
<1>6. ASSUME NEW v \in VM, PrepareFails(v) PROVE Deleted(u)'
    BY <1>6 DEF PrepareFails, ReturnErr
<1>7. ASSUME NEW v \in VM, NEW n \in Slot, Install(v, n) PROVE Deleted(u)'
    BY <1>7 DEF Install
<1>8. ASSUME NEW v \in VM, Exec(v) PROVE Deleted(u)'
    BY <1>8 DEF Exec
<1>9. ASSUME NEW v \in VM, ExecFails(v) PROVE Deleted(u)'
    BY <1>9 DEF ExecFails, ReturnErr
<1>10. ASSUME NEW v \in VM, MarkRunning(v) PROVE Deleted(u)'
    BY <1>10 DEF MarkRunning, VMUpdateStatus
<1>11. ASSUME NEW v \in VM, MarkFails(v) PROVE Deleted(u)'
    BY <1>11 DEF MarkFails, ReturnErr
<1>12. ASSUME NEW v \in VM, Take(v) PROVE Deleted(u)'
    BY <1>12 DEF Take
<1>13. ASSUME NEW v \in VM, Kill(v) PROVE Deleted(u)'
    BY <1>13 DEF Kill
<1>14. ASSUME NEW v \in VM, Wipe(v) PROVE Deleted(u)'
    BY <1>14 DEF Wipe
<1>15. ASSUME NEW v \in VM, NEW n \in Slot, WaitReturns(v, n) PROVE Deleted(u)'
    BY <1>15 DEF WaitReturns
<1>16. ASSUME NEW v \in VM, NEW n \in Slot, Report(v, n) PROVE Deleted(u)'
    BY <1>16 DEF Report, VMUpdateStatus, Outcome
<1>17. ASSUME NEW v \in VM, NEW n \in Slot, ReportFails(v, n) PROVE Deleted(u)'
    BY <1>17 DEF ReportFails
<1>18. ASSUME NEW v \in VM, NEW n \in Slot, Forget(v, n) PROVE Deleted(u)'
    BY <1>18 DEF Forget
<1>19. ASSUME NEW v \in VM, NEW n \in Slot, Wake(v, n) PROVE Deleted(u)'
    BY <1>19 DEF Wake
<1>20. ASSUME NEW v \in VM, NEW n \in Slot, Exit(v, n) PROVE Deleted(u)'
    BY <1>20 DEF Exit
<1>21. ASSUME NEW v \in VM, VMSoftDelete(v) PROVE Deleted(u)'
    BY <1>21 DEF VMSoftDelete
<1>22. ASSUME NEW v \in VM, SpuriousEvent(v) PROVE Deleted(u)'
    BY <1>22 DEF SpuriousEvent
<1>23. ASSUME Restart PROVE Deleted(u)'
    BY <1>23 DEF Restart
<1>25. ASSUME NEW v \in VM, WipeFails(v) PROVE Deleted(u)'
    BY <1>25 DEF WipeFails, ReturnErr
<1>24. CASE UNCHANGED vars
    BY <1>24 DEF vars
<1> QED
    BY <1>1, <1>2, <1>3, <1>4, <1>5, <1>6, <1>7, <1>8, <1>9, <1>10, <1>11, <1>12,
       <1>13, <1>14, <1>15, <1>16, <1>17, <1>18, <1>19, <1>20, <1>21, <1>22, <1>23, <1>24,
       <1>25
       DEF Next, Pass, PassFails, Waiter

(* A launch finds the map empty, so no goroutine of an earlier one is left.*)
LEMMA WatchedStep ==
    ASSUME IInv, [Next]_vars, NEW u \in VM PROVE Watched(u)'
<1> USE SlotAssumption DEF IInv, TypeOK, Watched, Goto, RegisterVM, UnregisterVM, rows, pass, procs,
                           Launching, Deleting
<1>1. ASSUME NEW v \in VM, BeginPass(v) PROVE Watched(u)'
    BY <1>1 DEF BeginPass
<1>2. ASSUME NEW v \in VM, Advance(v) PROVE Watched(u)'
    BY <1>2 DEF Advance, VMUpdateStatus
<1>3. ASSUME NEW v \in VM, AlreadyRunning(v) PROVE Watched(u)'
    BY <1>3 DEF AlreadyRunning, VMUpdateStatus
<1>4. ASSUME NEW v \in VM, NotRunning(v) PROVE Watched(u)'
    BY <1>4 DEF NotRunning
<1>5. ASSUME NEW v \in VM, Prepare(v) PROVE Watched(u)'
    BY <1>5 DEF Prepare
<1>6. ASSUME NEW v \in VM, PrepareFails(v) PROVE Watched(u)'
    BY <1>6 DEF PrepareFails, ReturnErr
<1>7. ASSUME NEW v \in VM, NEW n \in Slot, Install(v, n) PROVE Watched(u)'
    BY <1>7 DEF Install, Launched
<1>8. ASSUME NEW v \in VM, Exec(v) PROVE Watched(u)'
    BY <1>8 DEF Exec, Launched
<1>9. ASSUME NEW v \in VM, ExecFails(v) PROVE Watched(u)'
    BY <1>9 DEF ExecFails, ReturnErr
<1>10. ASSUME NEW v \in VM, MarkRunning(v) PROVE Watched(u)'
    BY <1>10 DEF MarkRunning, VMUpdateStatus, Launched
<1>11. ASSUME NEW v \in VM, MarkFails(v) PROVE Watched(u)'
    BY <1>11 DEF MarkFails, ReturnErr
<1>12. ASSUME NEW v \in VM, Take(v) PROVE Watched(u)'
    BY <1>12 DEF Take, Deleted
<1>13. ASSUME NEW v \in VM, Kill(v) PROVE Watched(u)'
    BY <1>13 DEF Kill
<1>14. ASSUME NEW v \in VM, Wipe(v) PROVE Watched(u)'
    BY <1>14 DEF Wipe
<1>15. ASSUME NEW v \in VM, NEW n \in Slot, WaitReturns(v, n) PROVE Watched(u)'
    BY <1>15 DEF WaitReturns
<1>16. ASSUME NEW v \in VM, NEW n \in Slot, Report(v, n) PROVE Watched(u)'
    BY <1>16 DEF Report, VMUpdateStatus, Outcome
<1>17. ASSUME NEW v \in VM, NEW n \in Slot, ReportFails(v, n) PROVE Watched(u)'
    BY <1>17 DEF ReportFails
<1>18. ASSUME NEW v \in VM, NEW n \in Slot, Forget(v, n) PROVE Watched(u)'
    BY <1>18 DEF Forget
<1>19. ASSUME NEW v \in VM, NEW n \in Slot, Wake(v, n) PROVE Watched(u)'
    BY <1>19 DEF Wake
<1>20. ASSUME NEW v \in VM, NEW n \in Slot, Exit(v, n) PROVE Watched(u)'
    BY <1>20 DEF Exit
<1>21. ASSUME NEW v \in VM, VMSoftDelete(v) PROVE Watched(u)'
    BY <1>21 DEF VMSoftDelete
<1>22. ASSUME NEW v \in VM, SpuriousEvent(v) PROVE Watched(u)'
    BY <1>22 DEF SpuriousEvent
<1>23. ASSUME Restart PROVE Watched(u)'
    BY <1>23 DEF Restart
<1>25. ASSUME NEW v \in VM, WipeFails(v) PROVE Watched(u)'
    BY <1>25 DEF WipeFails, ReturnErr
<1>24. CASE UNCHANGED vars
    BY <1>24 DEF vars
<1> QED
    BY <1>1, <1>2, <1>3, <1>4, <1>5, <1>6, <1>7, <1>8, <1>9, <1>10, <1>11, <1>12,
       <1>13, <1>14, <1>15, <1>16, <1>17, <1>18, <1>19, <1>20, <1>21, <1>22, <1>23, <1>24,
       <1>25
       DEF Next, Pass, PassFails, Waiter

(* Forget closes the listener of its own process, or of a deleted VM.      *)
LEMMA ListeningStep ==
    ASSUME IInv, [Next]_vars, NEW u \in VM PROVE Listening(u)'
<1> USE SlotAssumption DEF IInv, TypeOK, Listening, Goto, RegisterVM, UnregisterVM, rows, pass, procs,
                           Launching, Deleting
<1>1. ASSUME NEW v \in VM, BeginPass(v) PROVE Listening(u)'
    BY <1>1 DEF BeginPass
<1>2. ASSUME NEW v \in VM, Advance(v) PROVE Listening(u)'
    BY <1>2 DEF Advance, VMUpdateStatus
<1>3. ASSUME NEW v \in VM, AlreadyRunning(v) PROVE Listening(u)'
    BY <1>3 DEF AlreadyRunning, VMUpdateStatus
<1>4. ASSUME NEW v \in VM, NotRunning(v) PROVE Listening(u)'
    BY <1>4 DEF NotRunning
<1>5. ASSUME NEW v \in VM, Prepare(v) PROVE Listening(u)'
    BY <1>5 DEF Prepare
<1>6. ASSUME NEW v \in VM, PrepareFails(v) PROVE Listening(u)'
    BY <1>6 DEF PrepareFails, ReturnErr
<1>7. ASSUME NEW v \in VM, NEW n \in Slot, Install(v, n) PROVE Listening(u)'
    BY <1>7 DEF Install
<1>8. ASSUME NEW v \in VM, Exec(v) PROVE Listening(u)'
    BY <1>8 DEF Exec
<1>9. ASSUME NEW v \in VM, ExecFails(v) PROVE Listening(u)'
    BY <1>9 DEF ExecFails, ReturnErr
<1>10. ASSUME NEW v \in VM, MarkRunning(v) PROVE Listening(u)'
    BY <1>10 DEF MarkRunning, VMUpdateStatus
<1>11. ASSUME NEW v \in VM, MarkFails(v) PROVE Listening(u)'
    BY <1>11 DEF MarkFails, ReturnErr
<1>12. ASSUME NEW v \in VM, Take(v) PROVE Listening(u)'
    BY <1>12 DEF Take
<1>13. ASSUME NEW v \in VM, Kill(v) PROVE Listening(u)'
    BY <1>13 DEF Kill
<1>14. ASSUME NEW v \in VM, Wipe(v) PROVE Listening(u)'
    BY <1>14 DEF Wipe
<1>15. ASSUME NEW v \in VM, NEW n \in Slot, WaitReturns(v, n) PROVE Listening(u)'
    BY <1>15 DEF WaitReturns
<1>16. ASSUME NEW v \in VM, NEW n \in Slot, Report(v, n) PROVE Listening(u)'
    BY <1>16 DEF Report, VMUpdateStatus, Outcome
<1>17. ASSUME NEW v \in VM, NEW n \in Slot, ReportFails(v, n) PROVE Listening(u)'
    BY <1>17 DEF ReportFails
<1>18. ASSUME NEW v \in VM, NEW n \in Slot, Forget(v, n) PROVE Listening(u)'
  <2>1. CASE u # v
    BY <1>18, <2>1 DEF Forget
  <2>2. CASE u = v
    <3>1. CASE cmd[v] = n
      <4>1. pc[v] # "install"
        BY <3>1 DEF Launched
      <4> QED BY <1>18, <2>2, <4>1 DEF Forget
    <3>2. CASE cmd[v] # n
      <4>1. pc[v] \in Deleting \union {"idle"} /\ deleted[v]
        BY <1>18, <3>2 DEF Forget, Watched
      <4> QED BY <1>18, <2>2, <4>1 DEF Forget
    <3> QED BY <3>1, <3>2
  <2> QED BY <2>1, <2>2
<1>19. ASSUME NEW v \in VM, NEW n \in Slot, Wake(v, n) PROVE Listening(u)'
    BY <1>19 DEF Wake
<1>20. ASSUME NEW v \in VM, NEW n \in Slot, Exit(v, n) PROVE Listening(u)'
    BY <1>20 DEF Exit
<1>21. ASSUME NEW v \in VM, VMSoftDelete(v) PROVE Listening(u)'
    BY <1>21 DEF VMSoftDelete
<1>22. ASSUME NEW v \in VM, SpuriousEvent(v) PROVE Listening(u)'
    BY <1>22 DEF SpuriousEvent
<1>23. ASSUME Restart PROVE Listening(u)'
    BY <1>23 DEF Restart
<1>25. ASSUME NEW v \in VM, WipeFails(v) PROVE Listening(u)'
    BY <1>25 DEF WipeFails, ReturnErr
<1>24. CASE UNCHANGED vars
    BY <1>24 DEF vars
<1> QED
    BY <1>1, <1>2, <1>3, <1>4, <1>5, <1>6, <1>7, <1>8, <1>9, <1>10, <1>11, <1>12,
       <1>13, <1>14, <1>15, <1>16, <1>17, <1>18, <1>19, <1>20, <1>21, <1>22, <1>23, <1>24,
       <1>25
       DEF Next, Pass, PassFails, Waiter

(* The inductive invariant holds in every reachable state.                 *)
LEMMA Invariance == Spec => []IInv
<1>1. IInv /\ [Next]_vars => IInv'
  <2> SUFFICES ASSUME IInv, [Next]_vars PROVE IInv'
    OBVIOUS
  <2>1. TypeOK'
    BY TypeStep DEF IInv
  <2>2. ASSUME NEW v \in VM
        PROVE  (Found(v) /\ Launched(v) /\ Deleted(v) /\ Watched(v) /\ Listening(v))'
    BY FoundStep, LaunchedStep, DeletedStep, WatchedStep, ListeningStep
  <2> QED BY <2>1, <2>2 DEF IInv
<1> QED
  BY InitIInv, <1>1, PTL DEF Spec

(* Every variable keeps its type.                                          *)
THEOREM TypeCorrect == Spec => []TypeOK
<1>1. IInv => TypeOK
  BY DEF IInv
<1> QED BY Invariance, <1>1, PTL

(* vm.go: a live hypervisor is always in vmToCmd or in the hands of the    *)
(* delete pass: the service can always find and kill it.                   *)
THEOREM NothingOrphaned == Spec => []NoOrphan
<1>1. IInv => NoOrphan
  BY DEF IInv, Found, NoOrphan, Alive
<1> QED BY Invariance, <1>1, PTL

(* vm.go:71-75: the entry in vmToCmd, made before the launch, is enough to *)
(* keep a second hypervisor off the work image.                            *)
THEOREM NeverTwoHypervisors == Spec => []OneHypervisor
<1>1. ASSUME IInv, NEW v \in VM, NEW m \in Alive(v), NEW n \in Alive(v)
      PROVE  m = n
  <2>1. /\ m \in Slot /\ n \in Slot
        /\ cmd[v] = m \/ (pc[v] = "kill" /\ held[v] = m)
        /\ cmd[v] = n \/ (pc[v] = "kill" /\ held[v] = n)
    BY <1>1 DEF IInv, Found, Alive
  <2>2. pc[v] = "kill" => cmd[v] = NoSlot
    BY <1>1 DEF IInv, Deleted
  <2> QED BY <2>1, <2>2, SlotAssumption
<1>2. IInv => OneHypervisor
  BY <1>1 DEF OneHypervisor
<1> QED BY Invariance, <1>2, PTL

(* vm.go:221: UnregisterVM, called by VM and not by process, never closes  *)
(* the listener of a hypervisor launched later.                            *)
THEOREM ListenerStays == Spec => []ListenerKept
<1>1. ASSUME IInv, NEW v \in VM, Alive(v) # {}, ~deleted[v] PROVE sock[v]
  <2>1. PICK n \in Slot : proc[v][n] = "alive"
    BY <1>1 DEF Alive
  <2>2. cmd[v] = n
    BY <1>1, <2>1 DEF IInv, Found, Deleted, Deleting
  <2> QED BY <1>1, <2>2, SlotAssumption DEF IInv, Listening
<1>2. ASSUME IInv, NEW v \in VM, pc[v] = "prepare" PROVE ~sock[v]
  BY <1>2 DEF IInv, Launched, Listening
<1>3. IInv => ListenerKept
  BY <1>1, <1>2 DEF ListenerKept
<1> QED BY Invariance, <1>3, PTL
=============================================================================
