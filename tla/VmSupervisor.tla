---------------------------- MODULE VmSupervisor ----------------------------
(***************************************************************************)
(* internal/zeitwork/vm.go on one server: the vm reconciler, the goroutine *)
(* that waits for each hypervisor, the service being restarted, and users  *)
(* and controllers that soft-delete rows, all interleaved.                 *)
(*                                                                         *)
(* A pass of reconcileVM reads the row once and then works on that copy    *)
(* for as long as an image pull takes.  The map vmToCmd is filled before   *)
(* the process is started and is the only guard against a second           *)
(* hypervisor for the same VM; it is emptied by the waiting goroutine and  *)
(* by the delete pass.  Passes over one VM do not overlap and a change     *)
(* during a pass causes another one: that is WorkQueue, which Scheduler    *)
(* implements; here it is the flag queued[v].                              *)
(*                                                                         *)
(* A process gets a slot, free again when the process is dead and its      *)
(* goroutine gone, so that two processes of one VM can be told apart.      *)
(***************************************************************************)
EXTENDS Naturals

CONSTANTS
    VM,         \* the VMs placed on this server
    Slot,       \* identities for hypervisor processes of one VM
    NoSlot,     \* no process
    MaxFaults   \* MaxFaults[k]: how often fault k may happen in a behaviour

FaultKind == {"exit", "restart", "prepare", "exec", "write"}

ASSUME SlotAssumption == NoSlot \notin Slot
ASSUME FaultAssumption == MaxFaults \in [FaultKind -> Nat]

Status == {"pending", "starting", "running", "stopped", "failed"}

VARIABLES
    status,    \* vms.status
    deleted,   \* vms.deleted_at is set
    queued,    \* the scheduler owes the VM a pass
    pc,        \* where the pass over v stands, "idle" between passes
    seen,      \* the status in the copy of the row the pass works on
    held,      \* the command the pass has in hand
    cmd,       \* vmToCmd (and vmToTap, which is kept alongside)
    proc,      \* proc[v][n]: hypervisor process n of v
    waiter,    \* waiter[v][n]: the goroutine waiting for it
    sock,      \* v has a vsock listener registered
    disk,      \* the work image of v exists
    faults     \* faults[k]: faults of kind k so far

rows  == <<status, deleted>>
pass  == <<pc, seen, held>>
procs == <<proc, waiter>>
vars  == <<rows, queued, pass, cmd, procs, sock, disk, faults>>

TypeOK ==
    /\ status \in [VM -> Status]
    /\ deleted \in [VM -> BOOLEAN]
    /\ queued \in [VM -> BOOLEAN]
    /\ pc \in [VM -> {"idle", "advance", "check", "prepare", "install", "exec",
                      "mark", "take", "kill", "wipe"}]
    /\ seen \in [VM -> Status]
    /\ held \in [VM -> Slot \union {NoSlot}]
    /\ cmd \in [VM -> Slot \union {NoSlot}]
    /\ proc \in [VM -> [Slot -> {"free", "made", "alive", "ok", "error"}]]
    /\ waiter \in [VM -> [Slot -> {"none", "wait", "report", "forget", "wake"}]]
    /\ sock \in [VM -> BOOLEAN]
    /\ disk \in [VM -> BOOLEAN]
    /\ faults \in [FaultKind -> Nat]

(* Rows just inserted by VMCreate, their WAL events delivered.             *)
Init ==
    /\ status = [v \in VM |-> "pending"]
    /\ deleted = [v \in VM |-> FALSE]
    /\ queued = [v \in VM |-> TRUE]
    /\ pc = [v \in VM |-> "idle"]
    /\ seen = [v \in VM |-> "pending"]
    /\ held = [v \in VM |-> NoSlot]
    /\ cmd = [v \in VM |-> NoSlot]
    /\ proc = [v \in VM |-> [n \in Slot |-> "free"]]
    /\ waiter = [v \in VM |-> [n \in Slot |-> "none"]]
    /\ sock = [v \in VM |-> FALSE]
    /\ disk = [v \in VM |-> FALSE]
    /\ faults = [k \in FaultKind |-> 0]

-----------------------------------------------------------------------------
Suffer(k) ==
    /\ faults[k] < MaxFaults[k]
    /\ faults' = [faults EXCEPT ![k] = @ + 1]

Goto(v, l) == pc' = [pc EXCEPT ![v] = l]

(* Every UPDATE of the row comes back as a WAL event that schedules v.     *)
VMUpdateStatus(v, s) ==
    /\ status' = [status EXCEPT ![v] = s]
    /\ queued' = [queued EXCEPT ![v] = TRUE]

(* The scheduler retries a pass that returned an error.                    *)
ReturnErr(v) ==
    /\ Goto(v, "idle")
    /\ queued' = [queued EXCEPT ![v] = TRUE]

(* The vsock listener of the VM opens, in place of an older one, or closes. *)
RegisterVM(v)   == sock' = [sock EXCEPT ![v] = TRUE]
UnregisterVM(v) == sock' = [sock EXCEPT ![v] = FALSE]

(* VMFirstByID: the copy of the row the pass will use.                     *)
BeginPass(v) ==
    /\ pc[v] = "idle"
    /\ queued[v]
    /\ queued' = [queued EXCEPT ![v] = FALSE]
    /\ seen' = [seen EXCEPT ![v] = status[v]]
    /\ Goto(v, IF deleted[v] THEN "take" ELSE "advance")
    /\ IF deleted[v] THEN UnregisterVM(v) ELSE UNCHANGED sock
    /\ UNCHANGED <<rows, held, cmd, procs, disk, faults>>

(* pending, failed or stopped in the copy: write starting.                 *)
Advance(v) ==
    /\ pc[v] = "advance"
    /\ Goto(v, "check")
    /\ IF seen[v] \in {"pending", "failed", "stopped"}
       THEN /\ VMUpdateStatus(v, "starting")
            /\ seen' = [seen EXCEPT ![v] = "starting"]
       ELSE UNCHANGED <<status, queued, seen>>
    /\ UNCHANGED <<deleted, held, cmd, procs, sock, disk, faults>>

(* vmToCmd has an entry: the hypervisor counts as running.                 *)
AlreadyRunning(v) ==
    /\ pc[v] = "check"
    /\ cmd[v] # NoSlot
    /\ IF seen[v] \in {"starting", "pending"}
       THEN VMUpdateStatus(v, "running")
       ELSE UNCHANGED <<status, queued>>
    /\ Goto(v, "idle")
    /\ UNCHANGED <<deleted, seen, held, cmd, procs, sock, disk, faults>>

NotRunning(v) ==
    /\ pc[v] = "check"
    /\ cmd[v] = NoSlot
    /\ Goto(v, "prepare")
    /\ UNCHANGED <<rows, queued, seen, held, cmd, procs, sock, disk, faults>>

(* Base image, work image, environment, RegisterVM.                        *)
Prepare(v) ==
    /\ pc[v] = "prepare"
    /\ disk' = [disk EXCEPT ![v] = TRUE]
    /\ RegisterVM(v)
    /\ Goto(v, "install")
    /\ UNCHANGED <<rows, queued, seen, held, cmd, procs, faults>>

(* An error before the launch (database, image pull, vsock) ends the pass; *)
(* the work image may have been made by then.                              *)
PrepareFails(v) ==
    /\ pc[v] \in {"advance", "check", "prepare"}
    /\ Suffer("prepare")
    /\ \E made \in {disk[v], pc[v] = "prepare"} :
           disk' = [disk EXCEPT ![v] = @ \/ made]
    /\ ReturnErr(v)
    /\ UNCHANGED <<rows, seen, held, cmd, procs, sock>>

(* Mutant: the command is not put into vmToCmd.                            *)
InstallUnrecorded(v, n) ==
    /\ pc[v] = "install"
    /\ proc[v][n] = "free"
    /\ held' = [held EXCEPT ![v] = n]
    /\ proc' = [proc EXCEPT ![v][n] = "made"]
    /\ Goto(v, "exec")
    /\ UNCHANGED <<rows, queued, seen, cmd, waiter, sock, disk, faults>>

(* Drop what a previous run left in the maps, then put the new command in, *)
(* before it is started.                                                   *)
Install(v, n) ==
    /\ pc[v] = "install"
    /\ proc[v][n] = "free"
    /\ cmd' = [cmd EXCEPT ![v] = n]
    /\ held' = [held EXCEPT ![v] = n]
    /\ proc' = [proc EXCEPT ![v] =
           [m \in Slot |-> IF m = n THEN "made"
                           ELSE IF m = cmd[v] /\ @[m] = "alive" THEN "error"
                           ELSE @[m]]]
    /\ Goto(v, "exec")
    /\ UNCHANGED <<rows, queued, seen, waiter, sock, disk, faults>>

(* cmd.Start()                                                             *)
Exec(v) ==
    /\ pc[v] = "exec"
    /\ proc' = [proc EXCEPT ![v][held[v]] = "alive"]
    /\ Goto(v, "mark")
    /\ UNCHANGED <<rows, queued, seen, held, cmd, waiter, sock, disk, faults>>

(* cmd.Start() fails: the pass returns and the map entry stays.            *)
ExecFails(v) ==
    /\ pc[v] = "exec"
    /\ Suffer("exec")
    /\ proc' = [proc EXCEPT ![v][held[v]] = "error"]
    /\ ReturnErr(v)
    /\ UNCHANGED <<rows, seen, held, cmd, waiter, sock, disk>>

(* starting -> running, and the goroutine that waits for the process.      *)
MarkRunning(v) ==
    /\ pc[v] = "mark"
    /\ IF seen[v] = "starting"
       THEN VMUpdateStatus(v, "running")
       ELSE UNCHANGED <<status, queued>>
    /\ waiter' = [waiter EXCEPT ![v][held[v]] = "wait"]
    /\ Goto(v, "idle")
    /\ UNCHANGED <<deleted, seen, held, cmd, proc, sock, disk, faults>>

(* The UPDATE fails: the pass returns without starting the goroutine.      *)
MarkFails(v) ==
    /\ pc[v] = "mark"
    /\ seen[v] = "starting"
    /\ Suffer("write")
    /\ ReturnErr(v)
    /\ UNCHANGED <<rows, seen, held, cmd, procs, sock, disk>>

-----------------------------------------------------------------------------
(* reconcileVmDelete; the listener went when the pass began.               *)
Take(v) ==
    /\ pc[v] = "take"
    /\ held' = [held EXCEPT ![v] = cmd[v]]
    /\ cmd' = [cmd EXCEPT ![v] = NoSlot]
    /\ Goto(v, "kill")
    /\ UNCHANGED <<rows, queued, seen, procs, sock, disk, faults>>

Kill(v) ==
    /\ pc[v] = "kill"
    /\ IF held[v] # NoSlot /\ proc[v][held[v]] = "alive"
       THEN proc' = [proc EXCEPT ![v][held[v]] = "error"]
       ELSE UNCHANGED proc
    /\ Goto(v, "wipe")
    /\ UNCHANGED <<rows, queued, seen, held, cmd, waiter, sock, disk, faults>>

(* Mutant: the work image is not removed.                                  *)
WipeSkipped(v) ==
    /\ pc[v] = "wipe"
    /\ Goto(v, "idle")
    /\ UNCHANGED <<rows, queued, seen, held, cmd, procs, sock, disk, faults>>

Wipe(v) ==
    /\ pc[v] = "wipe"
    /\ disk' = [disk EXCEPT ![v] = FALSE]
    /\ Goto(v, "idle")
    /\ UNCHANGED <<rows, queued, seen, held, cmd, procs, sock, faults>>

(* os.Remove fails: the whole delete pass is retried.                      *)
WipeFails(v) ==
    /\ pc[v] = "wipe"
    /\ Suffer("write")
    /\ ReturnErr(v)
    /\ UNCHANGED <<rows, seen, held, cmd, procs, sock, disk>>

-----------------------------------------------------------------------------

(* The goroutine: cmd.Wait() returned; read the row; write only a change.  *)
Outcome(v, n) == IF proc[v][n] = "ok" THEN "stopped" ELSE "failed"

(* Mutant: the goroutine stops waiting before the process has exited.      *)
WaitReturnsEarly(v, n) ==
    /\ waiter[v][n] = "wait"
    /\ waiter' = [waiter EXCEPT ![v][n] = "forget"]
    /\ UNCHANGED <<rows, queued, pass, cmd, proc, sock, disk, faults>>

WaitReturns(v, n) ==
    /\ waiter[v][n] = "wait"
    /\ proc[v][n] \in {"ok", "error"}
    /\ waiter' = [waiter EXCEPT ![v][n] =
                     IF status[v] = Outcome(v, n) THEN "forget" ELSE "report"]
    /\ UNCHANGED <<rows, queued, pass, cmd, proc, sock, disk, faults>>

Report(v, n) ==
    /\ waiter[v][n] = "report"
    /\ VMUpdateStatus(v, Outcome(v, n))
    /\ waiter' = [waiter EXCEPT ![v][n] = "forget"]
    /\ UNCHANGED <<deleted, pass, cmd, proc, sock, disk, faults>>

(* An error of the UPDATE is logged, the goroutine goes on.                *)
ReportFails(v, n) ==
    /\ waiter[v][n] = "report"
    /\ Suffer("write")
    /\ waiter' = [waiter EXCEPT ![v][n] = "forget"]
    /\ UNCHANGED <<rows, queued, pass, cmd, proc, sock, disk>>

(* UnregisterVM, then the entries of v, whichever process they are for.    *)
Forget(v, n) ==
    /\ waiter[v][n] = "forget"
    /\ UnregisterVM(v)
    /\ cmd' = [cmd EXCEPT ![v] = NoSlot]
    /\ waiter' = [waiter EXCEPT ![v][n] = "wake"]
    /\ UNCHANGED <<rows, queued, pass, proc, disk, faults>>

(* Mutants: UnregisterVM comes last; the VM is not scheduled.              *)
WakeUnregisters(v, n) ==
    /\ waiter[v][n] = "wake"
    /\ UnregisterVM(v)
    /\ queued' = [queued EXCEPT ![v] = TRUE]
    /\ waiter' = [waiter EXCEPT ![v][n] = "none"]
    /\ proc' = [proc EXCEPT ![v][n] = "free"]
    /\ UNCHANGED <<rows, pass, cmd, disk, faults>>

WakeNobody(v, n) ==
    /\ waiter[v][n] = "wake"
    /\ waiter' = [waiter EXCEPT ![v][n] = "none"]
    /\ proc' = [proc EXCEPT ![v][n] = "free"]
    /\ UNCHANGED <<rows, queued, pass, cmd, sock, disk, faults>>

(* Schedule(+5s); the goroutine ends and its process id is free.           *)
Wake(v, n) ==
    /\ waiter[v][n] = "wake"
    /\ queued' = [queued EXCEPT ![v] = TRUE]
    /\ waiter' = [waiter EXCEPT ![v][n] = "none"]
    /\ proc' = [proc EXCEPT ![v][n] = "free"]
    /\ UNCHANGED <<rows, pass, cmd, sock, disk, faults>>

-----------------------------------------------------------------------------
(* The guest powers off or the hypervisor dies.                            *)
Exit(v, n) ==
    /\ proc[v][n] = "alive"
    /\ Suffer("exit")
    /\ \E r \in {"ok", "error"} : proc' = [proc EXCEPT ![v][n] = r]
    /\ UNCHANGED <<rows, queued, pass, cmd, waiter, sock, disk>>

(* VMSoftDelete, by a deployment, a build, a drain or a failover.          *)
VMSoftDelete(v) ==
    /\ ~deleted[v]
    /\ deleted' = [deleted EXCEPT ![v] = TRUE]
    /\ queued' = [queued EXCEPT ![v] = TRUE]
    /\ UNCHANGED <<status, pass, cmd, procs, sock, disk, faults>>

(* Any other event or the hourly resync schedules the VM once more.        *)
SpuriousEvent(v) ==
    /\ ~queued[v]
    /\ queued' = [queued EXCEPT ![v] = TRUE]
    /\ UNCHANGED <<rows, pass, cmd, procs, sock, disk, faults>>

(* The service stops or crashes and starts again: its processes are killed *)
(* (Stop, Pdeathsig), its memory is gone, bootstrapLocal schedules the     *)
(* rows of this server that are not deleted.                               *)
Restart ==
    /\ Suffer("restart")
    /\ queued' = [v \in VM |-> ~deleted[v]]
    /\ pc' = [v \in VM |-> "idle"]
    /\ held' = [v \in VM |-> NoSlot]
    /\ cmd' = [v \in VM |-> NoSlot]
    /\ proc' = [v \in VM |-> [n \in Slot |-> "free"]]
    /\ waiter' = [v \in VM |-> [n \in Slot |-> "none"]]
    /\ sock' = [v \in VM |-> FALSE]
    /\ UNCHANGED <<rows, seen, disk>>

Pass(v) ==
    \/ BeginPass(v)
    \/ Advance(v)
    \/ AlreadyRunning(v)
    \/ NotRunning(v)
    \/ Prepare(v)
    \/ \E n \in Slot : Install(v, n)
    \/ Exec(v)
    \/ MarkRunning(v)
    \/ Take(v)
    \/ Kill(v)
    \/ Wipe(v)

PassFails(v) == PrepareFails(v) \/ ExecFails(v) \/ MarkFails(v) \/ WipeFails(v)

Waiter(v, n) ==
    \/ WaitReturns(v, n)
    \/ Report(v, n)
    \/ ReportFails(v, n)
    \/ Forget(v, n)
    \/ Wake(v, n)

Next ==
    \/ \E v \in VM : Pass(v) \/ PassFails(v)
    \/ \E v \in VM, n \in Slot : Waiter(v, n) \/ Exit(v, n)
    \/ \E v \in VM : VMSoftDelete(v) \/ SpuriousEvent(v)
    \/ Restart

Spec == Init /\ [][Next]_vars

(* A pass that is due begins and a pass or goroutine under way goes on.    *)
(* Faults, deletions and spurious events are never required to happen.     *)
Fairness ==
    /\ \A v \in VM : WF_vars(Pass(v))
    /\ \A v \in VM, n \in Slot : WF_vars(Waiter(v, n))

FairSpec == Spec /\ Fairness

-----------------------------------------------------------------------------
Alive(v) == {n \in Slot : proc[v][n] = "alive"}

(* However often a VM is scheduled, restarted or marked failed, it never   *)
(* has two hypervisors writing to the same work image.                     *)
OneHypervisor == \A v \in VM : \A m, n \in Alive(v) : m = n

(* A live hypervisor can be found: it is in vmToCmd, or in the hands of    *)
(* the delete pass that is about to kill it.                               *)
NoOrphan ==
    \A v \in VM : \A n \in Alive(v) : cmd[v] = n \/ (pc[v] = "kill" /\ held[v] = n)

(* The vsock listener of a live hypervisor is there until the VM is        *)
(* deleted: the goroutine of the previous process never closes it.  And    *)
(* RegisterVM never replaces a listener that nobody closed.                *)
ListenerKept ==
    \A v \in VM :
        /\ Alive(v) # {} /\ ~deleted[v] => sock[v]
        /\ pc[v] = "prepare" => ~sock[v]

(* vm.go:71: an entry in vmToCmd means a running cloud-hypervisor, or one  *)
(* about to be started or whose exit is being handled.                     *)
EntryIsRunning ==
    \A v \in VM : cmd[v] # NoSlot =>
        \/ proc[v][cmd[v]] = "alive"
        \/ pc[v] \in {"exec", "mark"}
        \/ waiter[v][cmd[v]] # "none"

(* A deleted VM ends up without a hypervisor and without a work image, for *)
(* good, even when it is deleted while the image is being made or the      *)
(* process started; only a restart may forget to remove the image.         *)
DeletedVmGone ==
    \A v \in VM : deleted[v] ~>
        [](Alive(v) = {} /\ (~disk[v] \/ faults["restart"] > 0))

(* vm.go:62: VMs that are not deleted should always run: when exits and    *)
(* restarts cease, the VM runs, is reported running, and stays so.  A      *)
(* launch that failed half way (exec, or the UPDATE after it) may leave an *)
(* entry in vmToCmd that stops all further attempts.                       *)
AlwaysRuns ==
    \A v \in VM :
        <>[](\/ deleted[v]
             \/ (Alive(v) # {} /\ status[v] = "running")
             \/ faults["exec"] + faults["write"] > 0)
=============================================================================
