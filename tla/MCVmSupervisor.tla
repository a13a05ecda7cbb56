-------------------------- MODULE MCVmSupervisor --------------------------
(* One VM is enough: VMs of a server share no state but the restarts.      *)
EXTENDS VmSupervisor, TLC

(* Two exits and one of everything else that may go wrong.                 *)
Faults == ("exit" :> 2) @@ ("restart" :> 1) @@ ("prepare" :> 1)
              @@ ("exec" :> 1) @@ ("write" :> 1)
=============================================================================
