----------------------------- MODULE WorkQueue -----------------------------
(***************************************************************************)
(* What internal/reconciler promises to the rest of zeitwork: a            *)
(* level-triggered work queue.                                             *)
(*                                                                         *)
(* A change of an object (a WAL event, a bootstrap pass, a reconcile       *)
(* function that asks for another pass) marks the object pending.  Some    *)
(* idle worker eventually begins a pass over it; a change that arrives     *)
(* while the pass is under way marks the object pending again, and it gets *)
(* another pass.  No two workers ever work on the same object.             *)
(*                                                                         *)
(* When a pass may begin is left open: the queue may also begin passes     *)
(* nobody asked for (the hourly resync, the retry after an error).         *)
(***************************************************************************)
CONSTANTS Object, Worker, Idle   \* Idle is no object

VARIABLES
    pending,   \* objects changed since the last pass over them began
    item       \* item[w]: the object worker w is reconciling, or Idle

vars == <<pending, item>>

Init ==
    /\ pending = {}
    /\ item = [w \in Worker |-> Idle]

Change(o) ==
    /\ pending' = pending \union {o}
    /\ UNCHANGED item

Begin(w, o) ==
    /\ item[w] = Idle
    /\ \A v \in Worker : item[v] # o
    /\ item' = [item EXCEPT ![w] = o]
    /\ pending' = pending \ {o}

End(w) ==
    /\ item[w] # Idle
    /\ item' = [item EXCEPT ![w] = Idle]
    /\ UNCHANGED pending

Next ==
    \/ \E o \in Object : Change(o)
    \/ \E w \in Worker, o \in Object : Begin(w, o)
    \/ \E w \in Worker : End(w)

Spec == Init /\ [][Next]_vars

=============================================================================
