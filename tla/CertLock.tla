------------------------------ MODULE CertLock ------------------------------
(***************************************************************************)
(* internal/edgeproxy/certmagic_storage.go, Lock and Unlock: the lock that *)
(* keeps the edge proxies of a cluster from ordering the same certificate  *)
(* at once.  It is one row of certmagic_locks per key, with the time it    *)
(* expires and nothing about its owner; keys do not touch each other, so   *)
(* this is the lock of one key.                                            *)
(***************************************************************************)
CONSTANT Client   \* the proxies that may want the key

VARIABLES
    expires,   \* the row's time: no row ("none"), still "ahead", or "past"
    working,   \* clients between a successful Lock and their Unlock
    lapsed     \* history: some client's lock expired while it worked

vars == <<expires, working, lapsed>>

TypeOK ==
    /\ expires \in {"none", "ahead", "past"}
    /\ working \subseteq Client
    /\ lapsed \in BOOLEAN

Init ==
    /\ expires = "none"
    /\ working = {}
    /\ lapsed = FALSE

-----------------------------------------------------------------------------
(* Mutant: ON CONFLICT DO UPDATE without its WHERE.                        *)
FreeAlways == TRUE

(* Mutant: ON CONFLICT DO NOTHING.                                         *)
FreeOnce == expires = "none"

(* AcquireCertmagicLock: insert the row, or take over one that has expired.*)
Free == expires # "ahead"

Lock(c) ==
    /\ c \notin working
    /\ Free
    /\ expires' = "ahead"
    /\ working' = working \union {c}
    /\ UNCHANGED lapsed

(* No row was inserted or updated: an error, and nobody waits for the key. *)
LockRefused(c) ==
    /\ c \notin working
    /\ ~Free
    /\ UNCHANGED vars

(* ReleaseCertmagicLock deletes the row of the key, whoever wrote it.      *)
Unlock(c) ==
    /\ c \in working
    /\ expires' = "none"
    /\ working' = working \ {c}
    /\ UNCHANGED lapsed

(* Five minutes pass, by the clock of the database.                        *)
Expire ==
    /\ expires = "ahead"
    /\ expires' = "past"
    /\ lapsed' = (lapsed \/ working # {})
    /\ UNCHANGED working

(* A proxy dies with the lock: the row stays until it expires.             *)
Die(c) ==
    /\ c \in working
    /\ working' = working \ {c}
    /\ UNCHANGED <<expires, lapsed>>

Next ==
    \/ \E c \in Client : Lock(c)
    \/ \E c \in Client : LockRefused(c)
    \/ \E c \in Client : Unlock(c)
    \/ \E c \in Client : Die(c)
    \/ Expire

Spec == Init /\ [][Next]_vars

-----------------------------------------------------------------------------
(* Two proxies never order the same certificate at once, unless one of     *)
(* them has worked longer than its lock lasts.                             *)
MutualExclusion == ~lapsed => \A b, c \in working : b = c

(* Why: as long as nobody was late, whoever works has the row.             *)
RowIsKept == ~lapsed /\ working # {} => expires = "ahead"

Inv == TypeOK /\ MutualExclusion /\ RowIsKept

Lease == INSTANCE LeaseLock WITH Holder <- Client, holders <- working, broken <- lapsed

(* The certificate lock is a lease lock.                                   *)
LeaseSpec == Lease!Spec
=============================================================================
