---------------------------- MODULE DomainVerify ----------------------------
(***************************************************************************)
(* internal/zeitwork/domain.go: who owns a domain name.  Projects claim a  *)
(* name by adding a row of domains (apps/web/server/api/projects/[id]/     *)
(* domains.post.ts), one per project.  On the leader every row has its     *)
(* passes of reconcileDomain, which mark the row verified once DNS proves  *)
(* the claim, and delete the other rows of the name first.  A pass is a    *)
(* sequence of statements on a copy of the row; passes over two rows of    *)
(* one name run in two workers of the scheduler at once.  Every deployment *)
(* gets a row of a generated name, verified from the start.                *)
(*                                                                         *)
(* All rows here have the same name.  The scheduler visits every row again *)
(* and again (module Scheduler), so a pass may begin at any time.          *)
(***************************************************************************)
EXTENDS Naturals, FiniteSets

CONSTANTS
    Domain,      \* the rows of one name, each of another project
    MaxFaults    \* how many kinds of disturbance may happen, each once

(* A statement fails, a user removes a row, adds a removed one again, the  *)
(* records of a zone change back, or a name is generated that is not new.  *)
FaultKind == {"statement", "remove", "readd", "dns", "clash"}

VARIABLES
    row,         \* row[d]: "absent", "active" or "deleted" (deleted_at)
    verified,    \* verified_at is set
    txt,         \* txt_verification_required
    claim,       \* what domains.post.ts has read before it writes
    pointsHere,  \* the name resolves to our address
    token,       \* rows whose token is in the TXT record of the name
    pc,          \* where the pass over the row stands
    copy,        \* the pass's copy of the row
    conflicts,   \* rows the pass still has to delete
    unchecked,   \* history: rows no pass of which looks for others any more
    faults

rows  == <<row, verified, txt>>
dns   == <<pointsHere, token>>
locals == <<pc, copy, conflicts>>
vars  == <<rows, claim, dns, locals, unchecked, faults>>

Copy == [verified : BOOLEAN, txt : BOOLEAN]
Blank == [verified |-> FALSE, txt |-> FALSE]

TypeOK ==
    /\ row \in [Domain -> {"absent", "active", "deleted"}]
    /\ verified \in [Domain -> BOOLEAN]
    /\ txt \in [Domain -> BOOLEAN]
    /\ claim \in [Domain -> {"none", "free", "claimed"}]
    /\ pointsHere \in BOOLEAN
    /\ token \subseteq Domain
    /\ pc \in [Domain -> {"idle", "resolve", "find", "delete"}]
    /\ copy \in [Domain -> Copy]
    /\ conflicts \in [Domain -> SUBSET Domain]
    /\ unchecked \subseteq Domain
    /\ faults \subseteq FaultKind

Init ==
    /\ row = [d \in Domain |-> "absent"]
    /\ verified = [d \in Domain |-> FALSE]
    /\ txt = [d \in Domain |-> FALSE]
    /\ claim = [d \in Domain |-> "none"]
    /\ pointsHere = TRUE
    /\ token = {}
    /\ pc = [d \in Domain |-> "idle"]
    /\ copy = [d \in Domain |-> Blank]
    /\ conflicts = [d \in Domain |-> {}]
    /\ unchecked = {}
    /\ faults = {}

-----------------------------------------------------------------------------
Suffer(k) ==
    /\ k \notin faults
    /\ Cardinality(faults) < MaxFaults
    /\ faults' = faults \union {k}

Goto(d, l) == pc' = [pc EXCEPT ![d] = l]
EndPass(d) ==
    /\ Goto(d, "idle")
    /\ copy' = [copy EXCEPT ![d] = Blank]
    /\ conflicts' = [conflicts EXCEPT ![d] = {}]

Active == {d \in Domain : row[d] = "active"}

(* DNS proves the claim of a row that needs the token, or does not.        *)
Proves(d, needsToken) == pointsHere /\ (needsToken => d \in token)

(* DomainSoftDelete.                                                       *)
DomainSoftDelete(d) ==
    /\ row' = [row EXCEPT ![d] = "deleted"]
    /\ verified' = [verified EXCEPT ![d] = FALSE]

-----------------------------------------------------------------------------
(* DomainFirstByID.                                                        *)
BeginPass(d) ==
    /\ pc[d] = "idle"
    /\ d \in Active
    /\ copy' = [copy EXCEPT ![d] = [verified |-> verified[d], txt |-> txt[d]]]
    /\ Goto(d, "resolve")
    /\ UNCHANGED <<rows, claim, dns, conflicts, unchecked, faults>>

(* The address, the token if the row asks for it, and then a look at the   *)
(* copy: what was verified before is left alone.                           *)
Resolve(d) ==
    /\ pc[d] = "resolve"
    /\ Proves(d, copy[d].txt)
    /\ ~copy[d].verified
    /\ Goto(d, "find")
    /\ UNCHANGED <<rows, claim, dns, copy, conflicts, unchecked, faults>>

NothingToDo(d) ==
    /\ pc[d] = "resolve"
    /\ Proves(d, copy[d].txt) => copy[d].verified
    /\ EndPass(d)
    /\ UNCHANGED <<rows, claim, dns, unchecked, faults>>

(* Mutant: only rows that are not verified yet give way.                   *)
OtherUnverified(d) == {c \in Active \ {d} : ~verified[c]}

(* DomainFindActiveByName.                                                 *)
Others(d) == Active \ {d}

FindConflicts(d) ==
    /\ pc[d] = "find"
    /\ conflicts' = [conflicts EXCEPT ![d] = Others(d)]
    /\ Goto(d, "delete")
    /\ unchecked' = unchecked \ {d}
    /\ UNCHANGED <<rows, claim, dns, copy, faults>>

DeleteConflict(d, c) ==
    /\ pc[d] = "delete"
    /\ c \in conflicts[d]
    /\ DomainSoftDelete(c)
    /\ conflicts' = [conflicts EXCEPT ![d] = @ \ {c}]
    /\ UNCHANGED <<txt, claim, dns, pc, copy, unchecked, faults>>

(* DomainMarkVerified writes by id, to a deleted row too.                  *)
MarkVerified(d) ==
    /\ pc[d] = "delete"
    /\ conflicts[d] = {}
    /\ verified' = [verified EXCEPT ![d] = TRUE]
    /\ EndPass(d)
    /\ UNCHANGED <<row, txt, claim, dns, unchecked, faults>>

(* A statement fails: an error ends the pass, and a MarkVerified that      *)
(* failed is ignored, which ends it as well.                               *)
StatementFails(d) ==
    /\ pc[d] \in {"find", "delete"}
    /\ Suffer("statement")
    /\ EndPass(d)
    /\ UNCHANGED <<rows, claim, dns, unchecked>>

-----------------------------------------------------------------------------
(* A user adds the name to a project: isDomainClaimedElsewhere reads, then *)
(* a row is inserted or a deleted one resurrected.                         *)
ReadClaims(d) ==
    /\ row[d] = "absent" \/ (row[d] = "deleted" /\ "readd" \notin faults)
    /\ claim[d] = "none"
    /\ claim' = [claim EXCEPT ![d] = IF Others(d) = {} THEN "free" ELSE "claimed"]
    /\ UNCHANGED <<rows, dns, locals, unchecked, faults>>

(* A row that is added again while a pass that has listed the others ends. *)
Overtaken(d) ==
    unchecked' = IF pc[d] = "delete" THEN unchecked \union {d} ELSE unchecked \ {d}

AddDomain(d) ==
    /\ claim[d] # "none"
    /\ IF row[d] = "absent" THEN UNCHANGED faults ELSE Suffer("readd")
    /\ Overtaken(d)
    /\ row' = [row EXCEPT ![d] = "active"]
    /\ verified' = [verified EXCEPT ![d] = FALSE]
    /\ txt' = [txt EXCEPT ![d] = claim[d] = "claimed"]
    /\ claim' = [claim EXCEPT ![d] = "none"]
    /\ UNCHANGED <<dns, locals>>

(* [domainId].patch.ts: a row of another name gets this one; nobody asks   *)
(* whether it is claimed elsewhere.                                        *)
RenameInto(d) ==
    /\ row[d] # "active" /\ claim[d] = "none"
    /\ IF row[d] = "absent" THEN UNCHANGED faults ELSE Suffer("readd")
    /\ Overtaken(d)
    /\ row' = [row EXCEPT ![d] = "active"]
    /\ verified' = [verified EXCEPT ![d] = FALSE]
    /\ UNCHANGED <<txt, claim, dns, locals>>

(* models/deployment.ts: the row of a deployment is verified when it is    *)
(* inserted, and nobody asks who has its name.  A name is generated with   *)
(* six random characters.                                                  *)
AddGenerated(d) ==
    /\ row[d] = "absent" /\ claim[d] = "none"
    /\ \/ /\ \A c \in Domain : row[c] = "absent"
          /\ UNCHANGED <<unchecked, faults>>
       \/ /\ \E c \in Domain : row[c] # "absent"
          /\ Suffer("clash")
          /\ unchecked' = unchecked \union {d}
    /\ row' = [row EXCEPT ![d] = "active"]
    /\ verified' = [verified EXCEPT ![d] = TRUE]
    /\ UNCHANGED <<txt, claim, dns, locals>>

(* [domainId].delete.ts, and patch.ts for a row that gets another name,    *)
(* leave verified_at as it is.                                             *)
RemoveDomain(d) ==
    /\ d \in Active
    /\ Suffer("remove")
    /\ row' = [row EXCEPT ![d] = "deleted"]
    /\ UNCHANGED <<verified, txt, claim, dns, locals, unchecked>>

(* The owner of the zone sets the records, and may change them back.       *)
SetAddress ==
    /\ \/ ~pointsHere /\ UNCHANGED faults
       \/ pointsHere /\ Suffer("dns")
    /\ pointsHere' = ~pointsHere
    /\ UNCHANGED <<rows, claim, token, locals, unchecked>>

SetToken(d) ==
    /\ d \notin token
    /\ d \in Active
    /\ txt[d]
    /\ token' = token \union {d}
    /\ UNCHANGED <<rows, claim, pointsHere, locals, unchecked, faults>>

Pass(d) ==
    \/ BeginPass(d)
    \/ Resolve(d)
    \/ NothingToDo(d)
    \/ FindConflicts(d)
    \/ \E c \in Domain : DeleteConflict(d, c)
    \/ MarkVerified(d)

User(d) ==
    \/ ReadClaims(d)
    \/ AddDomain(d)
    \/ RenameInto(d)
    \/ AddGenerated(d)
    \/ RemoveDomain(d)
    \/ SetToken(d)

Next ==
    \/ \E d \in Domain : Pass(d)
    \/ \E d \in Domain : StatementFails(d)
    \/ \E d \in Domain : User(d)
    \/ SetAddress

Spec == Init /\ [][Next]_vars

Fairness == \A d \in Domain : WF_vars(Pass(d))

-----------------------------------------------------------------------------
(* domain.go:73: two active rows of one name are never verified both,      *)
(* whatever two passes and the users do at once.  Excepted are a row that  *)
(* is removed and added again after its pass has listed the others and     *)
(* before it is marked, and one whose name was generated twice.            *)
OneVerified ==
    \A c, d \in Active \ unchecked : verified[c] /\ verified[d] => c = d

(* domain.go:73: "there should never be two active verified domains with   *)
(* the same name on the platform" (for names that are not generated twice).*)
OneVerifiedEver ==
    "clash" \notin faults => \A c, d \in Active : verified[c] /\ verified[d] => c = d
=============================================================================
