------------------------------ MODULE AtomicZone ------------------------------
(***************************************************************************)
(* What Client.Apply promises its callers about one zone, without locks,   *)
(* jobs or re-reads: a request takes effect at one instant, on the content *)
(* published at that instant, at most once, and it is answered with        *)
(* success only after it took effect.  A request that failed may have      *)
(* taken effect before, but never does afterwards.                         *)
(***************************************************************************)
EXTENDS ZoneContent

CONSTANT Caller     \* requests; a retry is a request of its own

VARIABLES
    published,      \* what the zone publishes
    wanted,         \* the change set of every request, NoChange before it
    status          \* how far every request has come

vars == <<published, wanted, status>>

Status == {"idle", "pending", "effective", "ok", "failed"}

TypeOK ==
    /\ published \in Content
    /\ wanted \in [Caller -> Request \union {NoChange}]
    /\ status \in [Caller -> Status]

Init ==
    /\ published \in Content
    /\ wanted = [c \in Caller |-> NoChange]
    /\ status = [c \in Caller |-> "idle"]

Call(c) ==
    /\ status[c] = "idle"
    /\ status' = [status EXCEPT ![c] = "pending"]
    /\ \E cs \in Request :
           wanted' = [wanted EXCEPT ![c] = cs]
    /\ UNCHANGED published

TakeEffect(c) ==
    /\ status[c] = "pending"
    /\ status' = [status EXCEPT ![c] = "effective"]
    /\ published' = Merged(published, wanted[c])
    /\ UNCHANGED wanted

Succeed(c) ==
    /\ status[c] = "effective"
    /\ status' = [status EXCEPT ![c] = "ok"]
    /\ UNCHANGED <<published, wanted>>

Fail(c) ==
    /\ status[c] \in {"pending", "effective"}
    /\ status' = [status EXCEPT ![c] = "failed"]
    /\ UNCHANGED <<published, wanted>>

\* Somebody who is not a caller edits the zone.
OthersEdit ==
    /\ published' \in Content
    /\ UNCHANGED <<wanted, status>>

Next ==
    \/ \E c \in Caller : Call(c) \/ TakeEffect(c) \/ Succeed(c) \/ Fail(c)
    \/ OthersEdit

Spec == Init /\ [][Next]_vars

=============================================================================
