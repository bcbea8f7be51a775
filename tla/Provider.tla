------------------------------- MODULE Provider -------------------------------
(***************************************************************************)
(* The provider (internal/provider) between ExternalDNS and the zones of   *)
(* DPF: Records answers GET /records from several zones, ApplyChanges      *)
(* spreads the changes of POST /records over several zones.  ExternalDNS   *)
(* asks again and again and sends the difference between what it wants and *)
(* what it was given.  Each call of Client.Apply on one zone is one step   *)
(* (module ZoneApply).                                                     *)
(*                                                                         *)
(* A record is its name: type and value do not take part in the question   *)
(* which zone a record is read from or written to.  Create and UpdateTo    *)
(* are routed alike and are one set, creates.                              *)
(***************************************************************************)
EXTENDS DnsName

CONSTANTS
    Label,
    Name,       \* names of records
    ZoneName,   \* names of zones
    Scopes,     \* what --domain-filter may say: sets of names
    Rank,       \* the order of the zones' names as text
    Events      \* what others do meanwhile: {"zone", "edit"} or less

ASSUME NameAssumption ==
    Name \subseteq Seq(Label) /\ ZoneName \subseteq Seq(Label)
ASSUME ScopeAssumption == Scopes \subseteq SUBSET Seq(Label)
ASSUME RankAssumption ==
    /\ Rank \in [ZoneName -> Nat]
    /\ \A y, z \in ZoneName : Rank[y] = Rank[z] => y = z

VARIABLES
    scope,      \* the configured domains
    zones,      \* the zones DPF has
    content,    \* the records in every zone
    desired,    \* the records ExternalDNS wants
    pc,         \* "idle", "reading", "planned", "applying"
    index,      \* the zones ListZones returned for the request at hand
    left,       \* the zones the request has still to read or to change
    seen,       \* the records GET returns, and the zone each was read from
    creates, deletes,   \* the change set of POST
    answer,     \* of the last POST: "none", "ok", "temporary", "permanent"
    quiet       \* nobody else changed DPF since the last GET began

dpf  == <<zones, content>>
vars == <<scope, desired, pc, index, left, seen, creates, deletes, answer,
          quiet, dpf>>

Below(z) == { n \in Name : Contains(z, n) }

TypeOK ==
    /\ scope \in Scopes
    /\ zones \subseteq ZoneName
    /\ content \in [ZoneName -> SUBSET Name]
    /\ desired \subseteq Name
    /\ pc \in {"idle", "reading", "planned", "applying"}
    /\ index \subseteq zones
    /\ left \subseteq index
    /\ seen \subseteq [name : Name, zone : ZoneName]
    /\ creates \subseteq Name /\ deletes \subseteq Name
    /\ answer \in {"none", "ok", "temporary", "permanent"}
    /\ quiet \in BOOLEAN

SeenNames == { r.name : r \in seen }

Init ==
    /\ scope \in Scopes
    /\ zones \in SUBSET ZoneName
    /\ content \in [ZoneName -> SUBSET Name]
    /\ \A z \in ZoneName :
          content[z] \subseteq (IF z \in zones THEN Below(z) ELSE {})
    /\ desired \in SUBSET Name
    /\ pc = "idle"
    /\ index = {} /\ left = {} /\ seen = {}
    /\ creates = {} /\ deletes = {}
    /\ answer = "none"
    /\ quiet = FALSE

-----------------------------------------------------------------------------
\* GET /records: the zones are listed; an empty scope asks for none.
GetRecords ==
    /\ pc = "idle"
    /\ index' = IF scope = {} THEN {} ELSE zones
    /\ left' = { z \in index' : zoneIsRelevant(scope, z) }
    /\ seen' = {}
    /\ pc' = "reading"
    /\ creates' = {} /\ deletes' = {}
    /\ answer' = "none"
    /\ quiet' = TRUE
    /\ UNCHANGED <<scope, desired, dpf>>

\* Mutant: a zone's records are returned whoever owns their names.
ReadShadowed(z) ==
    /\ pc = "reading"
    /\ z \in left
    /\ seen' = seen \union
          [name : { n \in content[z] : InScope(scope, n) }, zone : {z}]
    /\ left' = left \ {z}
    /\ UNCHANGED <<scope, desired, pc, index, creates, deletes, answer, quiet,
                   dpf>>

\* The records of one zone, as far as they are in scope and the zone's own.
ReadZone(z) ==
    /\ pc = "reading"
    /\ z \in left
    /\ seen' = seen \union
          [name : { n \in content[z] :
                      InScope(scope, n) /\ OwnedBy(index, n, z) },
           zone : {z}]
    /\ left' = left \ {z}
    /\ UNCHANGED <<scope, desired, pc, index, creates, deletes, answer, quiet,
                   dpf>>

\* A zone cannot be read: the whole GET fails and ExternalDNS comes back.
ReadFails ==
    /\ pc = "reading"
    /\ left # {}
    /\ pc' = "idle"
    /\ left' = {}
    /\ UNCHANGED <<scope, desired, index, seen, creates, deletes, answer, quiet,
                   dpf>>

\* GET is answered, and ExternalDNS computes the changes.
Plan ==
    /\ pc = "reading"
    /\ left = {}
    /\ creates' = desired \ SeenNames
    /\ deletes' = SeenNames \ desired
    /\ pc' = IF creates' = {} /\ deletes' = {} THEN "idle" ELSE "planned"
    /\ UNCHANGED <<scope, desired, index, left, seen, answer, quiet, dpf>>

-----------------------------------------------------------------------------
\* Mutant: ExternalDNS is trusted to ask for names in scope only.
filterNothing(names) == names

filterToScope(names) == { n \in names : InScope(scope, n) }

\* The changes of POST /records that remain, and the zones they go to.
Remaining == filterToScope(creates) \union filterToScope(deletes)

\* Nothing to do, in scope: no zone is asked, the answer is success.
PostNothing ==
    /\ pc = "planned"
    /\ Remaining = {}
    /\ answer' = "ok"
    /\ pc' = "idle"
    /\ UNCHANGED <<scope, desired, index, left, seen, creates, deletes, quiet,
                   dpf>>

\* Mutant: the index of the last GET is used again.
PostWithOldIndex ==
    /\ pc = "planned"
    /\ Remaining # {}
    /\ \A n \in Remaining : HasOwner(zones, n)
    /\ left' = { Owner(zones, n) : n \in Remaining }
    /\ pc' = "applying"
    /\ UNCHANGED <<scope, desired, index, seen, creates, deletes, answer, quiet,
                   dpf>>

\* The zones are listed again and the changes grouped (groupByZone).
PostRecords ==
    /\ pc = "planned"
    /\ Remaining # {}
    /\ \A n \in Remaining : HasOwner(zones, n)
    /\ index' = zones
    /\ left' = { Owner(zones, n) : n \in Remaining }
    /\ pc' = "applying"
    /\ UNCHANGED <<scope, desired, seen, creates, deletes, answer, quiet, dpf>>

\* A record that is not valid, a list of zones that cannot be had and a name
\* without a zone fail the whole change set before any zone is changed.
PostFails ==
    /\ pc = "planned"
    /\ Remaining # {}
    /\ answer' \in {"temporary", "permanent"}
    /\ pc' = "idle"
    /\ UNCHANGED <<scope, desired, index, left, seen, creates, deletes, quiet,
                   dpf>>

\* The groups are applied in the order of the zones' names.
IsNext(z) == z \in left /\ \A y \in left : Rank[z] <= Rank[y]

\* Mutant: a name is written to every zone that contains it.
GroupByAncestor(z, names) == { n \in filterToScope(names) : Contains(z, n) }

Group(z, names) == { n \in filterToScope(names) : OwnedBy(index, n, z) }

\* Client.Apply on one zone takes effect.
Changed(z) ==
    content' = [content EXCEPT
                  ![z] = (@ \ Group(z, deletes)) \union Group(z, creates)]

ApplyZone(z) ==
    /\ pc = "applying"
    /\ IsNext(z)
    /\ Changed(z)
    /\ left' = left \ {z}
    /\ UNCHANGED <<scope, desired, pc, index, seen, creates, deletes, answer,
                   quiet, zones>>

\* Mutant: the zones that are left are tried nevertheless.
ApplyGoesOn(z) ==
    /\ pc = "applying"
    /\ IsNext(z)
    /\ left' = left \ {z}
    /\ UNCHANGED <<scope, desired, pc, index, seen, creates, deletes, answer,
                   quiet, dpf>>

\* One zone fails, possibly after it took effect: the rest is not tried.
ApplyFails(z) ==
    /\ pc = "applying"
    /\ IsNext(z)
    /\ Changed(z) \/ UNCHANGED content
    /\ answer' \in {"temporary", "permanent"}
    /\ left' = {}
    /\ pc' = "idle"
    /\ UNCHANGED <<scope, desired, index, seen, creates, deletes, quiet, zones>>

PostDone ==
    /\ pc = "applying"
    /\ left = {}
    /\ answer' = "ok"
    /\ pc' = "idle"
    /\ UNCHANGED <<scope, desired, index, left, seen, creates, deletes, quiet,
                   dpf>>

-----------------------------------------------------------------------------
\* Somebody creates a zone, with records in it.
ZoneCreated(z) ==
    /\ "zone" \in Events
    /\ z \in ZoneName \ zones
    /\ zones' = zones \union {z}
    /\ \E names \in SUBSET Below(z) : content' = [content EXCEPT ![z] = names]
    /\ quiet' = FALSE
    /\ UNCHANGED <<scope, desired, pc, index, left, seen, creates, deletes,
                   answer>>

\* Somebody edits a zone.
OthersEdit(z) ==
    /\ "edit" \in Events
    /\ z \in zones
    /\ \E names \in SUBSET Below(z) : content' = [content EXCEPT ![z] = names]
    /\ quiet' = FALSE
    /\ UNCHANGED <<scope, desired, pc, index, left, seen, creates, deletes,
                   answer, zones>>

Get == GetRecords \/ (\E z \in ZoneName : ReadZone(z)) \/ Plan

Post ==
    \/ PostNothing \/ PostRecords \/ PostDone
    \/ \E z \in ZoneName : ApplyZone(z)

Failure == ReadFails \/ PostFails \/ \E z \in ZoneName : ApplyFails(z)

Next ==
    \/ Get \/ Post \/ Failure
    \/ \E z \in ZoneName : ZoneCreated(z) \/ OthersEdit(z)

Spec == Init /\ [][Next]_vars

-----------------------------------------------------------------------------
\* What a resolver would be told about a name, given the zones there are.
Authoritative(n) == HasOwner(zones, n) /\ n \in content[Owner(zones, n)]

(***************************************************************************)
(* GET never returns two records of one name, whatever the parent zones    *)
(* keep of names their child zones have taken over, and whatever changes   *)
(* between the reads of two zones (FR-044).                                *)
(***************************************************************************)
ReadNamesOnce == \A r, s \in seen : r.name = s.name => r = s

(***************************************************************************)
(* If nobody interferes, GET returns exactly the records in scope that are *)
(* authoritative: skipping zones and records loses none.                   *)
(***************************************************************************)
ReadIsExact ==
    pc = "planned" /\ quiet =>
        seen = { r \in [name : Name, zone : ZoneName] :
                    /\ InScope(scope, r.name)
                    /\ Authoritative(r.name)
                    /\ r.zone = Owner(zones, r.name) }

(***************************************************************************)
(* Success means success in every zone (FR-012, FR-042): if nobody         *)
(* interfered, all that was asked for in scope can now be resolved.        *)
(***************************************************************************)
OkMeansEverywhere ==
    answer = "ok" /\ quiet =>
        \A n \in Name :
            InScope(scope, n) /\ n \in creates \union deletes
                => (Authoritative(n) <=> n \in creates)

(***************************************************************************)
(* A request changes a record only if it is in scope, was asked for, and   *)
(* only in the zone that owned it when the request listed the zones        *)
(* (FR-043).                                                               *)
(***************************************************************************)
ScopeIsRespected ==
    [][pc = "applying" /\ left' # left =>
          \A z \in ZoneName, n \in Name :
              (n \in content[z]) # (n \in content'[z]) =>
                  /\ InScope(scope, n)
                  /\ OwnedBy(index, n, z)
                  /\ n \in creates \union deletes]_vars

(***************************************************************************)
(* GET and POST list the zones each for itself and agree all the same: if  *)
(* nobody interfered, what a request deletes is the record GET returned    *)
(* (SC-013), and a name is written to the zone that owns it at that moment *)
(* (FR-043: never a name of a child zone into its parent).                 *)
(***************************************************************************)
ReadAndWriteAgree ==
    [][pc = "applying" /\ left' # left /\ quiet =>
          \A z \in ZoneName, n \in Name :
              /\ n \in content[z] \ content'[z]
                    => [name |-> n, zone |-> z] \in seen
              /\ n \in content'[z] \ content[z] => OwnedBy(zones, n, z)]_vars

(***************************************************************************)
(* What a request deletes is the record GET had returned, whatever zones   *)
(* are created meanwhile: a record of a child zone is not deleted on       *)
(* account of one in its parent (SC-013).                                  *)
(***************************************************************************)
DeletesWhatWasRead ==
    [][pc = "applying" /\ left' # left =>
          \A z \in ZoneName, n \in Name :
              n \in content[z] \ content'[z]
                  => [name |-> n, zone |-> z] \in seen]_vars

=============================================================================
