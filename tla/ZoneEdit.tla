------------------------------ MODULE ZoneEdit ------------------------------
(***************************************************************************)
(* One zone, record by record, that is edited again and again.  Every step *)
(* of Apply is a whole pass of Client.Apply through the zone lock (module  *)
(* ZoneApply shows why it may be taken as one step); between two passes    *)
(* others may change the zone.                                             *)
(***************************************************************************)
EXTENDS ZoneMerge

CONSTANTS
    Zones,          \* what others may make of the zone: sequences of records
    ChangeSets      \* what is asked for: [create, updateTo, delete]

VARIABLES
    zone,           \* the published records, in the order DPF returns them
    request,        \* the last change set, Null if others edited since
    outcome         \* what became of it

vars == <<zone, request, outcome>>

\* The names and types a zone has records of.
Keys(s) == { keyOf(r) : r \in ToSet(s) }

(***************************************************************************)
(* What DPF stores: no two records under one name and type (merge.go,      *)
(* recordKey), and no TTL of 0.                                            *)
(***************************************************************************)
IsRecord(r) ==
    r = [name |-> r.name, rrtype |-> r.rrtype, ttl |-> r.ttl,
         rdata |-> r.rdata, labels |-> r.labels, description |-> r.description]

IsZone(s) ==
    /\ s \in Seq(ToSet(s))
    /\ \A r \in ToSet(s) : IsRecord(r) /\ r.ttl # 0
    /\ \A i, j \in DOMAIN s : keyOf(s[i]) = keyOf(s[j]) => i = j

ASSUME NullAssumption == Null \notin {0, managedBy} /\ Null \notin ChangeSets

ASSUME ZonesAssumption == \A s \in Zones : IsZone(s)

deletedKeys(cs) == { providerKey(r) : r \in ToSet(cs.delete) }

\* Names of change sets have been parsed; ExternalDNS does not delete what it
\* creates or updates.
IsChangeSet(cs) ==
    /\ cs.delete \in Seq(ToSet(cs.delete))
    /\ Puts(cs) \in Seq(ToSet(Puts(cs)))
    /\ \A r \in ToSet(Puts(cs)) :
          r.name \in DOMAIN Canonical /\ Canonical[r.name] = r.name
    /\ deletedKeys(cs) \intersect changedKeys(cs) = {}

ASSUME ChangesAssumption == \A cs \in ChangeSets : IsChangeSet(cs)

TypeOK ==
    /\ IsZone(zone)
    /\ request \in ChangeSets \union {Null}
    /\ outcome \in {"none", "refused", "aborted", "skipped", "submitted"}

Init ==
    /\ zone \in Zones
    /\ request = Null
    /\ outcome = "none"

\* What DPF returns of a set it was sent: no labels may come back as null.
AsReturned(set) ==
    { set, [i \in DOMAIN set |->
              IF set[i].labels = {} THEN [set[i] EXCEPT !.labels = Null]
              ELSE set[i]] }

Apply(cs) ==
    /\ request' = cs
    /\ outcome' = Outcome(zone, cs)
    /\ IF outcome' = "submitted"
       THEN zone' \in AsReturned(Submission(zone, cs))
       ELSE UNCHANGED zone

OthersEdit ==
    /\ zone' \in Zones
    /\ request' = Null
    /\ outcome' = "none"

Next == (\E cs \in ChangeSets : Apply(cs)) \/ OthersEdit

Spec == Init /\ [][Next]_vars

-----------------------------------------------------------------------------
(***************************************************************************)
(* The zone as module ZoneContent sees it: a value for every key, made of  *)
(* TTL, values and labels.                                                 *)
(***************************************************************************)
TouchedKeys(cs) == { providerKey(r) : r \in ToSet(cs.delete \o Puts(cs)) }

ValueAt(s, k) ==
    IF k \notin Keys(s) THEN Null
    ELSE LET r == CHOOSE x \in ToSet(s) : keyOf(x) = k
         IN  [ttl |-> r.ttl, rdata |-> r.rdata,
              labels |-> IF r.labels = Null THEN {} ELSE r.labels]

\* What a change set asks for under a key: the last of several records wins.
Wanted(cs, k) ==
    IF k \notin changedKeys(cs) THEN Null
    ELSE LET i == SelectLastInSeq(Puts(cs), LAMBDA r : providerKey(r) = k)
             r == Puts(cs)[i]
         IN  [ttl |-> toTTL(r.ttl), rdata |-> Rdata(r), labels |-> managedBy]

-----------------------------------------------------------------------------
(***************************************************************************)
(* Whatever is asked for, the records nobody asked to change (the ones     *)
(* people made, SOA, apex NS, names that cannot be parsed) keep every      *)
(* field and their order: a replacement of the whole zone is an edit.      *)
(***************************************************************************)
ForeignUntouched ==
    [][request' # Null =>
          LET foreign(s) ==
                { i \in DOMAIN s : keyOf(s[i]) \notin TouchedKeys(request') }
          IN  \E at \in [foreign(zone) -> foreign(zone')] :
                 /\ \A j \in foreign(zone') : \E i \in foreign(zone) : at[i] = j
                 /\ \A i, j \in foreign(zone) : i < j => at[i] < at[j]
                 /\ \A i \in foreign(zone) :
                       sameRecord(zone[i], zone'[at[i]])]_vars

(***************************************************************************)
(* Unless it is given up, an edit leaves exactly the value asked for under *)
(* every key of the change set, whether the key is new, known or gone, and *)
(* the mark on what it wrote: it is Merged of module ZoneContent.  An edit *)
(* that is skipped had nothing to do.                                      *)
(***************************************************************************)
EditIsMerge ==
    [][outcome' \in {"skipped", "submitted"} =>
          \A k \in Keys(zone) \union Keys(zone') \union TouchedKeys(request') :
              ValueAt(zone', k) =
                  IF k \in TouchedKeys(request') THEN Wanted(request', k)
                  ELSE ValueAt(zone, k)]_vars

(***************************************************************************)
(* A change set that was applied, but whose answer was lost, is sent again *)
(* by ExternalDNS: as long as nobody else edits, there is nothing left to  *)
(* do (unchanged), however DPF returns what it was sent.                   *)
(***************************************************************************)
RetryIsNoop ==
    outcome \in {"skipped", "submitted"} => Outcome(zone, request) = "skipped"

(***************************************************************************)
(* merge loses no record that is not to be deleted, so the check before    *)
(* the submission (guard) stops an edit in one case only, and always then: *)
(* a record that stays is spelled in a way that is not the canonical one,  *)
(* be it one the change set is about or not.                               *)
(***************************************************************************)
AbortsOnlyMisspelt ==
    [][request' # Null =>
          (outcome' = "aborted" <=>
              /\ ~Inexpressible(request')
              /\ \E r \in ToSet(zone) : /\ RawKey(r) # keyOf(r)
                                        /\ keyOf(r) \notin deletedKeys(request'))]_vars

=============================================================================
