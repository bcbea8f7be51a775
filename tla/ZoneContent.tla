----------------------------- MODULE ZoneContent -----------------------------
(***************************************************************************)
(* What a zone publishes, seen from far enough away: one stored record per *)
(* record key (a name and a type), or NoVal where the zone has none.  A    *)
(* value stands for what an edit decides of a record: TTL, rdata and       *)
(* labels.  Module ZoneEdit keeps the records themselves, description      *)
(* included, and is shown to compute Merged.                               *)
(***************************************************************************)
CONSTANTS
    Key,        \* record keys: a name and a type
    Val,        \* stored records
    NoVal,      \* the zone has no record under the key
    Request     \* the change sets callers send

ASSUME NoValAssumption == NoVal \notin Val

Content == [Key -> Val \union {NoVal}]

(***************************************************************************)
(* A change set maps every key it touches to the record it asks for, or to *)
(* NoVal where it asks for a deletion.                                     *)
(***************************************************************************)
ChangeSets == UNION { [K -> Val \union {NoVal}] : K \in SUBSET Key }

NoChange == [k \in {} |-> NoVal]

\* Nobody calls Apply with an empty change set: it returns at once.
ASSUME RequestAssumption == Request \subseteq ChangeSets \ {NoChange}

\* The zone with a change set applied to it: keys outside it are untouched.
Merged(content, cs) ==
    [k \in Key |-> IF k \in DOMAIN cs THEN cs[k] ELSE content[k]]

=============================================================================
