------------------------------ MODULE ZoneMerge ------------------------------
(***************************************************************************)
(* The edit function of Client.Apply (internal/dpf/apply.go, merge.go and  *)
(* label.go): which records are sent to replace a zone, given the records  *)
(* it publishes and a change set.                                          *)
(*                                                                         *)
(* A stored record is [name, rrtype, ttl, rdata, labels, description]; its *)
(* name is spelled the way DPF returns it.  A record of a change set is    *)
(* [name, type, ttl, values]; its name is canonical (dnsname.Name).        *)
(***************************************************************************)
EXTENDS Integers, SequencesExt

CONSTANTS
    Canonical,       \* dnsname.Parse: canonical forms of the names it accepts
    NormalizeValues, \* provider.NormalizeTXT, value by value, where it succeeds
    SupportedTypes,  \* the types toDPF knows
    Null             \* a JSON null: no TTL, no labels

ASSUME CanonicalAssumption ==
    \A n \in DOMAIN Canonical :
        /\ Canonical[n] \in DOMAIN Canonical
        /\ Canonical[Canonical[n]] = Canonical[n]

ASSUME NormalizeAssumption ==
    \A v \in DOMAIN NormalizeValues :
        /\ NormalizeValues[v] \in DOMAIN NormalizeValues
        /\ NormalizeValues[NormalizeValues[v]] = NormalizeValues[v]

managedBy == {"managed-by"}

-----------------------------------------------------------------------------
recordKey(name, rrtype) == [name |-> name, rrtype |-> rrtype]

\* The key of a stored record as it is spelled, and as merge compares it.
RawKey(r) == recordKey(r.name, r.rrtype)

keyOf(r) ==
    recordKey(IF r.name \in DOMAIN Canonical THEN Canonical[r.name] ELSE r.name,
              r.rrtype)

providerKey(r) == recordKey(r.name, r.type)

toTTL(ttl) == IF ttl = 0 THEN Null ELSE ttl

\* The values of a record as DPF is to store them (normalizeValues).
Rdata(r) == IF r.type = "TXT" THEN NormalizeValues[r.values] ELSE r.values

Puts(cs) == cs.create \o cs.updateTo

\* merge gives up on a type or a TXT value it cannot express.
Inexpressible(cs) ==
    \/ \E r \in ToSet(cs.delete \o Puts(cs)) : r.type \notin SupportedTypes
    \/ \E r \in ToSet(Puts(cs)) :
          r.type = "TXT" /\ r.values \notin DOMAIN NormalizeValues

-----------------------------------------------------------------------------
(***************************************************************************)
(* merge walks the published records, the deletions, what is created or    *)
(* updated, and the keys.  It carries the records by key (set), the keys   *)
(* in the order they were first met (order), and what it returns (out).    *)
(***************************************************************************)
Nothing == [set |-> [k \in {} |-> Null], order |-> <<>>, out |-> <<>>]

Assign(set, k, r) ==
    [x \in DOMAIN set \union {k} |-> IF x = k THEN r ELSE set[x]]

Remember(order, set, k) == IF k \in DOMAIN set THEN order ELSE Append(order, k)

\* Absent labels become no labels.
Plain(r) == IF r.labels = Null THEN [r EXCEPT !.labels = {}] ELSE r

\* Mutants: a record loses its description; a name that cannot be parsed is
\* passed over.
TakeOverBare(m, r) ==
    [m EXCEPT !.set = Assign(@, keyOf(r), [r EXCEPT !.description = ""]),
              !.order = Remember(@, m.set, keyOf(r))]

TakeOverParsed(m, r) ==
    IF r.name \notin DOMAIN Canonical THEN m
    ELSE [m EXCEPT !.set = Assign(@, keyOf(r), r),
                   !.order = Remember(@, m.set, keyOf(r))]

\* A published record, verbatim but for absent labels.
TakeOver(m, r) ==
    [m EXCEPT !.set = Assign(@, keyOf(r), Plain(r)),
              !.order = Remember(@, m.set, keyOf(r))]

Drop(m, r) ==
    [m EXCEPT !.set = [k \in DOMAIN @ \ {providerKey(r)} |-> @[k]]]

\* The record to store under the key of r: the one there is, or a new one.
Written(set, r) ==
    LET k == providerKey(r)
    IN  IF k \in DOMAIN set
        THEN [set[k] EXCEPT !.ttl = toTTL(r.ttl), !.rdata = Rdata(r)]
        ELSE [name |-> k.name, rrtype |-> k.rrtype, ttl |-> toTTL(r.ttl),
              rdata |-> Rdata(r), labels |-> {}, description |-> ""]

\* Mutant: what is written goes to the end, whether it is there or not.
PutAtEnd(m, r) ==
    [m EXCEPT !.set = Assign(@, providerKey(r), Written(@, r)),
              !.order = Append(@, providerKey(r))]

Put(m, r) ==
    [m EXCEPT !.set = Assign(@, providerKey(r), Written(@, r)),
              !.order = Remember(@, m.set, providerKey(r))]

Emit(m, k) ==
    IF k \in DOMAIN m.set THEN [m EXCEPT !.out = Append(@, m.set[k])] ELSE m

merge(current, cs) ==
    LET taken == FoldLeft(TakeOver, Nothing, current)
        left  == FoldLeft(Drop, taken, cs.delete)
        full  == FoldLeft(Put, left, Puts(cs))
    IN  FoldLeft(Emit, full, full.order).out

-----------------------------------------------------------------------------
changedKeys(cs) == { providerKey(r) : r \in ToSet(Puts(cs)) }

\* Mutant: the mark is added to the labels a record has.
applyManagedByAdding(set, cs) ==
    [i \in DOMAIN set |->
        IF RawKey(set[i]) \in changedKeys(cs)
        THEN [set[i] EXCEPT !.labels = @ \union managedBy] ELSE set[i]]

\* What is written carries the mark and no other label.
applyManagedBy(set, cs) ==
    [i \in DOMAIN set |->
        IF RawKey(set[i]) \in changedKeys(cs)
        THEN [set[i] EXCEPT !.labels = managedBy] ELSE set[i]]

\* A published record is missing that nobody asked to delete (guard).
LostUnasked(current, set, cs) ==
    \E r \in ToSet(current) :
        /\ keyOf(r) \notin { RawKey(s) : s \in ToSet(set) }
        /\ keyOf(r) \notin { providerKey(d) : d \in ToSet(cs.delete) }

\* Mutant: absent labels differ from no labels.
sameRecordExactly(a, b) == a = b

\* Absent labels and no labels are the same.
sameRecord(a, b) == Plain(a) = Plain(b)

unchanged(current, set) ==
    /\ Len(current) = Len(set)
    /\ \A i \in DOMAIN set : sameRecord(current[i], set[i])

-----------------------------------------------------------------------------
\* What the edit function returns: the outcome and, if any, what is sent.
Submission(current, cs) == applyManagedBy(merge(current, cs), cs)

Outcome(current, cs) ==
    IF Inexpressible(cs) THEN "refused"
    ELSE LET set == Submission(current, cs)
         IN  IF LostUnasked(current, set, cs) THEN "aborted"
             ELSE IF unchanged(current, set) THEN "skipped"
             ELSE "submitted"

=============================================================================
