----------------------------- MODULE RecordFormat -----------------------------
(***************************************************************************)
(* What a record must look like for DPF to store it, and how the webhook   *)
(* brings it into that shape: validate.go and adjust.go of                 *)
(* internal/provider, wire.go of internal/webhook, and toProviderRecord of *)
(* internal/dpf.                                                           *)
(*                                                                         *)
(* An endpoint of ExternalDNS is [dnsName, recordType, recordTTL, targets] *)
(* and a record of the webhook [name, type, ttl, values].  A value of a    *)
(* TXT record is                                                           *)
(*   quotes    it is spelled with quotation marks,                         *)
(*   closed    they match, so that the parser accepts it,                  *)
(*   segments  the quoted strings it spells (1 without quotation marks),   *)
(*   strings   the strings of at most 255 octets the parser makes of it,   *)
(*   text      what a resolver reads: a word, with or without backslashes. *)
(* One of MX and SRV has a number of fields and the numbers of the leading *)
(* ones (-1 for what is not a number); all others are opaque.              *)
(***************************************************************************)
EXTENDS Integers, SequencesExt

CONSTANTS
    Canonical,      \* dnsname.Parse
    Unqualified,    \* Name.Unqualified: how ExternalDNS spells a name
    Underscored,    \* the canonical names with an underscore in a label
    Null,           \* a JSON null
    ttlMax

ASSUME ttlMaxAssumption == ttlMax \in Nat \ {0}

ASSUME NamesAssumption ==
    \A n \in DOMAIN Canonical :
        /\ Canonical[n] \in DOMAIN Canonical \intersect DOMAIN Unqualified
        /\ Canonical[Canonical[n]] = Canonical[n]
        /\ Unqualified[Canonical[n]] \in DOMAIN Canonical
        /\ Canonical[Unqualified[Canonical[n]]] = Canonical[n]

ttlMin == 1
ttlUnset == 0
numericFieldMax == 65535

SupportedTypes == {"A", "AAAA", "CNAME", "TXT", "SRV", "PTR", "MX", "NAPTR"}

TXTValues(Texts) ==
    [quotes : BOOLEAN, closed : BOOLEAN, segments : Nat, strings : Nat,
     text : Texts]

-----------------------------------------------------------------------------
\* Mutant: backslashes are left as they are, and one of a pair is lost.
QuotedPlain(text) ==
    [text EXCEPT !.backslash = IF @ = "pair" THEN "single" ELSE "none"]

\* parseTXT puts a bare value into quotation marks and doubles pairs of
\* backslashes; a single one escapes the character after it and is lost.
Quoted(text) ==
    IF text.backslash = "single" THEN [text EXCEPT !.backslash = "none"]
    ELSE text

\* Mutant: what has quotation marks is taken for split.
NormalizeTXTQuoted(v) ==
    IF v.quotes THEN v
    ELSE [v EXCEPT !.quotes = TRUE, !.segments = v.strings,
                   !.text = Quoted(v.text)]

NormalizeTXT(v) ==
    IF v.quotes /\ v.strings <= v.segments THEN v
    ELSE [v EXCEPT !.quotes = TRUE, !.segments = v.strings,
                   !.text = IF v.quotes THEN @ ELSE Quoted(@)]

-----------------------------------------------------------------------------
validateNumericPrefix(r, n, want) ==
    \A v \in ToSet(r.values) :
        /\ v.fields = want
        /\ \A i \in 1 .. n : v.numbers[i] \in 0 .. numericFieldMax

\* Mutant: the TTL is left to Adjust.
validateRecordAnyTTL(r) ==
    /\ r.type \in SupportedTypes
    /\ r.type \in {"A", "AAAA"} => r.name \notin Underscored
    /\ r.type = "CNAME" => Len(r.values) = 1
    /\ r.type = "TXT" => \A v \in ToSet(r.values) : v.closed
    /\ r.type = "MX" => validateNumericPrefix(r, 1, 2)
    /\ r.type = "SRV" => validateNumericPrefix(r, 3, 4)

validateRecord(r) ==
    /\ r.type \in SupportedTypes
    /\ r.ttl = ttlUnset \/ r.ttl \in ttlMin .. ttlMax
    /\ r.type \in {"A", "AAAA"} => r.name \notin Underscored
    /\ r.type = "CNAME" => Len(r.values) = 1
    /\ r.type = "TXT" => \A v \in ToSet(r.values) : v.closed
    /\ r.type = "MX" => validateNumericPrefix(r, 1, 2)
    /\ r.type = "SRV" => validateNumericPrefix(r, 3, 4)

\* Only what the change set adds is looked at, not what the zone holds.
validateCNAMEExclusivity(cs) ==
    \A r, s \in ToSet(cs.create \o cs.updateTo) :
        r.name = s.name /\ r.type = "CNAME" => s.type = "CNAME"

ValidateFormat(cs) ==
    /\ \A r \in ToSet(cs.create \o cs.updateTo \o cs.delete) :
          validateRecord(r)
    /\ validateCNAMEExclusivity(cs)

-----------------------------------------------------------------------------
\* Mutant: only the upper end is looked at.
clampTTLAbove(ttl) == IF ttl > ttlMax THEN ttlMax ELSE ttl

clampTTL(ttl) ==
    CASE ttl = ttlUnset -> ttlUnset
      [] ttl # ttlUnset /\ ttl < ttlMin -> ttlMin
      [] ttl > ttlMax -> ttlMax
      [] OTHER -> ttl

\* Mutant: values are left to Apply.
adjustValuesNot(r) == r.values

\* A value that cannot be parsed is left as it is.
adjustValues(r) ==
    IF r.type # "TXT" THEN r.values
    ELSE [i \in DOMAIN r.values |->
             IF r.values[i].closed THEN NormalizeTXT(r.values[i])
             ELSE r.values[i]]

Adjust(records) ==
    [i \in DOMAIN records |->
        [records[i] EXCEPT !.ttl = clampTTL(@),
                           !.values = adjustValues(records[i])]]

-----------------------------------------------------------------------------
\* toRecord fails on other endpoints.
Readable(e) ==
    e.dnsName \in DOMAIN Canonical /\ e.recordType \in SupportedTypes

toRecord(e) ==
    [name |-> Canonical[e.dnsName], type |-> e.recordType, ttl |-> e.recordTTL,
     values |-> e.targets]

toRecords(endpoints) ==
    [i \in DOMAIN endpoints |-> toRecord(endpoints[i])]

toEndpoint(r) ==
    [dnsName |-> Unqualified[r.name], recordType |-> r.type,
     recordTTL |-> r.ttl, targets |-> r.values]

adjustEndpoints(in) ==
    LET adjusted == Adjust(toRecords(in))
    IN  [i \in DOMAIN in |-> toEndpoint(adjusted[i])]

\* updateOld is not read.
toChangeSet(c) ==
    [create |-> toRecords(c.create), updateTo |-> toRecords(c.updateNew),
     delete |-> toRecords(c.delete)]

-----------------------------------------------------------------------------
\* The stored records ListRecords shows.
Listed(r) == r.rrtype \in SupportedTypes /\ r.name \in DOMAIN Canonical

toProviderRecord(r) ==
    [name |-> Canonical[r.name], type |-> r.rrtype,
     ttl |-> IF r.ttl = Null THEN ttlUnset ELSE r.ttl, values |-> r.rdata]

Show(records, r) ==
    IF Listed(r) THEN Append(records, toProviderRecord(r)) ELSE records

ListRecords(zone) == FoldLeft(Show, <<>>, zone)

=============================================================================
