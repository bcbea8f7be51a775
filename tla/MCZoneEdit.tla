------------------------------ MODULE MCZoneEdit ------------------------------
(***************************************************************************)
(* Finite instances of ZoneEdit.  The names are a. and b., A. that is read *)
(* as a., and a name no parser accepts.                                    *)
(***************************************************************************)
EXTENDS ZoneEdit

MCCanonical == [n \in {"a.", "A.", "b."} |-> IF n = "A." THEN "a." ELSE n]

\* t1 needs quotes to be stored; a broken value has no normal form.
MCNormalizeValues == [v \in {"t1", "'t1'"} |-> "'t1'"]

MCSupportedTypes == {"A", "TXT"}

Stored(name, rrtype, ttl, rdata, labels, description) ==
    [name |-> name, rrtype |-> rrtype, ttl |-> ttl, rdata |-> rdata,
     labels |-> labels, description |-> description]

\* A record people made, one of the webhook, its registry TXT, a SOA that has
\* no TTL, a name that cannot be parsed, and one in capitals
\* (TestMerge_MatchesRecordsCaseInsensitively).
Records ==
    { Stored("a.", "A", 300, "v1", {"env"}, "by hand"),
      Stored("a.", "A", 300, "v2", managedBy, ""),
      Stored("a.", "TXT", Null, "'t1'", managedBy, ""),
      Stored("b.", "SOA", Null, "soa", Null, ""),
      Stored("..", "A", 300, "v1", Null, "odd"),
      Stored("A.", "A", 300, "v1", {}, "") }

ZonesOf(records) ==
    { s \in BoundedSeq(records, 2) : Cardinality(Keys(s)) = Len(s) }

MCZones == ZonesOf(Records)

Wish(name, type, ttl, values) ==
    [name |-> name, type |-> type, ttl |-> ttl, values |-> values]

Wishes ==
    { Wish("a.", "A", 0, "v2"), Wish("a.", "TXT", 0, "t1"),
      Wish("b.", "A", 300, "v1"), Wish("a.", "TXT", 0, "broken") }

Gone == { Wish("a.", "A", 300, "v1"), Wish("a.", "TXT", 0, "'t1'"),
          Wish("b.", "LOC", 0, "v1") }

Asks ==
    { cs \in [create : BoundedSeq(
                          Wishes \union {Wish("a.", "A", 300, "v1")}, 1),
              updateTo : BoundedSeq(Wishes, 1), delete : BoundedSeq(Gone, 1)] :
        Len(Puts(cs) \o cs.delete) \in 1..2 }

\* ExternalDNS does not delete what it creates or updates.
MCChangeSets ==
    { cs \in Asks : { providerKey(r) : r \in ToSet(cs.delete) }
                        \intersect changedKeys(cs) = {} }

=============================================================================
