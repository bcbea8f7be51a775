------------------------------ MODULE MCExchange ------------------------------
(***************************************************************************)
(* Finite instances of Exchange.  Names are a and _u, parsed by module     *)
(* DnsName; ExternalDNS spells them without the final dot; .. is no name.  *)
(***************************************************************************)
EXTENDS Exchange, TLC

CONSTANTS v1, v2, spf

MCCanonical ==
    [n \in {"a", "A", "a.", "_u", "_u."} |->
        IF n \in {"_u", "_u."} THEN "_u." ELSE "a."]

MCUnqualified == "a." :> "a" @@ "_u." :> "_u"

Dns == INSTANCE DnsName

Spelling(label, upper, dot) ==
    [labels |-> <<label>>, upper |-> upper, dot |-> dot, blanks |-> FALSE]

Spelled ==
    "a" :> Spelling("a", FALSE, FALSE) @@ "A" :> Spelling("a", TRUE, FALSE)
    @@ "a." :> Spelling("a", FALSE, TRUE) @@ "_u" :> Spelling("_u", FALSE, FALSE)
    @@ "_u." :> Spelling("_u", FALSE, TRUE) @@ ".." :> Spelling("", FALSE, TRUE)

\* The two tables are what Parse and WithoutDot make of these spellings.
ASSUME TablesAssumption ==
    /\ \A n \in DOMAIN Spelled :
          /\ n \in DOMAIN MCCanonical <=> Dns!Parses(Spelled[n])
          /\ n \in DOMAIN MCCanonical =>
                Spelled[MCCanonical[n]] = Dns!Parse(Spelled[n])
    /\ \A n \in DOMAIN MCUnqualified :
          Spelled[MCUnqualified[n]] = Dns!WithoutDot(Spelled[n])

MCUnderscored == {"_u."}

Endpoint(dnsName, recordType, recordTTL, targets) ==
    [dnsName |-> dnsName, recordType |-> recordType, recordTTL |-> recordTTL,
     targets |-> targets]

TXT(quotes, segments, strings, backslash) ==
    [quotes |-> quotes, closed |-> TRUE, segments |-> segments,
     strings |-> strings, text |-> [word |-> spf, backslash |-> backslash]]

Bare     == TXT(FALSE, 1, 1, "none")
BarePair == TXT(FALSE, 1, 1, "pair")
BareOne  == TXT(FALSE, 1, 1, "single")
BareLong == TXT(FALSE, 1, 2, "none")
InTwo    == TXT(TRUE, 2, 2, "none")
Mixed    == TXT(TRUE, 1, 2, "none")     \* also one long quoted string
Unclosed == [Bare EXCEPT !.closed = FALSE]

Mail(fields, preference) ==
    [fields |-> fields, numbers |-> <<preference>>]

Service(port) == [fields |-> 4, numbers |-> <<0, 65535, port>>]

\* Values and TTLs the records people type in may have.
Good ==
    { Endpoint("a", "A", 0, <<v1>>), Endpoint("a", "A", -1, <<v2, v1>>),
      Endpoint("A", "AAAA", ttlMax + 1, <<v1>>),
      Endpoint("a", "CNAME", 1, <<v1>>),
      Endpoint("_u", "TXT", 0, <<Bare>>),
      Endpoint("_u", "TXT", 1, <<BarePair, Mixed>>),
      Endpoint("a", "TXT", 0, <<BareLong, InTwo>>),
      Endpoint("a", "MX", 1, <<Mail(2, 65535)>>),
      Endpoint("_u", "SRV", 0, <<Service(0)>>) }

Bad ==
    { Endpoint("_u", "A", 0, <<v1>>), Endpoint("a", "CNAME", 0, <<v1, v2>>),
      Endpoint("a", "TXT", 0, <<Unclosed>>),
      Endpoint("a", "MX", 1, <<Mail(2, 65536)>>),
      Endpoint("a", "MX", 1, <<Mail(1, 10)>>),
      Endpoint("_u", "SRV", 1, <<Service(443), Service(-1)>>),
      Endpoint("..", "A", 0, <<v1>>), Endpoint("a", "NS", 0, <<v1>>) }

\* One of them, or two of one name and different types, in some order.
Pairs(S) ==
    { SetToSeq(T) : T \in { U \in SUBSET S :
        /\ Cardinality(U) \in 1 .. 2
        /\ \A d, e \in U :
              d # e => /\ Canonical[d.dnsName] = Canonical[e.dnsName]
                       /\ d.recordType # e.recordType } }

MCWishes == Pairs(Good) \union { <<e>> : e \in Bad }

WithOneBackslash == { <<Endpoint("a", "TXT", 0, <<BareOne>>)>> }

\* A client that adjusts nothing, and a retry of a deletion.
MCRawChanges ==
    { [create |-> <<e>>, updateNew |-> <<>>, delete |-> <<>>] :
        e \in { g \in Good : g.recordTTL # 0 } \union Bad }
    \union
    { [create |-> <<>>, updateNew |-> <<>>,
       delete |-> <<Endpoint("a.", "A", 1, <<v1>>)>>] }

Stored(name, rrtype, ttl, rdata) ==
    [name |-> name, rrtype |-> rrtype, ttl |-> ttl, rdata |-> rdata,
     labels |-> {}, description |-> "by hand"]

MCZones ==
    { <<>>,
      <<Stored("a.", "SOA", Null, <<v1>>), Stored("a.", "A", 1, <<v1>>)>>,
      <<Stored("..", "A", Null, <<v1>>),
        Stored("_u.", "TXT", Null, <<InTwo>>)>> }

MCFailures ==
    { [cause |-> "token", marks |-> {"token"}, status |-> 0],
      [cause |-> "noSuchZone", marks |-> {"noSuchZone"}, status |-> 0],
      [cause |-> "labelLimit", marks |-> {"labelLimit"}, status |-> 0],
      [cause |-> "refused", marks |-> {}, status |-> 403],
      [cause |-> "locked", marks |-> {"temporary", "stillLock"}, status |-> 0],
      [cause |-> "lockLost", marks |-> {"notLockHolder", "context"},
       status |-> 0],
      [cause |-> "cut", marks |-> {"context"}, status |-> 400],
      [cause |-> "slow", marks |-> {}, status |-> 408],
      [cause |-> "tooMany", marks |-> {}, status |-> 429],
      [cause |-> "down", marks |-> {}, status |-> 503],
      [cause |-> "unreachable", marks |-> {"network"}, status |-> 0] }

=============================================================================
