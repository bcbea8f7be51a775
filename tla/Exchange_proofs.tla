---------------------------- MODULE Exchange_proofs ----------------------------
(***************************************************************************)
(* What validate.go and adjust.go promise of every record, what the        *)
(* classes of errors promise of every error, and the properties of         *)
(* Exchange, all from one inductive invariant (Inv).                       *)
(***************************************************************************)
EXTENDS Exchange, FiniteSetTheorems, TLAPS

\* The theorems about merge; its own state machine is not used.
Z == INSTANCE ZoneEdit_proofs
        WITH NormalizeValues <- normalizeValues, Zones <- {}, ChangeSets <- {},
             request <- answer, outcome <- answer

Shows == INSTANCE FoldFacts WITH Step <- Show

\* What DPF takes for a TXT value.
Split(v) == v.quotes /\ v.strings <= v.segments

-----------------------------------------------------------------------------
(***************************************************************************)
(* Whatever TTL ExternalDNS asks for, what Adjust makes of it passes       *)
(* validateRecord, and is left alone the next time (clampTTL).             *)
(***************************************************************************)
THEOREM ClampTTLIsInRange ==
    ASSUME NEW ttl \in Int
    PROVE  /\ clampTTL(ttl) = ttlUnset \/ clampTTL(ttl) \in ttlMin .. ttlMax
           /\ clampTTL(clampTTL(ttl)) = clampTTL(ttl)
<1>. USE ttlMaxAssumption DEF ttlMin, ttlUnset
<1>1. CASE ttl = 0
    <2>1. clampTTL(ttl) = 0
        BY <1>1 DEF clampTTL
    <2>. QED  BY <1>1, <2>1
<1>2. CASE ttl < 0
    <2>1. clampTTL(ttl) = 1
        BY <1>2 DEF clampTTL
    <2>2. clampTTL(1) = 1
        BY DEF clampTTL
    <2>. QED  BY <2>1, <2>2
<1>3. CASE ttl > ttlMax
    <2>1. clampTTL(ttl) = ttlMax
        BY <1>3 DEF clampTTL
    <2>2. clampTTL(ttlMax) = ttlMax
        BY DEF clampTTL
    <2>. QED  BY <2>1, <2>2
<1>4. CASE ttl \in 1 .. ttlMax
    <2>1. clampTTL(ttl) = ttl
        BY <1>4 DEF clampTTL
    <2>. QED  BY <1>4, <2>1
<1>. QED  BY <1>1, <1>2, <1>3, <1>4

\* What parseTXT reads is a text again.
LEMMA TextsAreQuoted == \A t \in Texts : Quoted(t) \in Texts
BY DEF Texts, Quoted

(***************************************************************************)
(* A value goes out split and in quotation marks, and what is so is left   *)
(* alone (NormalizeTXT): the same value of ExternalDNS and of DPF are      *)
(* spelled alike.                                                          *)
(***************************************************************************)
THEOREM NormalizeTXTIsSplit ==
    ASSUME NEW v \in TXTValues(Texts)
    PROVE  /\ NormalizeTXT(v) \in TXTValues(Texts)
           /\ Split(NormalizeTXT(v))
           /\ NormalizeTXT(v).closed = v.closed
           /\ NormalizeTXT(NormalizeTXT(v)) = NormalizeTXT(v)
<1>1. ASSUME NEW u, Split(u)
      PROVE  NormalizeTXT(u) = u
    BY <1>1 DEF Split, NormalizeTXT
<1>2. CASE Split(v)
    BY <1>1, <1>2
<1>3. CASE ~Split(v)
    <2>1. /\ v.quotes \in BOOLEAN /\ v.closed \in BOOLEAN
          /\ v.segments \in Nat /\ v.strings \in Nat /\ v.text \in Texts
        BY DEF TXTValues
    <2>. DEFINE text == IF v.quotes THEN v.text ELSE Quoted(v.text)
                w == [quotes |-> TRUE, closed |-> v.closed,
                      segments |-> v.strings, strings |-> v.strings,
                      text |-> text]
    <2>2. text \in Texts
        BY <2>1, TextsAreQuoted
    <2>3. NormalizeTXT(v) = w
        BY <1>3 DEF Split, NormalizeTXT, TXTValues
    <2>4. w \in TXTValues(Texts) /\ Split(w) /\ w.closed = v.closed
        BY <2>1, <2>2 DEF TXTValues, Split
    <2>. HIDE DEF w
    <2>. QED  BY <1>1, <2>3, <2>4
<1>. QED  BY <1>2, <1>3

-----------------------------------------------------------------------------
\* What ExternalDNS may send: names and types have been looked at before
\* (Readable), TTLs are any numbers.
Sendable(e) ==
    /\ Readable(e)
    /\ e.recordTTL \in Int
    /\ e.recordType = "TXT" =>
          \A i \in DOMAIN e.targets : e.targets[i] \in TXTValues(Texts)

\* One endpoint through toRecord, Adjust and toEndpoint.
Adjusted(e) ==
    [dnsName    |-> Unqualified[Canonical[e.dnsName]],
     recordType |-> e.recordType,
     recordTTL  |-> clampTTL(e.recordTTL),
     targets    |-> adjustValues(toRecord(e))]

LEMMA AdjustsOneByOne ==
    ASSUME NEW in
    PROVE  adjustEndpoints(in) = [i \in DOMAIN in |-> Adjusted(in[i])]
<1>1. DOMAIN toRecords(in) = DOMAIN in
    BY DEF toRecords
<1>2. ASSUME NEW i \in DOMAIN in
      PROVE  toEndpoint(Adjust(toRecords(in))[i]) = Adjusted(in[i])
    <2>. DEFINE r == toRecord(in[i])
    <2>1. toRecords(in)[i] = r
        BY DEF toRecords
    <2>2. Adjust(toRecords(in))[i] = [r EXCEPT !.ttl = clampTTL(r.ttl),
                                               !.values = adjustValues(r)]
        BY <1>1, <2>1 DEF Adjust
    <2>3. Adjust(toRecords(in))[i]
             = [name |-> Canonical[in[i].dnsName], type |-> in[i].recordType,
                ttl |-> clampTTL(in[i].recordTTL), values |-> adjustValues(r)]
        BY <2>2 DEF toRecord
    <2>. QED  BY <2>3 DEF toEndpoint, Adjusted
<1>. QED  BY <1>2 DEF adjustEndpoints

LEMMA AdjustsValuesOnce ==
    ASSUME NEW r, NEW s, s.type = r.type, s.values = adjustValues(r),
           r.type = "TXT" =>
              \A i \in DOMAIN r.values : r.values[i] \in TXTValues(Texts)
    PROVE  /\ adjustValues(s) = adjustValues(r)
           /\ r.type = "TXT" => \A i \in DOMAIN s.values :
                                   s.values[i] \in TXTValues(Texts)
<1>1. CASE r.type # "TXT"
    BY <1>1 DEF adjustValues
<1>2. CASE r.type = "TXT"
    <2>. DEFINE once(v) == IF v.closed THEN NormalizeTXT(v) ELSE v
    <2>1. adjustValues(r) = [i \in DOMAIN r.values |-> once(r.values[i])]
        BY <1>2 DEF adjustValues
    <2>2. adjustValues(s) = [i \in DOMAIN s.values |-> once(s.values[i])]
        BY <1>2 DEF adjustValues
    <2>3. ASSUME NEW v \in TXTValues(Texts)
          PROVE  once(v) \in TXTValues(Texts) /\ once(once(v)) = once(v)
        BY NormalizeTXTIsSplit
    <2>. HIDE DEF once
    <2>. QED  BY <1>2, <2>1, <2>2, <2>3
<1>. QED  BY <1>1, <1>2

(***************************************************************************)
(* POST /adjustendpoints answers what it was given if that is an answer of *)
(* its own: names, TTLs and values alike, in sequences of any length.      *)
(***************************************************************************)
THEOREM AdjustingIsIdempotent ==
    ASSUME NEW in, \A i \in DOMAIN in : Sendable(in[i])
    PROVE  adjustEndpoints(adjustEndpoints(in)) = adjustEndpoints(in)
<1>. DEFINE out == adjustEndpoints(in)
<1>1. out = [i \in DOMAIN in |-> Adjusted(in[i])]
    BY AdjustsOneByOne
<1>2. adjustEndpoints(out) = [i \in DOMAIN out |-> Adjusted(out[i])]
    BY AdjustsOneByOne
<1>3. ASSUME NEW e, Sendable(e)
      PROVE  Adjusted(Adjusted(e)) = Adjusted(e)
    <2>1. Canonical[Unqualified[Canonical[e.dnsName]]] = Canonical[e.dnsName]
        BY <1>3, NamesAssumption DEF Sendable, Readable
    <2>2. clampTTL(clampTTL(e.recordTTL)) = clampTTL(e.recordTTL)
        BY <1>3, ClampTTLIsInRange DEF Sendable
    <2>3. adjustValues(toRecord(Adjusted(e))) = adjustValues(toRecord(e))
        <3>1. /\ toRecord(Adjusted(e)).type = toRecord(e).type
              /\ toRecord(Adjusted(e)).values = adjustValues(toRecord(e))
              /\ toRecord(e).type = e.recordType
              /\ toRecord(e).values = e.targets
            BY DEF toRecord, Adjusted
        <3>. QED  BY <1>3, <3>1, AdjustsValuesOnce DEF Sendable
    <2>. QED  BY <2>1, <2>2, <2>3 DEF Adjusted
<1>4. ASSUME NEW i \in DOMAIN in
      PROVE  Adjusted(out[i]) = out[i]
    BY <1>1, <1>3
<1>5. adjustEndpoints(out) = out
    <2>. HIDE DEF out
    <2>. QED  BY <1>1, <1>2, <1>4
<1>. QED  BY <1>5

-----------------------------------------------------------------------------
(***************************************************************************)
(* Every error Classify has seen has a class, and it is not changed if it  *)
(* is classified again on its way out (Classify).                          *)
(***************************************************************************)
THEOREM ClassifiedOnce ==
    ASSUME NEW err \in Errors
    PROVE  /\ Classify(err).marks \intersect Classes # {}
           /\ Classify(Classify(err)) = Classify(err)
<1>. DEFINE c == Classify(err)
<1>1. err.marks \subseteq Marks /\ err.status \in 0 .. 599
    BY DEF Errors
<1>2. ASSUME NEW e, e.marks \intersect Classes # {}
      PROVE  Classify(e) = e
    BY <1>2 DEF Classify
<1>3. ASSUME NEW status PROVE classifyStatus(status) \in Classes
    BY DEF classifyStatus, Classes
<1>4. classOf(err) \in Classes
    BY <1>3 DEF classOf, Classes
<1>5. c.marks \intersect Classes # {}
    <2>1. CASE err.marks \intersect Classes # {}
        BY <1>2, <2>1
    <2>2. CASE err.marks \intersect Classes = {} /\ "token" \in err.marks
        BY <2>2 DEF Classify, Classes
    <2>3. CASE /\ err.marks \intersect Classes = {}
               /\ "token" \notin err.marks /\ "noSuchZone" \in err.marks
        BY <2>3 DEF Classify, Classes
    <2>4. CASE /\ err.marks \intersect Classes = {}
               /\ "token" \notin err.marks /\ "noSuchZone" \notin err.marks
        <3>1. c = [err EXCEPT !.marks = err.marks \union {classOf(err)}]
            BY <2>4 DEF Classify
        <3>2. classOf(err) \in c.marks
            BY <3>1 DEF Errors
        <3>. QED  BY <1>4, <3>2
    <2>. QED  BY <2>1, <2>2, <2>3, <2>4
<1>. HIDE DEF c
<1>6. Classify(c) = c
    BY <1>2, <1>5
<1>. QED  BY <1>5, <1>6 DEF c

(***************************************************************************)
(* ExternalDNS is told to give up on an error without a class exactly if   *)
(* DPF refused the token or the zone, no label is left, or DPF answered a  *)
(* 4xx that time does not mend; a lock somebody holds or has taken away,   *)
(* and a context that ended, win over the status (Classify, statusFor).    *)
(***************************************************************************)
THEOREM GivesUpExactly ==
    ASSUME NEW err \in Errors, err.marks \intersect Classes = {}
    PROVE  statusFor(Classify(err)) = 400 <=>
              \/ "token" \in err.marks
              \/ "noSuchZone" \in err.marks
              \/ /\ "stillLock" \notin err.marks
                 /\ \/ "labelLimit" \in err.marks
                    \/ /\ err.marks \intersect {"notLockHolder", "context"} = {}
                       /\ err.status \in 400 .. 499 \ {408, 429}
<1>. DEFINE c == Classify(err)
<1>1. CASE "token" \in err.marks
    <2>1. c.marks = {"permanent"}
        BY <1>1 DEF Classify
    <2>. QED  BY <1>1, <2>1 DEF statusFor
<1>2. CASE "token" \notin err.marks /\ "noSuchZone" \in err.marks
    <2>1. c.marks = {"permanent", "zoneNotFound"}
        BY <1>2 DEF Classify
    <2>. QED  BY <1>2, <2>1 DEF statusFor
<1>3. CASE "token" \notin err.marks /\ "noSuchZone" \notin err.marks
    <2>1. c = [err EXCEPT !.marks = err.marks \union {classOf(err)}]
        BY <1>3 DEF Classify
    <2>2. c.marks = err.marks \union {classOf(err)}
        BY <2>1 DEF Errors
    <2>3. "temporary" \notin err.marks /\ "permanent" \notin err.marks
        BY DEF Classes
    <2>4. classOf(err) \in {"temporary", "permanent"}
        BY DEF classOf, classifyStatus
    <2>5. statusFor(c) = 400 <=> classOf(err) = "permanent"
        <3>. HIDE DEF c
        <3>. QED  BY <2>2, <2>3, <2>4 DEF statusFor
    <2>6. classOf(err) = "permanent" <=>
             /\ "stillLock" \notin err.marks
             /\ \/ "labelLimit" \in err.marks
                \/ /\ err.marks \intersect {"notLockHolder", "context"} = {}
                   /\ err.status \in 400 .. 499 \ {408, 429}
        <3>1. classifyStatus(err.status) = "permanent" <=>
                 err.status \in 400 .. 499 \ {408, 429}
            BY DEF classifyStatus
        <3>. QED  BY <3>1 DEF classOf
    <2>. QED  BY <1>3, <2>5, <2>6
<1>. QED  BY <1>1, <1>2, <1>3

-----------------------------------------------------------------------------
LEMMA WantedAreSendable ==
    ASSUME NEW w \in Wishes, \A e \in ToSet(w) : Readable(e)
    PROVE  /\ DOMAIN w = 1 .. Len(w) /\ Len(w) \in Nat
           /\ \A i \in DOMAIN w :
                 Sendable(w[i])
                 /\ (w[i].recordType = "TXT" =>
                       w[i].targets \in Seq(TXTValues(Texts)))
<1>1. w \in Seq(ToSet(w))
    BY WishesAssumption
<1>2. ASSUME NEW i \in DOMAIN w
      PROVE  w[i] \in ToSet(w)
    BY DEF ToSet
<1>3. ASSUME NEW i \in DOMAIN w
      PROVE  /\ w[i].recordTTL \in Int
             /\ w[i].recordType = "TXT" =>
                   w[i].targets \in Seq(TXTValues(Texts))
    BY <1>2, WishesAssumption
<1>4. ASSUME NEW t, t \in Seq(TXTValues(Texts))
      PROVE  \A j \in DOMAIN t : t[j] \in TXTValues(Texts)
    BY <1>4
<1>. QED  BY <1>1, <1>2, <1>3, <1>4 DEF Sendable

-----------------------------------------------------------------------------
LEMMA SetToSeqIs ==
    ASSUME NEW S, IsFiniteSet(S)
    PROVE  /\ SetToSeq(S) \in Seq(S)
           /\ ToSet(SetToSeq(S)) = S
           /\ S = {} => SetToSeq(S) = <<>>
<1>. DEFINE n == Cardinality(S)
            f == SetToSeq(S)
<1>1. n \in Nat /\ ExistsBijection(1 .. n, S)
    BY FS_CardinalityType
<1>2. PICK g \in [1 .. n -> S] : IsInjective(g)
    BY <1>1 DEF ExistsBijection, Bijection, Injection
<1>3. f \in [1 .. n -> S] /\ IsInjective(f)
    BY <1>2 DEF SetToSeq
<1>. HIDE DEF f
<1>4. f \in Surjection(1 .. n, S)
    <2>1. IsFiniteSet(1 .. n) /\ Cardinality(1 .. n) = n
        <3>1. Cardinality(1 .. n) = IF 1 > n THEN 0 ELSE n - 1 + 1
            BY <1>1, FS_Interval
        <3>. QED  BY <1>1, <3>1, FS_Interval
    <2>2. f \in Injection(1 .. n, S)
        BY <1>3 DEF Injection
    <2>. QED  BY <2>1, <2>2, FS_Injection
<1>5. f \in Seq(S)
    BY <1>1, <1>3
<1>6. ToSet(f) = S
    BY <1>3, <1>4 DEF Surjection, ToSet
<1>7. S = {} => f = <<>>
    <2>. HAVE S = {}
    <2>1. n = 0
        BY FS_EmptySet
    <2>. QED  BY <1>3, <2>1
<1>. QED  BY <1>5, <1>6, <1>7 DEF f

LEMMA ToSetIsFinite ==
    ASSUME NEW s, s \in Seq(ToSet(s))
    PROVE  IsFiniteSet(ToSet(s))
<1>1. IsFiniteSet(1 .. Len(s))
    BY FS_Interval
<1>2. s \in Surjection(1 .. Len(s), ToSet(s))
    BY DEF Surjection, ToSet
<1>. QED  BY <1>1, <1>2, FS_Surjection

LEMMA IsSeq ==
    ASSUME NEW s, NEW S, s \in Seq(S)
    PROVE  /\ s \in Seq(ToSet(s)) /\ ToSet(s) \subseteq S
           /\ DOMAIN s = 1 .. Len(s) /\ Len(s) \in Nat
BY DEF ToSet

LEMMA Concatenated ==
    ASSUME NEW s, NEW t, s \in Seq(ToSet(s)), t \in Seq(ToSet(t))
    PROVE  /\ s \o t \in Seq(ToSet(s \o t))
           /\ ToSet(s \o t) = ToSet(s) \union ToSet(t)
<1>. DEFINE u == s \o t
<1>1. u \in Seq(ToSet(s) \union ToSet(t))
    OBVIOUS
<1>2. /\ Len(u) = Len(s) + Len(t) /\ Len(s) \in Nat /\ Len(t) \in Nat
      /\ \A i \in 1 .. Len(s) : u[i] = s[i]
      /\ \A i \in 1 .. Len(t) : u[Len(s) + i] = t[i]
      /\ DOMAIN u = 1 .. Len(u) /\ DOMAIN s = 1 .. Len(s)
      /\ DOMAIN t = 1 .. Len(t)
    OBVIOUS
<1>. HIDE DEF u
<1>3. \A i \in DOMAIN s : s[i] \in ToSet(u)
    BY <1>2 DEF ToSet
<1>4. ASSUME NEW i \in DOMAIN t
      PROVE  t[i] \in ToSet(u)
    <2>1. Len(s) + i \in DOMAIN u /\ u[Len(s) + i] = t[i]
        BY <1>2
    <2>. QED  BY <2>1 DEF ToSet
<1>5. ToSet(s) \union ToSet(t) \subseteq ToSet(u)
    BY <1>3, <1>4 DEF ToSet
<1>6. ToSet(u) \subseteq ToSet(s) \union ToSet(t)
    BY <1>1, IsSeq
<1>. QED  BY <1>1, <1>5, <1>6 DEF u
-----------------------------------------------------------------------------
(***************************************************************************)
(* The loop of ListRecords: what is shown of a zone are its records with a *)
(* type and a name the webhook knows, and nothing else.                    *)
(***************************************************************************)
LEMMA ShownIs ==
    ASSUME NEW z, z \in Seq(ToSet(z))
    PROVE  /\ ListRecords(z) \in Seq(ToSet(ListRecords(z)))
           /\ ToSet(ListRecords(z))
                 = { toProviderRecord(r) : r \in { x \in ToSet(z) : Listed(x) } }
<1>. DEFINE n == Len(z)
            S == { toProviderRecord(r) : r \in ToSet(z) }
            Of(i) == { toProviderRecord(r) :
                          r \in { x \in { z[j] : j \in 1 .. i } : Listed(x) } }
<1>1. ListRecords(z) = Shows!Fold(<<>>, z)
    BY Zenon DEF ListRecords, Shows!Fold, FoldLeft, Shows!FoldLeft,
                 MapThenFoldSet, Shows!MapThenFoldSet, Max, Shows!Max
<1>2. PICK run : /\ run[0] = <<>>
                 /\ \A i \in 1 .. n : run[i] = Show(run[i - 1], z[i])
                 /\ run[n] = ListRecords(z)
    BY <1>1, Shows!FoldIsALoop
<1>3. n \in Nat /\ DOMAIN z = 1 .. n
    OBVIOUS
<1>. DEFINE T == { i \in 0 .. n : run[i] \in Seq(S) /\ ToSet(run[i]) = Of(i) }
<1>4. 0 \in T
    <2>1. <<>> \in Seq(S) /\ ToSet(<<>>) = {} /\ Of(0) = {}
        BY DEF ToSet
    <2>2. run[0] = <<>> /\ 0 \in 0 .. n
        BY <1>2, <1>3
    <2>. HIDE DEF S, Of, n
    <2>3. run[0] \in Seq(S) /\ ToSet(run[0]) = Of(0)
        BY <2>1, <2>2, Zenon
    <2>. QED  BY <2>2, <2>3
<1>5. ASSUME NEW i \in 1 .. n, i - 1 \in T
      PROVE  i \in T
    <2>1. run[i - 1] \in Seq(S) /\ ToSet(run[i - 1]) = Of(i - 1)
        BY <1>5
    <2>2. run[i] = Show(run[i - 1], z[i])
        BY <1>2
    <2>3. z[i] \in ToSet(z) /\ i \in 0 .. n
        BY <1>3 DEF ToSet
    <2>4. { z[j] : j \in 1 .. i } = { z[j] : j \in 1 .. (i - 1) } \union {z[i]}
        BY <1>3
    <2>5. CASE Listed(z[i])
        <3>. DEFINE p == toProviderRecord(z[i])
        <3>1. run[i] = Append(run[i - 1], p)
            BY <2>2, <2>5 DEF Show
        <3>2. run[i] \in Seq(S)
            BY <2>1, <2>3, <3>1
        <3>3. ToSet(run[i]) = ToSet(run[i - 1]) \union {p}
            <4>1. run[i - 1] \in Seq(ToSet(run[i - 1]))
                BY <2>1, IsSeq
            <4>2. Append(run[i - 1], p) = run[i - 1] \o <<p>>
                BY <2>1
            <4>3. <<p>> \in Seq({p}) /\ ToSet(<<p>>) = {p}
                BY DEF ToSet
            <4>. QED  BY <3>1, <4>1, <4>2, <4>3, Concatenated
        <3>4. Of(i) = Of(i - 1) \union {p}
            BY <2>4, <2>5
        <3>. HIDE DEF Of, S, p
        <3>. QED  BY <2>1, <2>3, <3>2, <3>3, <3>4
    <2>6. CASE ~Listed(z[i])
        <3>1. run[i] = run[i - 1]
            BY <2>2, <2>6 DEF Show
        <3>2. Of(i) = Of(i - 1)
            BY <2>4, <2>6
        <3>. HIDE DEF Of, S
        <3>. QED  BY <2>1, <2>3, <3>1, <3>2
    <2>. QED  BY <2>5, <2>6
<1>6. \A i \in 0 .. n : i \in T
    <2>. HIDE DEF T
    <2>. QED  BY <1>3, <1>4, <1>5, Shows!UpTo
<1>7. run[n] \in Seq(S) /\ ToSet(run[n]) = Of(n)
    <2>. HIDE DEF S, Of, n
    <2>1. n \in 0 .. n
        BY <1>3
    <2>. QED  BY <1>6, <2>1
<1>8. { z[j] : j \in 1 .. n } = ToSet(z)
    BY <1>3 DEF ToSet
<1>9. ListRecords(z) \in Seq(ToSet(ListRecords(z)))
    <2>. HIDE DEF S, Of
    <2>. QED  BY <1>2, <1>7, IsSeq
<1>. QED  BY <1>2, <1>7, <1>8, <1>9

-----------------------------------------------------------------------------
\* A record of a published zone.
IsStored(r) ==
    /\ r = [name |-> r.name, rrtype |-> r.rrtype, ttl |-> r.ttl,
            rdata |-> r.rdata, labels |-> r.labels,
            description |-> r.description]
    /\ Storable(r)
    /\ r.name \in DOMAIN Canonical => Canonical[r.name] = r.name
    /\ r.rrtype = "TXT" => ToSet(r.rdata) \subseteq TXTValue

\* What GET /records shows of it, and of a zone.
ShownAs(r) == toEndpoint(toProviderRecord(r))

ViewOf(z) ==
    LET records == ListRecords(z)
    IN  [i \in DOMAIN records |-> toEndpoint(records[i])]

\* An endpoint ExternalDNS sends back in the spelling it was sent.
IsSpelt(e) == Readable(e) /\ e.dnsName = Unqualified[Canonical[e.dnsName]]

LEMMA PublishedIs ==
    ASSUME NEW z
    PROVE  Published(z) <=>
              /\ z \in Seq(ToSet(z))
              /\ CnameAlone(z)
              /\ \A r \in ToSet(z) : IsStored(r)
              /\ \A i, j \in DOMAIN z :
                    z[i].name = z[j].name /\ z[i].rrtype = z[j].rrtype => i = j
BY DEF Published, Accepted, IsStored

LEMMA ViewIs ==
    ASSUME NEW z, Published(z)
    PROVE  /\ ViewOf(z) \in Seq(ToSet(ViewOf(z)))
           /\ ToSet(ViewOf(z))
                 = { ShownAs(r) : r \in { x \in ToSet(z) : Listed(x) } }
<1>. DEFINE records == ListRecords(z)
<1>1. /\ records \in Seq(ToSet(records))
      /\ ToSet(records)
            = { toProviderRecord(r) : r \in { x \in ToSet(z) : Listed(x) } }
    BY ShownIs DEF Published
<1>. HIDE DEF records
<1>2. ViewOf(z) = [i \in DOMAIN records |-> toEndpoint(records[i])]
    BY DEF ViewOf, records
<1>3. \A i \in DOMAIN records : toEndpoint(records[i]) \in ToSet(ViewOf(z))
    BY <1>2 DEF ToSet
<1>4. DOMAIN records = 1 .. Len(records) /\ Len(records) \in Nat
    BY <1>1
<1>5. ViewOf(z) \in Seq(ToSet(ViewOf(z)))
    BY <1>2, <1>3, <1>4
<1>6. ToSet(ViewOf(z)) = { toEndpoint(p) : p \in ToSet(records) }
    BY <1>2 DEF ToSet
<1>. QED  BY <1>1, <1>5, <1>6 DEF ShownAs

LEMMA NumbersAre ==
    ASSUME NEW r
    PROVE  /\ DOMAIN Fields = {"MX", "SRV"}
           /\ validateNumericPrefix(r, 1, 2) <=>
                 \A v \in ToSet(r.values) : NumbersFit("MX", v)
           /\ validateNumericPrefix(r, 3, 4) <=>
                 \A v \in ToSet(r.values) : NumbersFit("SRV", v)
<1>1. /\ Fields["MX"] = 2 /\ Fields["SRV"] = 4 /\ DOMAIN Fields = {"MX", "SRV"}
      /\ Numbers["MX"] = 1 /\ Numbers["SRV"] = 3
    BY DEF Fields, Numbers
<1>. QED  BY <1>1 DEF validateNumericPrefix, NumbersFit, numericFieldMax

\* What is shown can be read again, and stands for the record it shows.
LEMMA ShownAsIs ==
    ASSUME NEW r, IsStored(r), Listed(r)
    PROVE  LET f == ShownAs(r)
           IN  /\ f = [dnsName |-> Unqualified[r.name], recordType |-> r.rrtype,
                       recordTTL |-> IF r.ttl = Null THEN ttlUnset ELSE r.ttl,
                       targets |-> r.rdata]
               /\ IsSpelt(f) /\ Canonical[f.dnsName] = r.name
               /\ f.recordTTL \in ttlUnset .. ttlMax
               /\ validateRecord(toRecord(f))
<1>. DEFINE f == ShownAs(r)
<1>1. Canonical[r.name] = r.name /\ r.name \in DOMAIN Canonical
    BY DEF Listed, IsStored
<1>2. f = [dnsName |-> Unqualified[r.name], recordType |-> r.rrtype,
           recordTTL |-> IF r.ttl = Null THEN ttlUnset ELSE r.ttl,
           targets |-> r.rdata]
    BY <1>1 DEF ShownAs, toEndpoint, toProviderRecord
<1>3. IsSpelt(f) /\ Canonical[f.dnsName] = r.name
    BY <1>1, <1>2, NamesAssumption DEF Listed, IsSpelt, Readable
<1>4. f.recordTTL \in {ttlUnset} \union (ttlMin .. ttlMax)
    BY <1>2 DEF IsStored, Storable
<1>5. f.recordTTL \in ttlUnset .. ttlMax
    BY <1>4, ttlMaxAssumption DEF ttlUnset, ttlMin
<1>6. toRecord(f) = [name |-> r.name, type |-> r.rrtype, ttl |-> f.recordTTL,
                     values |-> r.rdata]
    BY <1>2, <1>3 DEF toRecord
<1>. HIDE DEF f
<1>7. r.rrtype = "TXT" => \A v \in ToSet(r.rdata) : v.closed
    BY DEF IsStored, TXTValue
<1>8. \A t \in {"MX", "SRV"} :
         r.rrtype = t => \A v \in ToSet(r.rdata) : NumbersFit(t, v)
    BY NumbersAre DEF IsStored, Storable
<1>9. /\ r.rrtype \in SupportedTypes
      /\ r.rrtype \in {"A", "AAAA"} => r.name \notin Underscored
      /\ r.rrtype = "CNAME" => Len(r.rdata) = 1
    BY DEF IsStored, Storable, Listed
<1>10. validateRecord(toRecord(f))
    <2>. DEFINE q == toRecord(f)
    <2>1. q.name = r.name /\ q.type = r.rrtype /\ q.values = r.rdata
          /\ q.ttl \in {ttlUnset} \union (ttlMin .. ttlMax)
        BY <1>4, <1>6
    <2>. HIDE DEF q
    <2>2. q.type = "MX" => validateNumericPrefix(q, 1, 2)
        BY <1>8, <2>1, NumbersAre
    <2>3. q.type = "SRV" => validateNumericPrefix(q, 3, 4)
        BY <1>8, <2>1, NumbersAre
    <2>4. validateRecord(q)
        BY <1>7, <1>9, <2>1, <2>2, <2>3 DEF validateRecord
    <2>. QED  BY <2>4 DEF q
<1>. QED  BY <1>2, <1>3, <1>5, <1>10 DEF f

-----------------------------------------------------------------------------
\* What POST /adjustendpoints answers, endpoint by endpoint.
IsAdjusted(a) ==
    /\ a = [dnsName |-> a.dnsName, recordType |-> a.recordType,
            recordTTL |-> a.recordTTL, targets |-> a.targets]
    /\ IsSpelt(a)
    /\ a.recordTTL \in ttlUnset .. ttlMax
    /\ a.recordType = "TXT" =>
          /\ a.targets \in Seq(TXTValues(Texts))
          /\ \A v \in ToSet(a.targets) : v.closed => NormalizeTXT(v) = v

\* The values of a TXT record that is adjusted, one by one.
LEMMA AdjustedTXT ==
    ASSUME NEW r, r.type = "TXT", r.values \in Seq(TXTValues(Texts))
    PROVE  LET s == adjustValues(r)
           IN  /\ s \in Seq(TXTValues(Texts)) /\ DOMAIN s = DOMAIN r.values
               /\ \A i \in DOMAIN s :
                     /\ s[i].closed = r.values[i].closed
                     /\ s[i].closed => NormalizeTXT(s[i]) = s[i]
                     /\ s[i] = IF s[i].closed THEN NormalizeTXT(r.values[i])
                               ELSE r.values[i]
<1>. DEFINE s == adjustValues(r)
            once(v) == IF v.closed THEN NormalizeTXT(v) ELSE v
            V == TXTValues(Texts)
<1>1. s = [i \in DOMAIN r.values |-> once(r.values[i])]
    BY DEF adjustValues
<1>2. ASSUME NEW v \in V
      PROVE  /\ once(v) \in V /\ once(v).closed = v.closed
             /\ once(v).closed => NormalizeTXT(once(v)) = once(v)
             /\ once(v) = IF once(v).closed THEN NormalizeTXT(v) ELSE v
    BY NormalizeTXTIsSplit
<1>3. DOMAIN r.values = 1 .. Len(r.values) /\ Len(r.values) \in Nat
      /\ \A i \in DOMAIN r.values : r.values[i] \in V
    OBVIOUS
<1>. HIDE DEF s, once, V
<1>4. s \in Seq(V)
    BY <1>1, <1>2, <1>3
<1>5. \A i \in DOMAIN s : s[i] = once(r.values[i]) /\ r.values[i] \in V
    BY <1>1, <1>3
<1>6. DOMAIN s = DOMAIN r.values
    BY <1>1
<1>. QED  BY <1>2, <1>4, <1>5, <1>6 DEF s, V

LEMMA AdjustedIs ==
    ASSUME NEW e, Sendable(e),
           e.recordType = "TXT" => e.targets \in Seq(TXTValues(Texts))
    PROVE  /\ IsAdjusted(Adjusted(e))
           /\ Canonical[Adjusted(e).dnsName] = Canonical[e.dnsName]
           /\ Adjusted(e).recordType = e.recordType
           /\ e.recordType # "TXT" => Adjusted(e).targets = e.targets
<1>. DEFINE a == Adjusted(e)
            r == toRecord(e)
<1>1. a = [dnsName    |-> Unqualified[Canonical[e.dnsName]],
           recordType |-> e.recordType,
           recordTTL  |-> clampTTL(e.recordTTL),
           targets    |-> adjustValues(r)]
    BY DEF Adjusted
<1>2. r.type = e.recordType /\ r.values = e.targets
    BY DEF toRecord
<1>3. clampTTL(e.recordTTL) \in ttlUnset .. ttlMax
    BY ClampTTLIsInRange, ttlMaxAssumption DEF Sendable, ttlUnset, ttlMin
<1>. HIDE DEF a, r
<1>4. IsSpelt(a) /\ Canonical[a.dnsName] = Canonical[e.dnsName]
    BY <1>1, NamesAssumption DEF IsSpelt, Sendable, Readable
<1>5. e.recordType # "TXT" => a.targets = e.targets
    BY <1>1, <1>2 DEF adjustValues
<1>6. a.recordType = "TXT" =>
         /\ a.targets \in Seq(TXTValues(Texts))
         /\ \A i \in DOMAIN a.targets :
               a.targets[i].closed => NormalizeTXT(a.targets[i]) = a.targets[i]
    BY <1>1, <1>2, AdjustedTXT
<1>7. a.recordType = "TXT" =>
         \A v \in ToSet(a.targets) : v.closed => NormalizeTXT(v) = v
    BY <1>6 DEF ToSet
<1>. QED  BY <1>1, <1>3, <1>4, <1>5, <1>6, <1>7 DEF IsAdjusted, a

LEMMA AdjustedAre ==
    ASSUME NEW w \in Wishes, \A e \in ToSet(w) : Readable(e)
    PROVE  LET a == adjustEndpoints(w)
           IN  /\ a \in Seq(ToSet(a)) /\ DOMAIN a = DOMAIN w
               /\ \A i \in DOMAIN a : a[i] = Adjusted(w[i])
               /\ \A e \in ToSet(a) : IsAdjusted(e)
               /\ \A e, f \in ToSet(a) : SameKey(e, f) => e = f
<1>. DEFINE a == adjustEndpoints(w)
<1>1. a = [i \in DOMAIN w |-> Adjusted(w[i])]
    BY AdjustsOneByOne
<1>2. /\ DOMAIN w = 1 .. Len(w) /\ Len(w) \in Nat
      /\ \A i \in DOMAIN w :
            Sendable(w[i])
            /\ (w[i].recordType = "TXT" => w[i].targets \in Seq(TXTValues(Texts)))
    BY WantedAreSendable
<1>. HIDE DEF a
<1>3. \A i \in DOMAIN a : a[i] = Adjusted(w[i]) /\ a[i] \in ToSet(a)
    BY <1>1 DEF ToSet
<1>4. DOMAIN a = DOMAIN w
    BY <1>1
<1>5. a \in Seq(ToSet(a))
    BY <1>1, <1>2, <1>3
<1>6. ASSUME NEW e \in ToSet(a)
      PROVE  \E i \in DOMAIN w :
                /\ e = a[i] /\ IsAdjusted(e)
                /\ Canonical[e.dnsName] = Canonical[w[i].dnsName]
                /\ e.recordType = w[i].recordType
    <2>1. PICK i \in DOMAIN w : e = a[i]
        BY <1>4 DEF ToSet
    <2>2. e = Adjusted(w[i])
        BY <1>3, <1>4, <2>1
    <2>3. Sendable(w[i])
          /\ (w[i].recordType = "TXT" => w[i].targets \in Seq(TXTValues(Texts)))
        BY <1>2
    <2>4. /\ IsAdjusted(Adjusted(w[i]))
          /\ Canonical[Adjusted(w[i]).dnsName] = Canonical[w[i].dnsName]
          /\ Adjusted(w[i]).recordType = w[i].recordType
        BY <2>3, AdjustedIs
    <2>. QED  BY <2>1, <2>2, <2>4
<1>7. ASSUME NEW e \in ToSet(a), NEW f \in ToSet(a), SameKey(e, f)
      PROVE  e = f
    <2>1. PICK i \in DOMAIN w :
             /\ e = a[i] /\ Canonical[e.dnsName] = Canonical[w[i].dnsName]
             /\ e.recordType = w[i].recordType
        BY <1>6
    <2>2. PICK j \in DOMAIN w :
             /\ f = a[j] /\ Canonical[f.dnsName] = Canonical[w[j].dnsName]
             /\ f.recordType = w[j].recordType
        BY <1>6
    <2>3. /\ Canonical[w[i].dnsName] = Canonical[w[j].dnsName]
          /\ w[i].recordType = w[j].recordType
        BY <1>7, <2>1, <2>2 DEF SameKey
    <2>4. Readable(w[i]) /\ Readable(w[j])
        BY DEF ToSet
    <2>5. toRecord(w[i]).name = toRecord(w[j]).name
        BY <2>3 DEF toRecord
    <2>6. i = j
        BY <2>3, <2>4, <2>5, WishesAssumption
    <2>. QED  BY <2>1, <2>2, <2>6
<1>. QED  BY <1>3, <1>4, <1>5, <1>6, <1>7 DEF a

-----------------------------------------------------------------------------
\* Exchange and the theorems about merge speak of the same definitions.
LEMMA SameMerge ==
    ASSUME NEW c, NEW cs
    PROVE  Edit!merge(c, cs) = Z!merge(c, cs)
BY Zenon
DEF Edit!merge, Z!merge, Edit!FoldLeft, Z!FoldLeft, Edit!MapThenFoldSet,
    Z!MapThenFoldSet, Edit!Max, Z!Max, Edit!recordKey, Z!recordKey,
    Edit!RawKey, Z!RawKey, Edit!keyOf, Z!keyOf, Edit!providerKey,
    Z!providerKey, Edit!toTTL, Z!toTTL, Edit!Rdata, Z!Rdata, Edit!Puts,
    Z!Puts, Edit!Plain, Z!Plain, Edit!Assign, Z!Assign, Edit!Remember,
    Z!Remember, Edit!Nothing, Z!Nothing, Edit!TakeOver, Z!TakeOver, Edit!Drop,
    Z!Drop, Edit!Written, Z!Written, Edit!Put, Z!Put, Edit!Emit, Z!Emit

LEMMA SameSubmission ==
    ASSUME NEW c, NEW cs
    PROVE  /\ Edit!Submission(c, cs) = Z!Submission(c, cs)
           /\ Edit!Outcome(c, cs) = Z!Outcome(c, cs)
<1>1. ASSUME NEW s PROVE Edit!applyManagedBy(s, cs) = Z!applyManagedBy(s, cs)
    BY
    DEF Edit!applyManagedBy, Z!applyManagedBy, Edit!changedKeys,
        Z!changedKeys, Edit!managedBy, Z!managedBy, Edit!Puts, Z!Puts,
        Edit!providerKey, Z!providerKey, Edit!RawKey, Z!RawKey,
        Edit!recordKey, Z!recordKey, Edit!ToSet, Z!ToSet
<1>2. Edit!Submission(c, cs) = Z!Submission(c, cs)
    BY SameMerge, <1>1 DEF Edit!Submission, Z!Submission
<1>3. Edit!Inexpressible(cs) <=> Z!Inexpressible(cs)
    BY DEF Edit!Inexpressible, Z!Inexpressible, Edit!Puts, Z!Puts, Edit!ToSet, Z!ToSet
<1>4. ASSUME NEW s
      PROVE  Edit!LostUnasked(c, s, cs) <=> Z!LostUnasked(c, s, cs)
    BY
    DEF Edit!LostUnasked, Z!LostUnasked, Edit!keyOf, Z!keyOf, Edit!RawKey,
        Z!RawKey, Edit!recordKey, Z!recordKey, Edit!providerKey,
        Z!providerKey, Edit!ToSet, Z!ToSet
<1>5. ASSUME NEW s
      PROVE  Edit!unchanged(c, s) <=> Z!unchanged(c, s)
    BY DEF Edit!unchanged, Z!unchanged, Edit!sameRecord, Z!sameRecord, Edit!Plain, Z!Plain
<1>. QED  BY <1>2, <1>3, <1>4, <1>5 DEF Edit!Outcome, Z!Outcome

LEMMA NormalizedIs ==
    ASSUME NEW s \in Seq(TXTValue)
    PROVE  /\ s \in DOMAIN normalizeValues
           /\ normalizeValues[s] \in Seq(TXTValue)
           /\ DOMAIN normalizeValues[s] = DOMAIN s
           /\ \A i \in DOMAIN s : normalizeValues[s][i] = NormalizeTXT(s[i])
           /\ \A v \in ToSet(normalizeValues[s]) : v \in TXTValue /\ Split(v)
           /\ normalizeValues[normalizeValues[s]] = normalizeValues[s]
<1>1. ASSUME NEW v \in TXTValue
      PROVE  /\ NormalizeTXT(v) \in TXTValue /\ Split(NormalizeTXT(v))
             /\ NormalizeTXT(NormalizeTXT(v)) = NormalizeTXT(v)
    BY NormalizeTXTIsSplit DEF TXTValue
<1>2. ASSUME NEW t \in Seq(TXTValue)
      PROVE  /\ normalizeValues[t] = [i \in DOMAIN t |-> NormalizeTXT(t[i])]
             /\ t \in DOMAIN normalizeValues
    BY DEF normalizeValues
<1>3. DOMAIN s = 1 .. Len(s) /\ Len(s) \in Nat
      /\ \A i \in DOMAIN s : s[i] \in TXTValue
    OBVIOUS
<1>. DEFINE u == normalizeValues[s]
<1>4. u = [i \in DOMAIN s |-> NormalizeTXT(s[i])]
    BY <1>2
<1>. HIDE DEF u
<1>5. u \in Seq(TXTValue)
    BY <1>1, <1>3, <1>4
<1>6. normalizeValues[u] = [i \in DOMAIN u |-> NormalizeTXT(u[i])]
    BY <1>2, <1>5
<1>7. normalizeValues[u] = u
    BY <1>1, <1>3, <1>4, <1>6
<1>8. \A v \in ToSet(u) : v \in TXTValue /\ Split(v)
    BY <1>1, <1>3, <1>4 DEF ToSet
<1>. QED  BY <1>2, <1>4, <1>5, <1>7, <1>8 DEF u

\* What the theorems about merge assume.
LEMMA MergeApplies ==
    /\ \A n \in DOMAIN Canonical :
          /\ Canonical[n] \in DOMAIN Canonical
          /\ Canonical[Canonical[n]] = Canonical[n]
    /\ \A v \in DOMAIN normalizeValues :
          /\ normalizeValues[v] \in DOMAIN normalizeValues
          /\ normalizeValues[normalizeValues[v]] = normalizeValues[v]
    /\ Null \notin {0, Z!managedBy}
<1>1. DOMAIN normalizeValues = Seq(TXTValue)
    BY DEF normalizeValues
<1>2. Z!managedBy = {"managed-by"}
    BY DEF Z!managedBy
<1>3. Null \notin {0, Z!managedBy}
    BY <1>2, NullAssumption
<1>. QED  BY <1>1, <1>3, NormalizedIs, NamesAssumption

LEMMA SubmittedIs ==
    ASSUME NEW z, Z!IsZone(z), Z!Spelled(z), NEW cs, Z!IsChangeSet(cs)
    PROVE  LET s == Edit!Submission(z, cs)
           IN  /\ Z!IsSubmission(z, cs, s) /\ Z!Spelled(s)
               /\ Edit!Outcome(z, cs) \in {"refused", "skipped", "submitted"}
               /\ Edit!Outcome(z, cs) # "refused" => ~Z!Inexpressible(cs)
               /\ Edit!Outcome(z, cs) = "refused" => Z!Inexpressible(cs)
               /\ Edit!Outcome(z, cs) = "skipped" => Z!unchanged(z, s)
<1>. DEFINE s == Z!Submission(z, cs)
<1>1. Z!IsSubmission(z, cs, s)
    BY MergeApplies, Z!SubmissionIs
<1>2. ~Z!LostUnasked(z, s, cs) /\ Z!Spelled(s)
    <2>. HIDE DEF s
    <2>. QED  BY <1>1, MergeApplies, Z!GuardIs
<1>. HIDE DEF s
<1>3. Z!Outcome(z, cs) = IF Z!Inexpressible(cs) THEN "refused"
                         ELSE IF Z!unchanged(z, s) THEN "skipped"
                         ELSE "submitted"
    BY <1>2 DEF Z!Outcome, s
<1>. QED  BY <1>1, <1>2, <1>3, SameSubmission DEF s

-----------------------------------------------------------------------------
\* A stored record and one of a change set have the same name and type.
Names(p, r) == p.name = r.name /\ p.type = r.rrtype

\* The zone z became t by what cs asks for: a record is as it was written or
\* as it was, and none is missing.
Became(z, cs, t) ==
    /\ \A r \in ToSet(t) :
          \/ \E p \in ToSet(Z!Puts(cs)) :
                Names(p, r) /\ r.ttl = Z!toTTL(p.ttl) /\ r.rdata = Z!Rdata(p)
          \/ \E c \in ToSet(z) :
                /\ c.name = r.name /\ c.rrtype = r.rrtype
                /\ c.ttl = r.ttl /\ c.rdata = r.rdata
                /\ \A p \in ToSet(Z!Puts(cs)) \union ToSet(cs.delete) :
                      ~Names(p, r)
    /\ \A p \in ToSet(Z!Puts(cs)) : \E r \in ToSet(t) : Names(p, r)
    /\ \A c \in ToSet(z) :
          (\A d \in ToSet(cs.delete) : ~Names(d, c))
          => \E r \in ToSet(t) : c.name = r.name /\ c.rrtype = r.rrtype

LEMMA KeysAre ==
    /\ \A p, r : Z!providerKey(p) = Z!RawKey(r) <=> Names(p, r)
    /\ \A c, r : Z!RawKey(c) = Z!RawKey(r)
                    <=> c.name = r.name /\ c.rrtype = r.rrtype
    /\ \A s : Z!ToSet(s) = ToSet(s)
BY DEF Z!providerKey, Z!RawKey, Z!recordKey, Names, Z!ToSet, ToSet

LEMMA PublishedIsZone ==
    ASSUME NEW z, Published(z)
    PROVE  Z!IsZone(z) /\ Z!Spelled(z)
<1>1. /\ z \in Seq(ToSet(z))
      /\ \A r \in ToSet(z) : IsStored(r)
      /\ \A i, j \in DOMAIN z :
            z[i].name = z[j].name /\ z[i].rrtype = z[j].rrtype => i = j
    BY PublishedIs
<1>2. ASSUME NEW r \in ToSet(z)
      PROVE  Z!IsRecord(r) /\ r.ttl # 0 /\ Z!RawKey(r) = Z!keyOf(r)
    <2>1. IsStored(r)
        BY <1>1
    <2>2. r.ttl \in {Null} \union (ttlMin .. ttlMax)
        BY <2>1 DEF IsStored, Storable
    <2>3. r.ttl # 0
        BY <2>2, NullAssumption, ttlMaxAssumption DEF ttlMin
    <2>. QED  BY <2>1, <2>3 DEF IsStored, Z!IsRecord, Z!RawKey, Z!keyOf
<1>3. \A i \in DOMAIN z : z[i] \in ToSet(z)
    BY DEF ToSet
<1>4. ASSUME NEW i \in DOMAIN z, NEW j \in DOMAIN z,
             Z!keyOf(z[i]) = Z!keyOf(z[j])
      PROVE  i = j
    BY <1>1, <1>2, <1>3, <1>4, KeysAre
<1>. QED  BY <1>1, <1>2, <1>3, <1>4, KeysAre DEF Z!IsZone, Z!Spelled

LEMMA SubmissionBecomes ==
    ASSUME NEW z, Published(z), NEW cs, Z!IsChangeSet(cs),
           NEW s, Z!IsSubmission(z, cs, s), Z!Spelled(s)
    PROVE  Became(z, cs, s)
<1>1. Z!IsZone(z) /\ Z!Spelled(z)
    BY PublishedIsZone
<1>2. /\ \A i \in DOMAIN z : z[i] \in ToSet(z) /\ Z!RawKey(z[i]) = Z!keyOf(z[i])
      /\ \A q \in DOMAIN s : s[q] \in ToSet(s) /\ Z!RawKey(s[q]) = Z!keyOf(s[q])
      /\ \A r \in ToSet(z) : \E i \in DOMAIN z : r = z[i]
      /\ \A r \in ToSet(s) : \E q \in DOMAIN s : r = s[q]
    BY <1>1 DEF Z!Spelled, ToSet
<1>3. /\ Z!Keys(s) = (Z!Keys(z) \ Z!deletedKeys(cs)) \union Z!changedKeys(cs)
      /\ \A i \in DOMAIN z, q \in DOMAIN s :
            Z!keyOf(z[i]) = Z!keyOf(s[q])
            /\ Z!keyOf(s[q]) \notin Z!changedKeys(cs) => s[q] = Z!Plain(z[i])
      /\ \A q \in DOMAIN s, j \in DOMAIN Z!Puts(cs) :
            Z!IsLast(cs, j) /\ Z!providerKey(Z!Puts(cs)[j]) = Z!keyOf(s[q]) =>
               /\ s[q].ttl = Z!toTTL(Z!Puts(cs)[j].ttl)
               /\ s[q].rdata = Z!Rdata(Z!Puts(cs)[j])
    BY DEF Z!IsSubmission
<1>4. /\ Z!Keys(s) = { Z!RawKey(r) : r \in ToSet(s) }
      /\ Z!Keys(z) = { Z!RawKey(r) : r \in ToSet(z) }
    BY <1>2, KeysAre DEF Z!Keys
<1>5. /\ Z!changedKeys(cs) = { Z!providerKey(p) : p \in ToSet(Z!Puts(cs)) }
      /\ Z!deletedKeys(cs) = { Z!providerKey(p) : p \in ToSet(cs.delete) }
    BY KeysAre DEF Z!changedKeys, Z!deletedKeys
<1>6. ASSUME NEW r \in ToSet(s)
      PROVE  \/ \E p \in ToSet(Z!Puts(cs)) :
                   /\ Names(p, r)
                   /\ r.ttl = Z!toTTL(p.ttl) /\ r.rdata = Z!Rdata(p)
             \/ \E c \in ToSet(z) :
                   /\ c.name = r.name /\ c.rrtype = r.rrtype
                   /\ c.ttl = r.ttl /\ c.rdata = r.rdata
                   /\ \A p \in ToSet(Z!Puts(cs)) \union ToSet(cs.delete) :
                         ~Names(p, r)
    <2>. DEFINE k == Z!RawKey(r)
    <2>1. PICK q \in DOMAIN s : r = s[q]
        BY <1>2
    <2>2. k = Z!keyOf(s[q]) /\ k \in Z!Keys(s)
        BY <1>2, <1>4, <2>1
    <2>3. CASE k \in Z!changedKeys(cs)
        <3>1. PICK j \in DOMAIN Z!Puts(cs) :
                 Z!IsLast(cs, j) /\ Z!providerKey(Z!Puts(cs)[j]) = k
            BY <2>3, MergeApplies, Z!LastExists
        <3>2. Z!Puts(cs)[j] \in ToSet(Z!Puts(cs))
            BY DEF ToSet
        <3>. QED  BY <1>3, <2>1, <2>2, <3>1, <3>2, KeysAre
    <2>4. CASE k \notin Z!changedKeys(cs)
        <3>1. k \in Z!Keys(z) /\ k \notin Z!deletedKeys(cs)
            BY <1>3, <2>2, <2>4, <1>1, MergeApplies DEF Z!IsChangeSet
        <3>2. PICK i \in DOMAIN z : Z!RawKey(z[i]) = k
            BY <1>2, <1>4, <3>1
        <3>3. Z!keyOf(z[i]) = k /\ z[i] \in ToSet(z)
            BY <1>2, <3>2
        <3>4. r = Z!Plain(z[i])
            BY <1>3, <2>1, <2>2, <2>4, <3>3
        <3>5. r.ttl = z[i].ttl /\ r.rdata = z[i].rdata
            <4>1. Z!IsRecord(z[i])
                BY <1>1, <3>3, KeysAre DEF Z!IsZone
            <4>. QED  BY <3>4, <4>1 DEF Z!Plain, Z!IsRecord
        <3>6. z[i].name = r.name /\ z[i].rrtype = r.rrtype
            BY <3>2, KeysAre
        <3>7. ASSUME NEW p \in ToSet(Z!Puts(cs)) \union ToSet(cs.delete)
              PROVE  ~Names(p, r)
            BY <1>5, <2>4, <3>1, KeysAre
        <3>. QED  BY <3>3, <3>5, <3>6, <3>7
    <2>. QED  BY <2>3, <2>4
<1>7. ASSUME NEW p \in ToSet(Z!Puts(cs))
      PROVE  \E r \in ToSet(s) : Names(p, r)
    <2>1. Z!providerKey(p) \in Z!Keys(s)
        BY <1>3, <1>5
    <2>. QED  BY <1>4, <2>1, KeysAre
<1>8. ASSUME NEW c \in ToSet(z), \A d \in ToSet(cs.delete) : ~Names(d, c)
      PROVE  \E r \in ToSet(s) : c.name = r.name /\ c.rrtype = r.rrtype
    <2>1. Z!RawKey(c) \in Z!Keys(z) /\ Z!RawKey(c) \notin Z!deletedKeys(cs)
        BY <1>4, <1>5, <1>8, KeysAre
    <2>2. Z!RawKey(c) \in Z!Keys(s)
        BY <1>3, <2>1
    <2>. QED  BY <1>4, <2>2, KeysAre
<1>. QED  BY <1>6, <1>7, <1>8 DEF Became

-----------------------------------------------------------------------------
\* What ValidateFormat lets pass, a set of any length.
LEMMA ValidatedAre ==
    ASSUME NEW cs, Z!IsChangeSet(cs)
    PROVE  /\ ValidateFormat(cs) <=>
                 /\ \A p \in ToSet(Z!Puts(cs)) \union ToSet(cs.delete) :
                       validateRecord(p)
                 /\ \A p, q \in ToSet(Z!Puts(cs)) :
                       p.name = q.name /\ p.type = "CNAME" => q.type = "CNAME"
           /\ Z!Inexpressible(cs) <=>
                 \/ \E p \in ToSet(Z!Puts(cs)) \union ToSet(cs.delete) :
                       p.type \notin SupportedTypes
                 \/ \E p \in ToSet(Z!Puts(cs)) :
                       p.type = "TXT" /\ p.values \notin Seq(TXTValue)
<1>1. /\ Z!Puts(cs) \in Seq(ToSet(Z!Puts(cs)))
      /\ cs.delete \in Seq(ToSet(cs.delete))
    BY KeysAre DEF Z!IsChangeSet
<1>2. /\ ToSet(Z!Puts(cs) \o cs.delete)
            = ToSet(Z!Puts(cs)) \union ToSet(cs.delete)
      /\ ToSet(cs.delete \o Z!Puts(cs))
            = ToSet(Z!Puts(cs)) \union ToSet(cs.delete)
    BY <1>1, Concatenated
<1>3. Z!Puts(cs) = cs.create \o cs.updateTo
    BY DEF Z!Puts
<1>4. DOMAIN normalizeValues = Seq(TXTValue)
    BY DEF normalizeValues
<1>5. ValidateFormat(cs) <=>
         /\ \A p \in ToSet(Z!Puts(cs)) \union ToSet(cs.delete) :
               validateRecord(p)
         /\ \A p, q \in ToSet(Z!Puts(cs)) :
               p.name = q.name /\ p.type = "CNAME" => q.type = "CNAME"
    BY <1>2, <1>3 DEF ValidateFormat, validateCNAMEExclusivity
<1>6. Z!Inexpressible(cs) <=>
         \/ \E p \in ToSet(cs.delete \o Z!Puts(cs)) :
               p.type \notin SupportedTypes
         \/ \E p \in ToSet(Z!Puts(cs)) :
               p.type = "TXT" /\ p.values \notin DOMAIN normalizeValues
    BY KeysAre DEF Z!Inexpressible
<1>. QED  BY <1>2, <1>4, <1>5, <1>6

\* What is written of a validated record can be stored.
LEMMA WrittenIsStorable ==
    ASSUME NEW p, validateRecord(p),
           p.type = "TXT" => p.values \in Seq(TXTValue),
           NEW r, Names(p, r), r.ttl = Z!toTTL(p.ttl), r.rdata = Z!Rdata(p)
    PROVE  Storable(r) /\ (r.rrtype = "TXT" => ToSet(r.rdata) \subseteq TXTValue)
<1>1. r.ttl \in {Null} \union (ttlMin .. ttlMax)
    BY DEF Z!toTTL, validateRecord, ttlUnset
<1>2. r.rrtype # "TXT" => r.rdata = p.values
    BY DEF Z!Rdata, Names
<1>3. CASE r.rrtype = "TXT"
    <2>1. r.rdata = normalizeValues[p.values] /\ p.values \in Seq(TXTValue)
        BY <1>3 DEF Z!Rdata, Names
    <2>2. \A v \in ToSet(r.rdata) : v \in TXTValue /\ Split(v)
        BY <2>1, NormalizedIs
    <2>. QED  BY <1>1, <1>3, <2>2, NumbersAre DEF Storable, Split
<1>4. CASE r.rrtype # "TXT"
    <2>1. /\ r.rrtype \in {"A", "AAAA"} => r.name \notin Underscored
          /\ r.rrtype = "CNAME" => Len(r.rdata) = 1
          /\ r.rrtype = "MX" => validateNumericPrefix(p, 1, 2)
          /\ r.rrtype = "SRV" => validateNumericPrefix(p, 3, 4)
        BY <1>2, <1>4 DEF validateRecord, Names
    <2>2. \A t \in DOMAIN Fields :
             r.rrtype = t => \A v \in ToSet(r.rdata) : NumbersFit(t, v)
        BY <1>2, <1>4, <2>1, NumbersAre
    <2>. QED  BY <1>1, <1>4, <2>1, <2>2 DEF Storable
<1>. QED  BY <1>3, <1>4

(***************************************************************************)
(* Every record of a set that is sent can be stored, and the set is one    *)
(* DPF may publish unless a CNAME stands beside another type.              *)
(***************************************************************************)
LEMMA SentIs ==
    ASSUME NEW z, Published(z), NEW cs, Z!IsChangeSet(cs), ValidateFormat(cs),
           ~Z!Inexpressible(cs),
           NEW s, Z!IsSubmission(z, cs, s), Z!Spelled(s)
    PROVE  /\ s \in Seq(ToSet(s))
           /\ \A r \in ToSet(s) : IsStored(r)
           /\ CnameAlone(s) => Published(s)
<1>1. Z!IsZone(s)
    BY DEF Z!IsSubmission
<1>2. /\ s \in Seq(ToSet(s))
      /\ \A r \in ToSet(s) : Z!IsRecord(r)
      /\ \A i, j \in DOMAIN s : Z!keyOf(s[i]) = Z!keyOf(s[j]) => i = j
    BY <1>1, KeysAre DEF Z!IsZone
<1>3. \A i \in DOMAIN s : Z!RawKey(s[i]) = Z!keyOf(s[i])
    BY DEF Z!Spelled
<1>4. ASSUME NEW r \in ToSet(s)
      PROVE  IsStored(r)
    <2>1. r.name \in DOMAIN Canonical => Canonical[r.name] = r.name
        <3>1. Z!RawKey(r) = Z!keyOf(r)
            BY <1>3 DEF ToSet
        <3>. QED  BY <3>1 DEF Z!RawKey, Z!keyOf, Z!recordKey
    <2>2. CASE \E p \in ToSet(Z!Puts(cs)) :
                  Names(p, r) /\ r.ttl = Z!toTTL(p.ttl) /\ r.rdata = Z!Rdata(p)
        <3>1. PICK p \in ToSet(Z!Puts(cs)) :
                 Names(p, r) /\ r.ttl = Z!toTTL(p.ttl) /\ r.rdata = Z!Rdata(p)
            BY <2>2
        <3>2. validateRecord(p) /\ (p.type = "TXT" => p.values \in Seq(TXTValue))
            BY ValidatedAre
        <3>3. Storable(r) /\ (r.rrtype = "TXT" => ToSet(r.rdata) \subseteq TXTValue)
            BY <3>1, <3>2, WrittenIsStorable
        <3>. QED  BY <1>2, <2>1, <3>3 DEF IsStored, Z!IsRecord
    <2>3. CASE \E c \in ToSet(z) : /\ c.name = r.name /\ c.rrtype = r.rrtype
                                   /\ c.ttl = r.ttl /\ c.rdata = r.rdata
        <3>1. PICK c \in ToSet(z) : /\ c.name = r.name /\ c.rrtype = r.rrtype
                                    /\ c.ttl = r.ttl /\ c.rdata = r.rdata
            BY <2>3
        <3>2. IsStored(c)
            BY PublishedIs
        <3>3. Storable(r) /\ (r.rrtype = "TXT" => ToSet(r.rdata) \subseteq TXTValue)
            BY <3>1, <3>2 DEF IsStored, Storable
        <3>. QED  BY <1>2, <2>1, <3>3 DEF IsStored, Z!IsRecord
    <2>. QED  BY <2>2, <2>3, SubmissionBecomes DEF Became
<1>5. ASSUME NEW i \in DOMAIN s, NEW j \in DOMAIN s,
             s[i].name = s[j].name, s[i].rrtype = s[j].rrtype
      PROVE  i = j
    BY <1>2, <1>3, <1>5, KeysAre
<1>. QED  BY <1>2, <1>4, <1>5, PublishedIs

\* A set that is not sent, because the zone is like it already, is the zone.
LEMMA SkippedBecomes ==
    ASSUME NEW z, Published(z), NEW cs, Z!IsChangeSet(cs),
           NEW s, Z!IsSubmission(z, cs, s), Z!Spelled(s), Z!unchanged(z, s)
    PROVE  Became(z, cs, z)
<1>1. Became(z, cs, s)
    BY SubmissionBecomes
<1>2. Z!IsZone(z) /\ Z!IsZone(s)
    BY PublishedIsZone DEF Z!IsSubmission
<1>3. /\ DOMAIN z = DOMAIN s
      /\ \A i \in DOMAIN z : /\ Z!RawKey(z[i]) = Z!RawKey(s[i])
                             /\ z[i].ttl = s[i].ttl /\ z[i].rdata = s[i].rdata
    BY <1>2, MergeApplies, Z!UnchangedIs
<1>4. /\ \A r \in ToSet(z) : \E t \in ToSet(s) :
            /\ r.name = t.name /\ r.rrtype = t.rrtype
            /\ r.ttl = t.ttl /\ r.rdata = t.rdata
      /\ \A t \in ToSet(s) : \E r \in ToSet(z) :
            r.name = t.name /\ r.rrtype = t.rrtype
    BY <1>3, KeysAre DEF ToSet
<1>5. ASSUME NEW r \in ToSet(z)
      PROVE  \/ \E p \in ToSet(Z!Puts(cs)) :
                   /\ Names(p, r)
                   /\ r.ttl = Z!toTTL(p.ttl) /\ r.rdata = Z!Rdata(p)
             \/ \E c \in ToSet(z) :
                   /\ c.name = r.name /\ c.rrtype = r.rrtype
                   /\ c.ttl = r.ttl /\ c.rdata = r.rdata
                   /\ \A p \in ToSet(Z!Puts(cs)) \union ToSet(cs.delete) :
                         ~Names(p, r)
    BY <1>1, <1>4 DEF Became, Names
<1>6. \A p \in ToSet(Z!Puts(cs)) : \E r \in ToSet(z) : Names(p, r)
    BY <1>1, <1>4 DEF Became, Names
<1>. QED  BY <1>5, <1>6 DEF Became

-----------------------------------------------------------------------------
\* The endpoints of a POST, and what they are read as.
Posted(c) == ToSet(c.create) \union ToSet(c.updateNew)

IsPost(c) ==
    /\ c.create \in Seq(ToSet(c.create))
    /\ c.updateNew \in Seq(ToSet(c.updateNew))
    /\ c.delete \in Seq(ToSet(c.delete))
    /\ \A d \in ToSet(c.delete), e \in Posted(c) :
          Readable(d) /\ Readable(e) =>
             \/ toRecord(d).name # toRecord(e).name
             \/ d.recordType # e.recordType

IsRead(c) == \A e \in Posted(c) \union ToSet(c.delete) : Readable(e)

LEMMA RecordsAre ==
    ASSUME NEW s, s \in Seq(ToSet(s))
    PROVE  /\ toRecords(s) \in Seq(ToSet(toRecords(s)))
           /\ ToSet(toRecords(s)) = { toRecord(e) : e \in ToSet(s) }
<1>1. toRecords(s) = [i \in DOMAIN s |-> toRecord(s[i])]
    BY DEF toRecords
<1>2. DOMAIN s = 1 .. Len(s) /\ Len(s) \in Nat
    OBVIOUS
<1>3. \A i \in DOMAIN s : toRecords(s)[i] \in ToSet(toRecords(s))
    BY <1>1 DEF ToSet
<1>4. toRecords(s) \in Seq(ToSet(toRecords(s)))
    BY <1>1, <1>2, <1>3
<1>5. ToSet(toRecords(s)) = { toRecord(e) : e \in ToSet(s) }
    BY <1>1 DEF ToSet
<1>. QED  BY <1>4, <1>5

LEMMA PostIs ==
    ASSUME NEW c, IsPost(c)
    PROVE  LET cs == toChangeSet(c)
           IN  /\ (\A e \in ToSet(c.create \o c.updateNew \o c.delete) :
                      Readable(e)) <=> IsRead(c)
               /\ ToSet(Z!Puts(cs)) = { toRecord(e) : e \in Posted(c) }
               /\ ToSet(cs.delete) = { toRecord(d) : d \in ToSet(c.delete) }
               /\ IsRead(c) => Z!IsChangeSet(cs)
<1>. DEFINE cs == toChangeSet(c)
<1>1. /\ c.create \o c.updateNew \in Seq(ToSet(c.create \o c.updateNew))
      /\ ToSet(c.create \o c.updateNew) = Posted(c)
      /\ c.delete \in Seq(ToSet(c.delete))
    BY Concatenated DEF IsPost, Posted
<1>2. ToSet(c.create \o c.updateNew \o c.delete)
         = Posted(c) \union ToSet(c.delete)
    BY <1>1, Concatenated
<1>3. /\ cs.create = toRecords(c.create)
      /\ cs.updateTo = toRecords(c.updateNew)
      /\ cs.delete = toRecords(c.delete)
    BY DEF toChangeSet
<1>. HIDE DEF cs
<1>4. /\ Z!Puts(cs) \in Seq(ToSet(Z!Puts(cs)))
      /\ ToSet(Z!Puts(cs)) = ToSet(cs.create) \union ToSet(cs.updateTo)
    BY <1>3, RecordsAre, Concatenated DEF IsPost, Z!Puts
<1>5. ToSet(Z!Puts(cs)) = { toRecord(e) : e \in Posted(c) }
    BY <1>3, <1>4, RecordsAre DEF IsPost, Posted
<1>6. /\ cs.delete \in Seq(ToSet(cs.delete))
      /\ ToSet(cs.delete) = { toRecord(d) : d \in ToSet(c.delete) }
    BY <1>3, RecordsAre DEF IsPost
<1>7. ASSUME IsRead(c)
      PROVE  Z!IsChangeSet(cs)
    <2>1. ASSUME NEW r \in ToSet(Z!Puts(cs))
          PROVE  r.name \in DOMAIN Canonical /\ Canonical[r.name] = r.name
        <3>1. PICK e \in Posted(c) : r = toRecord(e)
            BY <1>5
        <3>2. r.name = Canonical[e.dnsName] /\ e.dnsName \in DOMAIN Canonical
            BY <1>7, <3>1 DEF toRecord, IsRead, Readable
        <3>. QED  BY <3>2, NamesAssumption
    <2>2. ASSUME NEW k, k \in Z!deletedKeys(cs), k \in Z!changedKeys(cs)
          PROVE  FALSE
        <3>1. PICK d \in ToSet(c.delete) : k = Z!providerKey(toRecord(d))
            BY <1>6, <2>2, KeysAre DEF Z!deletedKeys
        <3>2. PICK e \in Posted(c) : k = Z!providerKey(toRecord(e))
            BY <1>5, <2>2, KeysAre DEF Z!changedKeys
        <3>3. /\ toRecord(d).name = toRecord(e).name
              /\ toRecord(d).type = toRecord(e).type
            BY <3>1, <3>2 DEF Z!providerKey, Z!recordKey
        <3>4. d.recordType = e.recordType
            BY <3>3 DEF toRecord
        <3>. QED  BY <1>7, <3>3, <3>4 DEF IsPost, IsRead
    <2>. QED  BY <1>4, <1>6, <2>1, <2>2, KeysAre DEF Z!IsChangeSet
<1>. QED  BY <1>2, <1>5, <1>6, <1>7 DEF cs, IsRead

LEMMA RawIsPost ==
    ASSUME NEW c \in RawChanges
    PROVE  IsPost(c)
<1>1. /\ c.create \in Seq(ToSet(c.create))
      /\ c.updateNew \in Seq(ToSet(c.updateNew))
      /\ c.delete \in Seq(ToSet(c.delete))
    BY RawChangesAssumption
<1>2. ToSet(c.create \o c.updateNew) = Posted(c)
    BY <1>1, Concatenated DEF Posted
<1>. QED  BY <1>1, <1>2, RawChangesAssumption DEF IsPost

-----------------------------------------------------------------------------
\* The parts of a plan, as sets.
Created == { e \in ToSet(adjusted) : \A f \in ToSet(view) : ~SameKey(e, f) }
Updated == { e \in ToSet(adjusted) :
                \E f \in ToSet(view) : SameKey(e, f) /\ Differs(e, f) }
Deleted == { f \in ToSet(view) : \A e \in ToSet(adjusted) : ~SameKey(e, f) }

LEMMA PlanIs ==
    ASSUME view \in Seq(ToSet(view)), adjusted \in Seq(ToSet(adjusted)),
           \A e \in ToSet(view) \union ToSet(adjusted) : IsSpelt(e)
    PROVE  /\ IsPost(Plan) /\ IsRead(Plan)
           /\ Posted(Plan) = Created \union Updated
           /\ ToSet(Plan.delete) = Deleted
           /\ Created = {} /\ Updated = {} /\ Deleted = {} => Plan = NoChanges
<1>1. IsFiniteSet(Created) /\ IsFiniteSet(Updated) /\ IsFiniteSet(Deleted)
    <2>1. /\ Created \in SUBSET ToSet(adjusted)
          /\ Updated \in SUBSET ToSet(adjusted)
          /\ Deleted \in SUBSET ToSet(view)
        BY DEF Created, Updated, Deleted
    <2>. QED  BY <2>1, ToSetIsFinite, FS_Subset
<1>2. Plan = [create |-> SetToSeq(Created), updateNew |-> SetToSeq(Updated),
              delete |-> SetToSeq(Deleted)]
    BY DEF Plan, Created, Updated, Deleted
<1>3. /\ ToSet(Plan.create) = Created /\ Plan.create \in Seq(Created)
      /\ ToSet(Plan.updateNew) = Updated /\ Plan.updateNew \in Seq(Updated)
      /\ ToSet(Plan.delete) = Deleted /\ Plan.delete \in Seq(Deleted)
    BY <1>1, <1>2, SetToSeqIs
<1>4. Posted(Plan) = Created \union Updated
    BY <1>3 DEF Posted
<1>5. \A e \in Posted(Plan) : e \in ToSet(adjusted) /\ IsSpelt(e)
    BY <1>4 DEF Created, Updated
<1>6. \A d \in ToSet(Plan.delete) :
         /\ d \in ToSet(view) /\ IsSpelt(d)
         /\ \A e \in ToSet(adjusted) : ~SameKey(e, d)
    BY <1>3 DEF Deleted
<1>7. IsRead(Plan)
    BY <1>5, <1>6 DEF IsRead, IsSpelt
<1>8. ASSUME NEW d \in ToSet(Plan.delete), NEW e \in Posted(Plan),
             toRecord(d).name = toRecord(e).name, d.recordType = e.recordType
      PROVE  FALSE
    <2>1. d.dnsName = e.dnsName
        BY <1>5, <1>6, <1>8 DEF toRecord, IsSpelt
    <2>. QED  BY <1>5, <1>6, <1>8, <2>1 DEF SameKey
<1>9. IsPost(Plan)
    BY <1>3, <1>8 DEF IsPost
<1>10. Created = {} /\ Updated = {} /\ Deleted = {} => Plan = NoChanges
    BY <1>1, <1>2, SetToSeqIs DEF NoChanges
<1>. QED  BY <1>3, <1>4, <1>7, <1>9, <1>10

-----------------------------------------------------------------------------
\* What is shown (v) is what is wanted (a).
Synced(v, a) ==
    /\ \A e \in a : \E f \in v : SameKey(e, f)
    /\ \A e \in a, f \in v : SameKey(e, f) => ~Differs(e, f)
    /\ \A f \in v : \E e \in a : SameKey(e, f)

LEMMA SyncedIsDone ==
    ASSUME view \in Seq(ToSet(view)), adjusted \in Seq(ToSet(adjusted)),
           \A e \in ToSet(view) \union ToSet(adjusted) : IsSpelt(e),
           Synced(ToSet(view), ToSet(adjusted))
    PROVE  Plan = NoChanges
<1>1. Created = {} /\ Updated = {} /\ Deleted = {}
    BY DEF Synced, Created, Updated, Deleted
<1>. QED  BY <1>1, PlanIs

\* A name and type of ExternalDNS is that of a stored record if it is shown so.
LEMMA NamesAreKeys ==
    ASSUME NEW e, IsSpelt(e), NEW r, IsStored(r)
    PROVE  Names(toRecord(e), r) <=> Listed(r) /\ SameKey(e, ShownAs(r))
<1>1. toRecord(e).name = Canonical[e.dnsName] /\ toRecord(e).type = e.recordType
    BY DEF toRecord
<1>2. ASSUME Names(toRecord(e), r)
      PROVE  Listed(r) /\ SameKey(e, ShownAs(r))
    <2>1. Canonical[e.dnsName] = r.name /\ e.recordType = r.rrtype
        BY <1>1, <1>2 DEF Names
    <2>2. Listed(r)
        BY <2>1, NamesAssumption DEF IsSpelt, Readable, Listed
    <2>3. /\ ShownAs(r).dnsName = Unqualified[r.name]
          /\ ShownAs(r).recordType = r.rrtype
        BY <2>2, ShownAsIs
    <2>. QED  BY <2>1, <2>2, <2>3 DEF IsSpelt, SameKey
<1>3. ASSUME Listed(r), SameKey(e, ShownAs(r))
      PROVE  Names(toRecord(e), r)
    <2>1. /\ Canonical[ShownAs(r).dnsName] = r.name
          /\ ShownAs(r).recordType = r.rrtype
        BY <1>3, ShownAsIs
    <2>. QED  BY <1>1, <1>3, <2>1 DEF SameKey, Names
<1>. QED  BY <1>2, <1>3

\* What is written of an adjusted endpoint is shown as that endpoint.
LEMMA WrittenIsShown ==
    ASSUME NEW e, IsAdjusted(e),
           e.recordType = "TXT" => e.targets \in Seq(TXTValue),
           NEW r, IsStored(r), Listed(r), Names(toRecord(e), r),
           r.ttl = Z!toTTL(toRecord(e).ttl), r.rdata = Z!Rdata(toRecord(e))
    PROVE  ~Differs(e, ShownAs(r))
<1>1. /\ toRecord(e).ttl = e.recordTTL /\ toRecord(e).values = e.targets
      /\ toRecord(e).type = e.recordType
    BY DEF toRecord
<1>2. /\ ShownAs(r).recordTTL = IF r.ttl = Null THEN 0 ELSE r.ttl
      /\ ShownAs(r).targets = r.rdata
    BY ShownAsIs DEF ttlUnset
<1>3. e.recordTTL \in Int
    BY ttlMaxAssumption DEF IsAdjusted, ttlUnset
<1>4. ShownAs(r).recordTTL = e.recordTTL
    BY <1>1, <1>2, <1>3, NullAssumption DEF Z!toTTL
<1>5. r.rdata = e.targets
    <2>1. CASE e.recordType # "TXT"
        BY <1>1, <2>1 DEF Z!Rdata
    <2>2. CASE e.recordType = "TXT"
        <3>1. r.rdata = normalizeValues[e.targets] /\ e.targets \in Seq(TXTValue)
            BY <1>1, <2>2 DEF Z!Rdata
        <3>2. \A i \in DOMAIN e.targets : NormalizeTXT(e.targets[i]) = e.targets[i]
            <4>1. \A i \in DOMAIN e.targets :
                     e.targets[i] \in ToSet(e.targets) /\ e.targets[i].closed
                BY <3>1 DEF ToSet, TXTValue
            <4>. QED  BY <2>2, <4>1 DEF IsAdjusted
        <3>3. normalizeValues[e.targets] = e.targets
            <4>1. normalizeValues[e.targets]
                     = [i \in DOMAIN e.targets |-> NormalizeTXT(e.targets[i])]
                BY <3>1 DEF normalizeValues
            <4>2. e.targets = [i \in DOMAIN e.targets |-> e.targets[i]]
                BY <3>1
            <4>. QED  BY <3>2, <4>1, <4>2
        <3>. QED  BY <3>1, <3>3
    <2>. QED  BY <2>1, <2>2
<1>. QED  BY <1>2, <1>4, <1>5 DEF Differs

(***************************************************************************)
(* An edit of the plan that is not given up leaves nothing to do.          *)
(***************************************************************************)
LEMMA PlanIsDone ==
    ASSUME Published(zone), view = ViewOf(zone),
           adjusted \in Seq(ToSet(adjusted)),
           \A e \in ToSet(adjusted) : IsAdjusted(e),
           \A e, f \in ToSet(adjusted) : SameKey(e, f) => e = f,
           ~Z!Inexpressible(toChangeSet(Plan)),
           NEW z, Published(z), Became(zone, toChangeSet(Plan), z)
    PROVE  Synced(ToSet(ViewOf(z)), ToSet(adjusted))
<1>. DEFINE A == ToSet(adjusted)
            V == ToSet(view)
            W == ToSet(ViewOf(z))
            cs == toChangeSet(Plan)
            P == ToSet(Z!Puts(cs))
            D == ToSet(cs.delete)
<1>1. /\ view \in Seq(V)
      /\ V = { ShownAs(r) : r \in { x \in ToSet(zone) : Listed(x) } }
      /\ W = { ShownAs(r) : r \in { x \in ToSet(z) : Listed(x) } }
    BY ViewIs
<1>2. (\A r \in ToSet(zone) : IsStored(r)) /\ (\A r \in ToSet(z) : IsStored(r))
    BY PublishedIs
<1>3. (\A e \in A : IsSpelt(e)) /\ (\A f \in V : IsSpelt(f))
    BY <1>1, <1>2, ShownAsIs DEF IsAdjusted
<1>4. /\ IsPost(Plan) /\ IsRead(Plan)
      /\ Posted(Plan) = Created \union Updated /\ ToSet(Plan.delete) = Deleted
    BY <1>1, <1>3, PlanIs
<1>5. /\ P = { toRecord(e) : e \in Created \union Updated }
      /\ D = { toRecord(d) : d \in Deleted }
      /\ Z!IsChangeSet(cs)
    BY <1>4, PostIs
<1>6. \A p \in P : p.type = "TXT" => p.values \in Seq(TXTValue)
    BY <1>5, ValidatedAre
<1>. HIDE DEF A, V, W, P, D, cs
<1>7. /\ Created = { e \in A : \A f \in V : ~SameKey(e, f) }
      /\ Updated = { e \in A : \E f \in V : SameKey(e, f) /\ Differs(e, f) }
      /\ Deleted = { f \in V : \A e \in A : ~SameKey(e, f) }
    BY DEF Created, Updated, Deleted, A, V
<1>8. /\ \A r \in ToSet(z) :
            \/ \E p \in P :
                  Names(p, r) /\ r.ttl = Z!toTTL(p.ttl) /\ r.rdata = Z!Rdata(p)
            \/ \E c \in ToSet(zone) :
                  /\ c.name = r.name /\ c.rrtype = r.rrtype
                  /\ c.ttl = r.ttl /\ c.rdata = r.rdata
                  /\ \A p \in P \union D : ~Names(p, r)
      /\ \A p \in P : \E r \in ToSet(z) : Names(p, r)
      /\ \A c \in ToSet(zone) :
            (\A d \in D : ~Names(d, c))
            => \E r \in ToSet(z) : c.name = r.name /\ c.rrtype = r.rrtype
    BY DEF Became, P, D, cs
<1>9. ASSUME NEW c \in ToSet(zone), NEW r \in ToSet(z), Listed(r),
             c.name = r.name, c.rrtype = r.rrtype,
             c.ttl = r.ttl, c.rdata = r.rdata
      PROVE  ShownAs(r) \in V
    <2>1. Listed(c)
        BY <1>9 DEF Listed
    <2>2. ShownAs(c) = ShownAs(r)
        BY <1>9 DEF ShownAs, toProviderRecord, toEndpoint
    <2>. QED  BY <1>1, <2>1, <2>2
<1>10. ASSUME NEW e \in A
       PROVE  \E f \in W : SameKey(e, f)
    <2>1. ASSUME NEW r \in ToSet(z), Names(toRecord(e), r)
          PROVE  \E f \in W : SameKey(e, f)
        <3>1. Listed(r) /\ SameKey(e, ShownAs(r))
            BY <1>2, <1>3, <2>1, NamesAreKeys
        <3>. QED  BY <1>1, <3>1
    <2>2. CASE e \in Created \union Updated
        <3>1. toRecord(e) \in P
            BY <1>5, <2>2
        <3>. QED  BY <1>8, <2>1, <3>1
    <2>3. CASE e \notin Created \union Updated
        <3>1. PICK f \in V : SameKey(e, f)
            BY <1>7, <2>3
        <3>2. PICK c \in ToSet(zone) : Listed(c) /\ f = ShownAs(c)
            BY <1>1
        <3>3. Names(toRecord(e), c)
            BY <1>2, <1>3, <3>1, <3>2, NamesAreKeys
        <3>4. ASSUME NEW d \in D, Names(d, c)
              PROVE  FALSE
            <4>1. PICK g \in Deleted : d = toRecord(g)
                BY <1>5
            <4>2. g \in V /\ IsSpelt(g)
                BY <1>3, <1>7
            <4>3. SameKey(g, f)
                BY <1>2, <3>2, <3>4, <4>1, <4>2, NamesAreKeys
            <4>4. SameKey(e, g)
                BY <3>1, <4>3 DEF SameKey
            <4>. QED  BY <1>7, <4>4
        <3>5. PICK r \in ToSet(z) : c.name = r.name /\ c.rrtype = r.rrtype
            BY <1>8, <3>4
        <3>6. Names(toRecord(e), r)
            BY <3>3, <3>5 DEF Names
        <3>. QED  BY <2>1, <3>6
    <2>. QED  BY <2>2, <2>3
<1>11. ASSUME NEW e \in A, NEW f \in W, SameKey(e, f)
       PROVE  ~Differs(e, f)
    <2>1. PICK r \in ToSet(z) : Listed(r) /\ f = ShownAs(r)
        BY <1>1
    <2>2. Names(toRecord(e), r)
        BY <1>2, <1>3, <1>11, <2>1, NamesAreKeys
    <2>3. CASE \E p \in P : /\ Names(p, r) /\ r.ttl = Z!toTTL(p.ttl)
                            /\ r.rdata = Z!Rdata(p)
        <3>1. PICK p \in P : /\ Names(p, r) /\ r.ttl = Z!toTTL(p.ttl)
                             /\ r.rdata = Z!Rdata(p)
            BY <2>3
        <3>2. PICK g \in A : p = toRecord(g)
            BY <1>5, <1>7
        <3>3. SameKey(g, f)
            BY <1>2, <1>3, <2>1, <3>1, <3>2, NamesAreKeys
        <3>4. SameKey(e, g)
            BY <1>11, <3>3 DEF SameKey
        <3>5. e = g
            BY <3>4 DEF A
        <3>6. e.recordType = "TXT" => e.targets \in Seq(TXTValue)
            BY <1>6, <3>2, <3>5 DEF toRecord
        <3>7. IsAdjusted(e) /\ IsStored(r)
            BY <1>2 DEF A
        <3>. QED  BY <2>1, <3>1, <3>2, <3>5, <3>6, <3>7, WrittenIsShown
    <2>4. CASE \E c \in ToSet(zone) :
                  /\ c.name = r.name /\ c.rrtype = r.rrtype
                  /\ c.ttl = r.ttl /\ c.rdata = r.rdata
                  /\ \A p \in P \union D : ~Names(p, r)
        <3>1. f \in V
            BY <1>9, <2>1, <2>4
        <3>2. toRecord(e) \notin P
            BY <2>2, <2>4
        <3>. QED  BY <1>5, <1>7, <1>11, <3>1, <3>2
    <2>. QED  BY <1>8, <2>3, <2>4
<1>12. ASSUME NEW f \in W
       PROVE  \E e \in A : SameKey(e, f)
    <2>1. PICK r \in ToSet(z) : Listed(r) /\ f = ShownAs(r)
        BY <1>1
    <2>2. CASE \E p \in P : Names(p, r)
        <3>1. PICK e \in A : Names(toRecord(e), r)
            BY <1>5, <1>7, <2>2
        <3>. QED  BY <1>2, <1>3, <2>1, <3>1, NamesAreKeys
    <2>3. CASE \E c \in ToSet(zone) :
                  /\ c.name = r.name /\ c.rrtype = r.rrtype
                  /\ c.ttl = r.ttl /\ c.rdata = r.rdata
                  /\ \A p \in P \union D : ~Names(p, r)
        <3>1. f \in V
            BY <1>9, <2>1, <2>3
        <3>2. Names(toRecord(f), r)
            <4>1. SameKey(f, ShownAs(r))
                BY <2>1 DEF SameKey
            <4>. QED  BY <1>2, <1>3, <2>1, <3>1, <4>1, NamesAreKeys
        <3>3. f \notin Deleted
            BY <1>5, <2>3, <3>2
        <3>. QED  BY <1>7, <3>1, <3>3
    <2>. QED  BY <1>8, <2>2, <2>3
<1>. QED  BY <1>10, <1>11, <1>12 DEF Synced, A, W

-----------------------------------------------------------------------------
\* The answer to a failure of DPF, by its cause.
LEMMA FailureIsAnswered ==
    ASSUME NEW f \in Failures
    PROVE  LET status == statusFor(Classify([marks  |-> f.marks,
                                             status |-> f.status]))
           IN  /\ f # Null /\ status \in {400, 500}
               /\ status = 400 <=> f.cause \in LastingCauses
<1>. DEFINE err == [marks |-> f.marks, status |-> f.status]
<1>1. /\ f.cause \in DOMAIN Found /\ f.marks = Found[f.cause]
      /\ f.status \in Answered(f.cause)
    BY FailuresAssumption
<1>2. f # Null
    BY NullAssumption
<1>3. statusFor(Classify(err)) \in {400, 500}
    BY DEF statusFor
<1>4. DOMAIN Found = {"token", "noSuchZone", "labelLimit", "locked", "lockLost",
                      "cut", "unreachable", "refused", "slow", "tooMany", "down"}
    BY DEF Found
<1>5. f.status \in 0 .. 599
    BY <1>1, <1>4 DEF Answered
<1>6. CASE f.cause = "locked"
    <2>1. err.marks = {"temporary", "stillLock"}
        BY <1>1, <1>6 DEF Found
    <2>2. Classify(err) = err
        BY <2>1 DEF Classify, Classes
    <2>3. statusFor(err) = 500
        BY <2>1 DEF statusFor
    <2>. QED  BY <1>2, <1>6, <2>2, <2>3 DEF LastingCauses
<1>7. CASE f.cause # "locked"
    <2>1. err.marks = Found[f.cause] /\ err.status = f.status
        BY <1>1
    <2>2. Found[f.cause] \in SUBSET Marks /\ Found[f.cause] \intersect Classes = {}
        BY <1>1, <1>4, <1>7 DEF Found, Marks, Classes
    <2>3. err \in Errors
        BY <1>1, <1>5, <2>2 DEF Errors
    <2>4. statusFor(Classify(err)) = 400 <=>
             \/ "token" \in Found[f.cause]
             \/ "noSuchZone" \in Found[f.cause]
             \/ /\ "stillLock" \notin Found[f.cause]
                /\ \/ "labelLimit" \in Found[f.cause]
                   \/ /\ Found[f.cause] \intersect {"notLockHolder", "context"} = {}
                      /\ f.status \in 400 .. 499 \ {408, 429}
        <3>. HIDE DEF err
        <3>. QED  BY <2>1, <2>2, <2>3, GivesUpExactly
    <2>5. f.cause \in {"token", "noSuchZone", "labelLimit"} =>
             \/ "token" \in Found[f.cause]
             \/ "noSuchZone" \in Found[f.cause]
             \/ /\ "stillLock" \notin Found[f.cause]
                /\ "labelLimit" \in Found[f.cause]
        BY DEF Found
    <2>6. f.cause \in {"refused", "slow", "tooMany", "down"} =>
             Found[f.cause] = {}
        BY DEF Found
    <2>7. f.cause = "unreachable" => Found[f.cause] = {"network"}
        BY DEF Found
    <2>8. f.cause \in {"lockLost", "cut"} =>
             /\ "context" \in Found[f.cause]
             /\ Found[f.cause] \intersect {"token", "noSuchZone", "labelLimit"} = {}
        BY DEF Found
    <2>9. /\ f.cause = "refused" => f.status \in 400 .. 499 \ {408, 429}
          /\ f.cause \in {"slow", "tooMany", "down", "unreachable"} =>
                f.status \notin 400 .. 499 \ {408, 429}
        BY <1>1 DEF Answered
    <2>10. statusFor(Classify(err)) = 400 <=> f.cause \in LastingCauses
        <3>. HIDE DEF err
        <3>1. CASE f.cause \in {"token", "noSuchZone", "labelLimit"}
            BY <2>4, <2>5, <3>1 DEF LastingCauses
        <3>2. CASE f.cause \in {"refused", "slow", "tooMany", "down"}
            BY <2>4, <2>6, <2>9, <3>2 DEF LastingCauses
        <3>3. CASE f.cause = "unreachable"
            BY <2>4, <2>7, <2>9, <3>3 DEF LastingCauses
        <3>4. CASE f.cause \in {"lockLost", "cut"}
            BY <2>4, <2>8, <3>4 DEF LastingCauses
        <3>. QED  BY <1>1, <1>4, <1>7, <3>1, <3>2, <3>3, <3>4
    <2>. QED  BY <1>2, <1>3, <2>10
<1>. QED  BY <1>6, <1>7

LEMMA BadRequestIsAnswered == statusFor(Classify(BadRequest)) = 400
<1>1. BadRequest.marks = {} /\ BadRequest.status = 400 /\ BadRequest \in Errors
    BY DEF BadRequest, Errors
<1>. HIDE DEF BadRequest
<1>. QED  BY <1>1, GivesUpExactly

-----------------------------------------------------------------------------
\* What is sent is a set of records DPF can store.
IsSent(s) == s \in Seq(ToSet(s)) /\ \A r \in ToSet(s) : IsStored(r)

\* The plan was refused without asking DPF, or by DPF.
Refused(c) ==
    \/ ~IsRead(c)
    \/ ~ValidateFormat(toChangeSet(c))
    \/ Z!Inexpressible(toChangeSet(c))
    \/ \E s : /\ Became(zone, toChangeSet(c), s)
              /\ \A r \in ToSet(s) : IsStored(r)
              /\ ~CnameAlone(s)

(***************************************************************************)
(* A whole POST /records: what it leaves of the zone, and what it says.    *)
(***************************************************************************)
LEMMA PostGives ==
    ASSUME Published(zone), IsSent(sent), NEW c, IsPost(c), postRecords(c)
    PROVE  /\ Published(zone') /\ IsSent(sent')
           /\ failure' \in Failures \union {Null}
           /\ answer' \in {204, 400, 500}
           /\ IF failure' = Null THEN answer' # 500
              ELSE answer' = 400 <=> failure'.cause \in LastingCauses
           /\ answer' = 204 =>
                 /\ IsRead(c) /\ ~Z!Inexpressible(toChangeSet(c))
                 /\ Became(zone, toChangeSet(c), zone')
           /\ answer' = 400 /\ failure' = Null => Refused(c)
<1>. DEFINE cs == toChangeSet(c)
            s == Edit!Submission(zone, cs)
            read == \A e \in ToSet(c.create \o c.updateNew \o c.delete) :
                       Readable(e)
<1>1. read <=> IsRead(c)
    BY PostIs
<1>2. CASE ~(read /\ ValidateFormat(cs))
    <2>1. /\ failure' = Null /\ answer' = 400 /\ UNCHANGED <<zone, sent>>
        BY <1>2 DEF postRecords, Reply
    <2>2. Refused(c)
        BY <1>1, <1>2 DEF Refused
    <2>. QED  BY <2>1, <2>2
<1>3. CASE \E f \in Failures :
              /\ failure' = f
              /\ Reply(statusFor(Classify([marks  |-> f.marks,
                                           status |-> f.status])))
    <2>1. PICK f \in Failures :
             /\ failure' = f
             /\ Reply(statusFor(Classify([marks  |-> f.marks,
                                          status |-> f.status])))
        BY <1>3
    <2>2. /\ UNCHANGED <<zone, sent>>
          /\ answer' = statusFor(Classify([marks |-> f.marks,
                                           status |-> f.status]))
        BY <2>1 DEF Reply
    <2>3. /\ f # Null /\ answer' \in {400, 500}
          /\ answer' = 400 <=> f.cause \in LastingCauses
        BY <2>2, FailureIsAnswered
    <2>. QED  BY <2>1, <2>2, <2>3
<1>4. CASE read /\ ValidateFormat(cs) /\ failure' = Null /\ Edited(cs)
    <2>1. IsRead(c) /\ Z!IsChangeSet(cs)
        BY <1>1, <1>4, PostIs
    <2>2. Z!IsZone(zone) /\ Z!Spelled(zone)
        BY PublishedIsZone
    <2>3. /\ Z!IsSubmission(zone, cs, s) /\ Z!Spelled(s)
          /\ Edit!Outcome(zone, cs) \in {"refused", "skipped", "submitted"}
          /\ Edit!Outcome(zone, cs) # "refused" <=> ~Z!Inexpressible(cs)
          /\ Edit!Outcome(zone, cs) = "skipped" => Z!unchanged(zone, s)
        <3>. HIDE DEF cs
        <3>. QED  BY <2>1, <2>2, SubmittedIs
    <2>. HIDE DEF s, cs
    <2>4. CASE Edit!Outcome(zone, cs) = "refused"
        <3>1. answer' = 400 /\ UNCHANGED <<zone, sent>>
            BY <1>4, <2>4 DEF Edited, Reply
        <3>2. Refused(c)
            BY <2>3, <2>4 DEF Refused, cs
        <3>. QED  BY <1>4, <3>1, <3>2
    <2>5. CASE Edit!Outcome(zone, cs) = "skipped"
        <3>1. answer' = 204 /\ UNCHANGED <<zone, sent>>
            BY <1>4, <2>5 DEF Edited, Reply
        <3>2. Became(zone, cs, zone)
            BY <2>1, <2>3, <2>5, SkippedBecomes
        <3>3. ~Z!Inexpressible(cs)
            BY <2>3, <2>5
        <3>. QED  BY <1>4, <2>1, <3>1, <3>2, <3>3 DEF cs
    <2>6. CASE Edit!Outcome(zone, cs) = "submitted"
        <3>1. /\ sent' = s
              /\ IF Accepted(s) THEN zone' = s /\ answer' = 204
                 ELSE UNCHANGED zone /\ answer' = statusFor(Classify(BadRequest))
            BY <1>4, <2>6 DEF Edited, s
        <3>2. ~Z!Inexpressible(cs)
            BY <2>3, <2>6
        <3>3. /\ s \in Seq(ToSet(s)) /\ \A r \in ToSet(s) : IsStored(r)
              /\ CnameAlone(s) => Published(s)
            BY <1>4, <2>1, <2>3, <3>2, SentIs
        <3>4. Became(zone, cs, s)
            BY <2>1, <2>3, SubmissionBecomes
        <3>5. Accepted(s) <=> CnameAlone(s)
            BY <3>3 DEF Accepted, IsStored
        <3>6. CASE CnameAlone(s)
            <4>1. zone' = s /\ answer' = 204
                BY <3>1, <3>5, <3>6
            <4>. QED  BY <1>4, <2>1, <3>1, <3>2, <3>3, <3>4, <3>6, <4>1
                      DEF IsSent, cs
        <3>7. CASE ~CnameAlone(s)
            <4>1. UNCHANGED zone /\ answer' = 400
                BY <3>1, <3>5, <3>7, BadRequestIsAnswered
            <4>2. Refused(c)
                BY <3>3, <3>4, <3>7 DEF Refused, cs
            <4>. QED  BY <1>4, <3>1, <3>3, <4>1, <4>2 DEF IsSent
        <3>. QED  BY <3>6, <3>7
    <2>. QED  BY <2>3, <2>4, <2>5, <2>6
<1>. QED  BY <1>2, <1>3, <1>4 DEF postRecords

-----------------------------------------------------------------------------
\* What GET /records may answer.
IsShown(f) ==
    /\ f = [dnsName |-> f.dnsName, recordType |-> f.recordType,
            recordTTL |-> f.recordTTL, targets |-> f.targets]
    /\ IsSpelt(f)
    /\ f.recordTTL \in ttlUnset .. ttlMax
    /\ validateRecord(toRecord(f))

(***************************************************************************)
(* The inductive invariant: what the zone, the last POST and the view      *)
(* hold; where ExternalDNS is in its round; and what a POST that succeeded *)
(* leaves, until somebody changes something.                               *)
(***************************************************************************)
Contents ==
    /\ wanted \in Wishes
    /\ Published(zone)
    /\ IsSent(sent)
    /\ view \in Seq(ToSet(view)) /\ \A f \in ToSet(view) : IsShown(f)

LastPost ==
    /\ failure \in Failures \union {Null}
    /\ answer \in {0, 204, 400, 500}
    /\ AnswerTellsWhetherToRetry

InRound ==
    /\ pc \in {"get", "adjust", "post"}
    /\ quiet \in BOOLEAN /\ settled \in BOOLEAN
    /\ pc # "post" => adjusted = <<>>
    /\ pc = "post" =>
          /\ adjusted = adjustEndpoints(wanted)
          /\ \A e \in ToSet(wanted) : Readable(e)
    /\ pc # "get" =>
          /\ answer = 0
          /\ settled => quiet
          /\ quiet => view = ViewOf(zone)

InSync ==
    settled =>
        /\ \A e \in ToSet(wanted) : Readable(e)
        /\ Synced(ToSet(ViewOf(zone)), ToSet(adjustEndpoints(wanted)))

Inv == Contents /\ LastPost /\ InRound /\ InSync

LEMMA Nil == <<>> \in Seq(ToSet(<<>>)) /\ ToSet(<<>>) = {}
BY DEF ToSet

LEMMA GetRecordsShows ==
    ASSUME Inv, GetRecords
    PROVE  Inv'
<1>1. /\ view' = ViewOf(zone) /\ quiet' = TRUE /\ pc' = "adjust" /\ pc = "get"
      /\ failure' = Null /\ sent' = <<>> /\ answer' = 0
      /\ UNCHANGED <<wanted, adjusted, zone, settled>>
    BY DEF GetRecords, Forget, ViewOf
<1>2. view' \in Seq(ToSet(view')) /\ \A f \in ToSet(view') : IsShown(f)
    <2>1. /\ view' \in Seq(ToSet(view'))
          /\ ToSet(view') = { ShownAs(r) : r \in { x \in ToSet(zone) : Listed(x) } }
        BY <1>1, ViewIs DEF Inv, Contents
    <2>2. ASSUME NEW f \in ToSet(view')
          PROVE  IsShown(f)
        <3>1. PICK r \in ToSet(zone) : Listed(r) /\ f = ShownAs(r)
            BY <2>1
        <3>2. IsStored(r)
            BY PublishedIs DEF Inv, Contents
        <3>. QED  BY <3>1, <3>2, ShownAsIs DEF IsShown
    <2>. QED  BY <2>1, <2>2
<1>3. Contents'
    BY <1>1, <1>2, Nil DEF Inv, Contents, IsSent
<1>4. LastPost'
    BY <1>1 DEF LastPost, AnswerTellsWhetherToRetry
<1>5. InRound'
    <2>1. adjusted' = <<>> /\ settled' \in BOOLEAN
        BY <1>1 DEF Inv, InRound
    <2>2. view' = ViewOf(zone')
        BY <1>1
    <2>. QED  BY <1>1, <2>1, <2>2 DEF InRound
<1>6. InSync'
    BY <1>1 DEF Inv, InSync
<1>. QED  BY <1>3, <1>4, <1>5, <1>6 DEF Inv

LEMMA PostAdjustEndpointsAdjusts ==
    ASSUME Inv, PostAdjustEndpoints
    PROVE  Inv'
<1>1. /\ pc = "adjust"
      /\ UNCHANGED <<wanted, view, zone, quiet, settled, failure, sent, answer>>
      /\ IF \A e \in ToSet(wanted) : Readable(e)
         THEN adjusted' = adjustEndpoints(wanted) /\ pc' = "post"
         ELSE UNCHANGED adjusted /\ pc' = "get"
    BY DEF PostAdjustEndpoints, outcome
<1>2. Contents' /\ LastPost' /\ InSync'
    BY <1>1 DEF Inv, Contents, LastPost, InSync, AnswerTellsWhetherToRetry
<1>3. InRound'
    BY <1>1 DEF Inv, InRound
<1>. QED  BY <1>2, <1>3 DEF Inv

LEMMA OthersEditForgets ==
    ASSUME Inv, OthersEdit
    PROVE  Inv'
<1>1. /\ pc # "adjust" /\ zone' \in Zones /\ quiet' = FALSE /\ settled' = FALSE
      /\ failure' = Null /\ sent' = <<>> /\ answer' = 0
      /\ UNCHANGED <<pc, wanted, view, adjusted>>
    BY DEF OthersEdit, Forget, exchange
<1>2. Contents'
    <2>1. Published(zone')
        BY <1>1, ZonesAssumption
    <2>. QED  BY <1>1, <2>1, Nil DEF Inv, Contents, IsSent
<1>3. LastPost' /\ InSync'
    BY <1>1 DEF LastPost, InSync, AnswerTellsWhetherToRetry
<1>4. InRound'
    BY <1>1 DEF Inv, InRound
<1>. QED  BY <1>2, <1>3, <1>4 DEF Inv

LEMMA SourcesChangeForgets ==
    ASSUME Inv, SourcesChange
    PROVE  Inv'
<1>1. /\ pc = "get" /\ wanted' \in Wishes /\ settled' = FALSE
      /\ failure' = Null /\ sent' = <<>> /\ answer' = 0
      /\ UNCHANGED <<pc, view, adjusted, zone, quiet>>
    BY DEF SourcesChange, Forget
<1>2. Contents'
    BY <1>1, Nil DEF Inv, Contents, IsSent
<1>3. LastPost' /\ InSync'
    BY <1>1 DEF LastPost, InSync, AnswerTellsWhetherToRetry
<1>4. InRound'
    BY <1>1 DEF Inv, InRound
<1>. QED  BY <1>2, <1>3, <1>4 DEF Inv

LEMMA PostRawLeaves ==
    ASSUME Inv, PostRaw
    PROVE  Inv'
<1>1. PICK c \in RawChanges : postRecords(c)
    BY DEF PostRaw
<1>2. /\ pc = "get" /\ quiet' = FALSE /\ settled' = FALSE
      /\ UNCHANGED <<pc, wanted, view, adjusted>>
    BY DEF PostRaw, exchange
<1>3. /\ Published(zone') /\ IsSent(sent')
      /\ failure' \in Failures \union {Null} /\ answer' \in {204, 400, 500}
      /\ IF failure' = Null THEN answer' # 500
         ELSE answer' = 400 <=> failure'.cause \in LastingCauses
    BY <1>1, RawIsPost, PostGives DEF Inv, Contents
<1>4. Contents'
    BY <1>2, <1>3 DEF Inv, Contents
<1>5. LastPost' /\ InSync'
    BY <1>2, <1>3 DEF LastPost, InSync, AnswerTellsWhetherToRetry
<1>6. InRound'
    BY <1>2 DEF Inv, InRound
<1>. QED  BY <1>4, <1>5, <1>6 DEF Inv

\* What ExternalDNS posts after it has had its endpoints adjusted.
LEMMA PlanIsPost ==
    ASSUME Inv, pc = "post"
    PROVE  /\ adjusted \in Seq(ToSet(adjusted)) /\ DOMAIN adjusted = DOMAIN wanted
           /\ \A i \in DOMAIN adjusted : adjusted[i] = Adjusted(wanted[i])
           /\ \A e \in ToSet(adjusted) : IsAdjusted(e) /\ IsSpelt(e)
           /\ \A e, f \in ToSet(adjusted) : SameKey(e, f) => e = f
           /\ \A f \in ToSet(view) : IsSpelt(f)
           /\ IsPost(Plan) /\ IsRead(Plan)
           /\ Posted(Plan) = Created \union Updated
           /\ ToSet(Plan.delete) = Deleted
<1>1. /\ wanted \in Wishes /\ adjusted = adjustEndpoints(wanted)
      /\ \A e \in ToSet(wanted) : Readable(e)
    BY DEF Inv, Contents, InRound
<1>2. /\ adjusted \in Seq(ToSet(adjusted)) /\ DOMAIN adjusted = DOMAIN wanted
      /\ \A i \in DOMAIN adjusted : adjusted[i] = Adjusted(wanted[i])
      /\ \A e \in ToSet(adjusted) : IsAdjusted(e)
      /\ \A e, f \in ToSet(adjusted) : SameKey(e, f) => e = f
    BY <1>1, AdjustedAre
<1>3. /\ view \in Seq(ToSet(view))
      /\ \A e \in ToSet(view) \union ToSet(adjusted) : IsSpelt(e)
    BY <1>2 DEF Inv, Contents, IsShown, IsAdjusted
<1>4. /\ IsPost(Plan) /\ IsRead(Plan)
      /\ Posted(Plan) = Created \union Updated /\ ToSet(Plan.delete) = Deleted
    BY <1>2, <1>3, PlanIs
<1>. QED  BY <1>2, <1>3, <1>4

LEMMA PostPlanSettles ==
    ASSUME Inv, PostPlan
    PROVE  Inv'
<1>1. /\ pc = "post" /\ pc' = "get" /\ view' = <<>> /\ adjusted' = <<>>
      /\ UNCHANGED <<wanted, quiet>>
    BY DEF PostPlan
<1>2. CASE Plan # NoChanges /\ postRecords(Plan)
           /\ settled' = (quiet /\ answer' = 204)
    <2>1. /\ Published(zone') /\ IsSent(sent')
          /\ failure' \in Failures \union {Null} /\ answer' \in {204, 400, 500}
          /\ IF failure' = Null THEN answer' # 500
             ELSE answer' = 400 <=> failure'.cause \in LastingCauses
          /\ answer' = 204 =>
                /\ ~Z!Inexpressible(toChangeSet(Plan))
                /\ Became(zone, toChangeSet(Plan), zone')
        BY <1>1, <1>2, PlanIsPost, PostGives DEF Inv, Contents
    <2>2. Contents'
        BY <1>1, <2>1, Nil DEF Inv, Contents
    <2>3. LastPost'
        BY <2>1 DEF LastPost, AnswerTellsWhetherToRetry
    <2>4. InRound'
        BY <1>1, <1>2 DEF Inv, InRound
    <2>5. InSync'
        <3>. SUFFICES ASSUME settled'
                      PROVE  /\ \A e \in ToSet(wanted) : Readable(e)
                             /\ Synced(ToSet(ViewOf(zone')),
                                       ToSet(adjustEndpoints(wanted)))
            BY <1>1 DEF InSync
        <3>1. quiet /\ answer' = 204
            BY <1>2
        <3>2. /\ view = ViewOf(zone) /\ adjusted = adjustEndpoints(wanted)
              /\ \A e \in ToSet(wanted) : Readable(e)
              /\ Published(zone)
            BY <1>1, <3>1 DEF Inv, InRound, Contents
        <3>3. Synced(ToSet(ViewOf(zone')), ToSet(adjusted))
            BY <1>1, <2>1, <3>1, <3>2, PlanIsPost, PlanIsDone
        <3>. QED  BY <3>2, <3>3
    <2>. QED  BY <2>2, <2>3, <2>4, <2>5 DEF Inv
<1>3. CASE UNCHANGED <<zone, settled, outcome>>
    <2>1. UNCHANGED <<zone, settled, failure, sent, answer>>
        BY <1>3 DEF outcome
    <2>2. Contents'
        BY <1>1, <2>1, Nil DEF Inv, Contents
    <2>3. LastPost' /\ InSync'
        BY <1>1, <2>1 DEF Inv, LastPost, InSync, AnswerTellsWhetherToRetry
    <2>4. InRound'
        BY <1>1, <2>1 DEF Inv, InRound
    <2>. QED  BY <2>2, <2>3, <2>4 DEF Inv
<1>. QED  BY <1>2, <1>3 DEF PostPlan

LEMMA InvIsInductive == Spec => []Inv
<1>1. Init => Inv
    <2>. SUFFICES ASSUME Init PROVE Inv
        OBVIOUS
    <2>1. Contents
        BY Nil, ZonesAssumption DEF Init, Contents, IsSent
    <2>2. LastPost /\ InRound /\ InSync
        BY DEF Init, LastPost, InRound, InSync, AnswerTellsWhetherToRetry
    <2>. QED  BY <2>1, <2>2 DEF Inv
<1>2. Inv /\ [Next]_vars => Inv'
    <2>. SUFFICES ASSUME Inv, [Next]_vars PROVE Inv'
        OBVIOUS
    <2>1. CASE UNCHANGED vars
        BY <2>1
        DEF vars, exchange, outcome, Inv, Contents, LastPost, InRound, InSync,
            AnswerTellsWhetherToRetry
    <2>. QED  BY <2>1, GetRecordsShows, PostAdjustEndpointsAdjusts,
                 PostPlanSettles, PostRawLeaves, OthersEditForgets,
                 SourcesChangeForgets DEF Next
<1>. QED  BY <1>1, <1>2, PTL DEF Spec

-----------------------------------------------------------------------------
(***************************************************************************)
(* What GET /records and POST /adjustendpoints answer are endpoints with a *)
(* type and a TTL the webhook knows, what is published and sent are        *)
(* records of DPF, and POST answers 204, 400 or 500.                       *)
(***************************************************************************)
THEOREM TypeCorrect == Spec => []TypeOK
<1>1. Inv => TypeOK
    <2>. SUFFICES ASSUME Inv PROVE TypeOK
        OBVIOUS
    <2>1. adjusted \in Seq(ToSet(adjusted))
          /\ \A e \in ToSet(adjusted) : IsAdjusted(e)
        <3>1. CASE pc = "post"
            BY <3>1, PlanIsPost
        <3>2. CASE pc # "post"
            BY <3>2, Nil DEF Inv, InRound
        <3>. QED  BY <3>1, <3>2
    <2>2. ToSet(view \o adjusted) = ToSet(view) \union ToSet(adjusted)
        BY <2>1, Concatenated DEF Inv, Contents
    <2>3. ASSUME NEW e \in ToSet(view) \union ToSet(adjusted)
          PROVE  /\ DOMAIN e = {"dnsName", "recordType", "recordTTL", "targets"}
                 /\ e.recordType \in SupportedTypes
                 /\ e.recordTTL \in ttlUnset .. ttlMax
        <3>1. /\ e = [dnsName |-> e.dnsName, recordType |-> e.recordType,
                      recordTTL |-> e.recordTTL, targets |-> e.targets]
              /\ IsSpelt(e) /\ e.recordTTL \in ttlUnset .. ttlMax
            BY <2>1 DEF Inv, Contents, IsShown, IsAdjusted
        <3>2. DOMAIN e = {"dnsName", "recordType", "recordTTL", "targets"}
            <4>. DEFINE r == [dnsName |-> e.dnsName, recordType |-> e.recordType,
                              recordTTL |-> e.recordTTL, targets |-> e.targets]
            <4>1. DOMAIN r = {"dnsName", "recordType", "recordTTL", "targets"}
                OBVIOUS
            <4>2. e = r
                BY <3>1
            <4>. HIDE DEF r
            <4>. QED  BY <4>1, <4>2
        <3>. QED  BY <3>1, <3>2 DEF IsSpelt, Readable
    <2>4. ToSet(zone \o sent) = ToSet(zone) \union ToSet(sent)
          /\ \A r \in ToSet(zone) \union ToSet(sent) : IsStored(r)
        <3>1. zone \in Seq(ToSet(zone)) /\ sent \in Seq(ToSet(sent))
            BY PublishedIs DEF Inv, Contents, IsSent
        <3>. QED  BY <3>1, PublishedIs, Concatenated DEF Inv, Contents, IsSent
    <2>5. ASSUME NEW r \in ToSet(zone) \union ToSet(sent)
          PROVE  /\ DOMAIN r = {"name", "rrtype", "ttl", "rdata", "labels",
                                "description"}
                 /\ r.ttl \in {Null} \union (ttlMin .. ttlMax)
        <3>. DEFINE t == [name |-> r.name, rrtype |-> r.rrtype, ttl |-> r.ttl,
                          rdata |-> r.rdata, labels |-> r.labels,
                          description |-> r.description]
        <3>1. DOMAIN t = {"name", "rrtype", "ttl", "rdata", "labels",
                          "description"}
            OBVIOUS
        <3>2. r = t /\ Storable(r)
            BY <2>4 DEF IsStored
        <3>. HIDE DEF t
        <3>. QED  BY <3>1, <3>2 DEF Storable
    <2>. QED  BY <2>2, <2>3, <2>4, <2>5
              DEF TypeOK, Inv, Contents, InRound, LastPost
<1>. QED  BY <1>1, InvIsInductive, PTL

(***************************************************************************)
(* Whatever ExternalDNS wants, of any TTL, length and spelling, adjusting  *)
(* what was adjusted changes nothing (FR-015; adjustEndpoints).            *)
(***************************************************************************)
THEOREM AdjustStaysIdempotent == Spec => []AdjustIsIdempotent
<1>1. Inv => AdjustIsIdempotent
    <2>. SUFFICES ASSUME Inv, pc = "post"
                  PROVE  adjustEndpoints(adjusted) = adjusted
        BY DEF AdjustIsIdempotent
    <2>1. /\ wanted \in Wishes /\ adjusted = adjustEndpoints(wanted)
          /\ \A e \in ToSet(wanted) : Readable(e)
        BY DEF Inv, Contents, InRound
    <2>2. \A i \in DOMAIN wanted : Sendable(wanted[i])
        BY <2>1, WantedAreSendable
    <2>. QED  BY <2>1, <2>2, AdjustingIsIdempotent
<1>. QED  BY <1>1, InvIsInductive, PTL

(***************************************************************************)
(* No change set, adjusted or posted as it is, makes merge send a record   *)
(* DPF cannot store, whatever it publishes already (ValidateFormat, merge, *)
(* NormalizeTXT).                                                          *)
(***************************************************************************)
THEOREM SentStaysStorable == Spec => []SentIsStorable
<1>1. Inv => SentIsStorable
    BY DEF Inv, Contents, IsSent, IsStored, SentIsStorable
<1>. QED  BY <1>1, InvIsInductive, PTL

(***************************************************************************)
(* Once a POST has succeeded, ExternalDNS finds no difference any more,    *)
(* until somebody changes something: for every set of endpoints, zone and  *)
(* table of names (SC-007).                                                *)
(***************************************************************************)
THEOREM NothingIsLeftToDo == Spec => []NothingLeftToDo
<1>1. Inv => NothingLeftToDo
    <2>. SUFFICES ASSUME Inv, pc = "post", settled
                  PROVE  Plan = NoChanges
        BY DEF NothingLeftToDo
    <2>1. view = ViewOf(zone) /\ adjusted = adjustEndpoints(wanted)
        BY DEF Inv, InRound
    <2>2. Synced(ToSet(view), ToSet(adjusted))
        BY <2>1 DEF Inv, InSync
    <2>3. /\ view \in Seq(ToSet(view)) /\ adjusted \in Seq(ToSet(adjusted))
          /\ \A e \in ToSet(view) \union ToSet(adjusted) : IsSpelt(e)
        BY PlanIsPost DEF Inv, Contents
    <2>. QED  BY <2>2, <2>3, SyncedIsDone
<1>. QED  BY <1>1, InvIsInductive, PTL

(***************************************************************************)
(* ExternalDNS gives up exactly on the causes that last, whatever POST and *)
(* zone they meet; a POST that DPF did not fail is never to be tried again *)
(* (Classify, statusFor; the guard of merge does not abort).               *)
(***************************************************************************)
THEOREM AnswersTellWhetherToRetry == Spec => []AnswerTellsWhetherToRetry
<1>1. Inv => AnswerTellsWhetherToRetry
    BY DEF Inv, LastPost
<1>. QED  BY <1>1, InvIsInductive, PTL

(***************************************************************************)
(* What is published in the end is what was wanted, unless a TXT value     *)
(* without quotation marks holds a single backslash, which parseTXT drops. *)
(***************************************************************************)
THEOREM TextStaysKept ==
    ASSUME \A w \in Wishes : \A e \in ToSet(w) : e.recordType = "TXT" =>
              \A v \in ToSet(e.targets) :
                 v.quotes \/ v.text.backslash # "single"
    PROVE  Spec => []TextIsKept
<1>1. Inv => TextIsKept
    <2>. SUFFICES ASSUME Inv, settled, NEW e \in ToSet(wanted)
                  PROVE  \E r \in ToSet(zone) :
                            /\ r.name = Canonical[e.dnsName]
                            /\ r.rrtype = e.recordType
                            /\ IF r.rrtype = "TXT"
                               THEN { Text(v) : v \in ToSet(r.rdata) }
                                       = { Text(v) : v \in ToSet(e.targets) }
                               ELSE ToSet(r.rdata) = ToSet(e.targets)
        BY DEF TextIsKept
    <2>. DEFINE A == ToSet(adjustEndpoints(wanted))
                a == Adjusted(e)
    <2>1. /\ wanted \in Wishes /\ Published(zone)
          /\ \A f \in ToSet(wanted) : Readable(f)
          /\ Synced(ToSet(ViewOf(zone)), A)
        BY DEF Inv, Contents, InSync
    <2>2. a \in A /\ Sendable(e)
          /\ (e.recordType = "TXT" => e.targets \in Seq(TXTValues(Texts)))
        <3>1. PICK i \in DOMAIN wanted : e = wanted[i]
            BY DEF ToSet
        <3>2. /\ DOMAIN adjustEndpoints(wanted) = DOMAIN wanted
              /\ adjustEndpoints(wanted)[i] = a
            BY <2>1, <3>1, AdjustedAre
        <3>3. Sendable(e)
              /\ (e.recordType = "TXT" => e.targets \in Seq(TXTValues(Texts)))
            BY <2>1, <3>1, WantedAreSendable
        <3>. QED  BY <3>1, <3>2, <3>3 DEF ToSet
    <2>3. PICK f \in ToSet(ViewOf(zone)) : SameKey(a, f) /\ ~Differs(a, f)
        BY <2>1, <2>2 DEF Synced
    <2>4. PICK r \in ToSet(zone) : Listed(r) /\ f = ShownAs(r)
        BY <2>1, ViewIs
    <2>5. IsStored(r)
        BY <2>1, PublishedIs
    <2>6. /\ IsAdjusted(a) /\ Canonical[a.dnsName] = Canonical[e.dnsName]
          /\ a.recordType = e.recordType
          /\ e.recordType # "TXT" => a.targets = e.targets
        BY <2>2, AdjustedIs
    <2>7. r.name = Canonical[e.dnsName] /\ r.rrtype = e.recordType
        <3>1. Names(toRecord(a), r)
            BY <2>3, <2>4, <2>5, <2>6, NamesAreKeys DEF IsAdjusted
        <3>. QED  BY <2>6, <3>1 DEF Names, toRecord
    <2>8. ToSet(r.rdata) = ToSet(a.targets)
        <3>1. f.targets = r.rdata
            BY <2>4, <2>5, ShownAsIs
        <3>. QED  BY <2>3, <3>1 DEF Differs
    <2>9. CASE e.recordType # "TXT"
        BY <2>6, <2>7, <2>8, <2>9
    <2>10. CASE e.recordType = "TXT"
        <3>. DEFINE q == toRecord(e)
                    s == adjustValues(q)
        <3>1. /\ q.type = "TXT" /\ q.values = e.targets
              /\ q.values \in Seq(TXTValues(Texts))
            BY <2>2, <2>10 DEF toRecord
        <3>2. a.targets = s
            BY DEF Adjusted
        <3>. HIDE DEF s, q
        <3>3. /\ s \in Seq(TXTValues(Texts)) /\ DOMAIN s = DOMAIN e.targets
              /\ \A i \in DOMAIN s :
                    s[i] = IF s[i].closed THEN NormalizeTXT(e.targets[i])
                           ELSE e.targets[i]
            BY <3>1, AdjustedTXT DEF s
        <3>4. ASSUME NEW i \in DOMAIN e.targets
              PROVE  Text(s[i]) = Text(e.targets[i])
            <4>. DEFINE v == e.targets[i]
            <4>1. v \in TXTValues(Texts) /\ v \in ToSet(e.targets)
                BY <3>1 DEF ToSet
            <4>2. v.quotes \/ v.text.backslash # "single"
                BY <2>1, <2>10, <4>1
            <4>. HIDE DEF v
            <4>3. NormalizeTXT(v).text = v.text
                BY <4>1, <4>2 DEF NormalizeTXT, Quoted, TXTValues
            <4>. QED  BY <3>3, <4>3 DEF Text, v
        <3>5. { Text(v) : v \in ToSet(s) } = { Text(v) : v \in ToSet(e.targets) }
            BY <3>3, <3>4 DEF ToSet
        <3>. QED  BY <2>7, <2>8, <2>10, <3>2, <3>5
    <2>. QED  BY <2>9, <2>10
<1>. QED  BY <1>1, InvIsInductive, PTL

-----------------------------------------------------------------------------
\* What is adjusted is valid, unless it was impossible from the start.
LEMMA PossibleIsValid ==
    ASSUME NEW e, Sendable(e),
           e.recordType = "TXT" => e.targets \in Seq(TXTValues(Texts)),
           ~Impossible(e)
    PROVE  /\ validateRecord(toRecord(Adjusted(e)))
           /\ e.recordType = "TXT" => Adjusted(e).targets \in Seq(TXTValue)
<1>. DEFINE a == Adjusted(e)
            q == toRecord(a)
<1>1. /\ IsAdjusted(a) /\ Canonical[a.dnsName] = Canonical[e.dnsName]
      /\ a.recordType = e.recordType
      /\ e.recordType # "TXT" => a.targets = e.targets
    BY AdjustedIs
<1>2. /\ q.name = Canonical[e.dnsName] /\ q.type = e.recordType
      /\ q.ttl = a.recordTTL /\ q.values = a.targets
    BY <1>1 DEF toRecord
<1>3. q.type \in SupportedTypes
    BY <1>2 DEF Sendable, Readable
<1>4. q.ttl = ttlUnset \/ q.ttl \in ttlMin .. ttlMax
    BY <1>1, <1>2, ttlMaxAssumption DEF IsAdjusted, ttlUnset, ttlMin
<1>5. /\ q.type \in {"A", "AAAA"} => q.name \notin Underscored
      /\ q.type = "CNAME" => Len(e.targets) = 1
      /\ q.type = "TXT" => \A v \in ToSet(e.targets) : v.closed
      /\ q.type \in DOMAIN Fields =>
            \A v \in ToSet(e.targets) : NumbersFit(q.type, v)
    BY <1>2 DEF Impossible
<1>6. e.recordType = "TXT" => a.targets \in Seq(TXTValue)
    <2>. SUFFICES ASSUME e.recordType = "TXT" PROVE a.targets \in Seq(TXTValue)
        OBVIOUS
    <2>. DEFINE r == toRecord(e)
                s == adjustValues(r)
    <2>1. r.type = "TXT" /\ r.values = e.targets /\ a.targets = s
        BY DEF toRecord, Adjusted
    <2>. HIDE DEF s, r, a
    <2>2. /\ s \in Seq(TXTValues(Texts)) /\ DOMAIN s = DOMAIN e.targets
          /\ \A i \in DOMAIN s : s[i].closed = e.targets[i].closed
        BY <2>1, AdjustedTXT DEF s
    <2>3. \A i \in DOMAIN s : s[i] \in TXTValue
        <3>1. \A i \in DOMAIN s : s[i].closed
            BY <1>2, <1>5, <2>2 DEF ToSet
        <3>. QED  BY <2>2, <3>1 DEF TXTValue
    <2>4. s \in Seq(TXTValue)
        <3>1. DOMAIN s = 1 .. Len(s) /\ Len(s) \in Nat
              /\ s = [i \in 1 .. Len(s) |-> s[i]]
            BY <2>2
        <3>. QED  BY <2>3, <3>1
    <2>. QED  BY <2>1, <2>4
<1>. HIDE DEF q, a
<1>7. q.type = "TXT" => \A v \in ToSet(q.values) : v.closed
    <2>1. \A t : t \in Seq(TXTValue) => \A v \in ToSet(t) : v.closed
        BY IsSeq DEF TXTValue
    <2>. QED  BY <1>2, <1>6, <2>1
<1>8. /\ q.type = "MX" => validateNumericPrefix(q, 1, 2)
      /\ q.type = "SRV" => validateNumericPrefix(q, 3, 4)
    BY <1>1, <1>2, <1>5, NumbersAre
<1>9. q.type = "CNAME" => Len(q.values) = 1
    BY <1>1, <1>2, <1>5
<1>10. validateRecord(q)
    BY <1>3, <1>4, <1>5, <1>7, <1>8, <1>9 DEF validateRecord
<1>. QED  BY <1>6, <1>10 DEF q, a

\* What the edit of a plan sends is published already, or wanted.
LEMMA SentIsWanted ==
    ASSUME Inv, pc = "post", quiet, NEW s,
           Became(zone, toChangeSet(Plan), s), \A r \in ToSet(s) : IsStored(r),
           NEW r \in ToSet(s)
    PROVE  IF Listed(r)
           THEN \E x \in ToSet(adjusted) : Names(toRecord(x), r)
           ELSE \E c \in ToSet(zone) : c.name = r.name /\ c.rrtype = r.rrtype
<1>. DEFINE cs == toChangeSet(Plan)
            P == ToSet(Z!Puts(cs))
            D == ToSet(cs.delete)
<1>1. view = ViewOf(zone) /\ Published(zone)
    BY DEF Inv, InRound, Contents
<1>2. /\ \A e \in ToSet(adjusted) : IsSpelt(e)
      /\ \A f \in ToSet(view) : IsSpelt(f)
      /\ P = { toRecord(e) : e \in Created \union Updated }
      /\ D = { toRecord(d) : d \in Deleted }
    BY PlanIsPost, PostIs
<1>. HIDE DEF P, D, cs
<1>3. CASE \E p \in P : Names(p, r)
    <2>1. PICK x \in Created \union Updated : Names(toRecord(x), r)
        BY <1>2, <1>3
    <2>2. x \in ToSet(adjusted)
        BY DEF Created, Updated
    <2>3. Listed(r)
        BY <1>2, <2>1, <2>2, NamesAreKeys
    <2>. QED  BY <2>1, <2>2, <2>3
<1>4. CASE \E c \in ToSet(zone) :
              /\ c.name = r.name /\ c.rrtype = r.rrtype
              /\ \A p \in P \union D : ~Names(p, r)
    <2>1. PICK c \in ToSet(zone) :
             /\ c.name = r.name /\ c.rrtype = r.rrtype
             /\ \A p \in P \union D : ~Names(p, r)
        BY <1>4
    <2>2. CASE ~Listed(r)
        BY <2>1, <2>2
    <2>3. CASE Listed(r)
        <3>1. Listed(c) /\ IsStored(c)
            BY <1>1, <2>1, <2>3, PublishedIs DEF Listed
        <3>2. ShownAs(c) \in ToSet(view)
            BY <1>1, <3>1, ViewIs
        <3>3. SameKey(ShownAs(c), ShownAs(c))
            BY DEF SameKey
        <3>4. Names(toRecord(ShownAs(c)), r)
            <4>1. Names(toRecord(ShownAs(c)), c)
                BY <1>2, <3>1, <3>2, <3>3, NamesAreKeys
            <4>. QED  BY <2>1, <4>1 DEF Names
        <3>5. ShownAs(c) \notin Deleted
            BY <1>2, <2>1, <3>4
        <3>6. PICK x \in ToSet(adjusted) : SameKey(x, ShownAs(c))
            BY <3>2, <3>5 DEF Deleted
        <3>7. Names(toRecord(x), c)
            BY <1>2, <3>1, <3>6, NamesAreKeys
        <3>. QED  BY <2>1, <2>3, <3>7 DEF Names
    <2>. QED  BY <2>2, <2>3
<1>. QED  BY <1>3, <1>4 DEF Became, P, D, cs

(***************************************************************************)
(* A plan is refused only for something ExternalDNS wants: whatever DPF    *)
(* publishes, and whatever is asked for beside it, adjusting brings all    *)
(* that is possible into a shape that is stored (FR-014, FR-032).          *)
(***************************************************************************)
THEOREM RefusesOnlyImpossible == Spec => RefusesOnlyTheImpossible
<1>1. Inv /\ PostPlan /\ quiet /\ answer' = 400 /\ failure' = Null
         => \E e \in ToSet(wanted) : Impossible(e)
    <2>. SUFFICES ASSUME Inv, PostPlan, quiet, answer' = 400, failure' = Null,
                         \A e \in ToSet(wanted) : ~Impossible(e)
                  PROVE  FALSE
        OBVIOUS
    <2>. DEFINE cs == toChangeSet(Plan)
                P == ToSet(Z!Puts(cs))
                D == ToSet(cs.delete)
    <2>1. pc = "post" /\ postRecords(Plan)
        <3>1. answer = 0 /\ pc = "post"
            BY DEF Inv, InRound, PostPlan
        <3>. QED  BY <3>1 DEF PostPlan, outcome
    <2>2. Published(zone) /\ wanted \in Wishes /\ CnameAlone(zone)
          /\ \A e \in ToSet(wanted) : Readable(e)
        BY <2>1, PublishedIs DEF Inv, Contents, InRound
    <2>3. IsPost(Plan) /\ IsRead(Plan)
        BY <2>1, PlanIsPost
    <2>4. Refused(Plan)
        BY <2>1, <2>2, <2>3, PostGives DEF Inv, Contents
    <2>5. Z!IsChangeSet(cs)
          /\ P = { toRecord(e) : e \in Created \union Updated }
          /\ D = { toRecord(d) : d \in Deleted }
        BY <2>1, <2>3, PlanIsPost, PostIs
    <2>. HIDE DEF P, D, cs
    <2>6. ASSUME NEW x \in ToSet(adjusted)
          PROVE  \E e \in ToSet(wanted) :
                    /\ Canonical[e.dnsName] = toRecord(x).name
                    /\ e.recordType = toRecord(x).type
                    /\ validateRecord(toRecord(x))
                    /\ e.recordType = "TXT" =>
                          toRecord(x).values \in Seq(TXTValue)
        <3>1. PICK i \in DOMAIN wanted : x = Adjusted(wanted[i])
            BY <2>1, PlanIsPost DEF ToSet
        <3>2. /\ wanted[i] \in ToSet(wanted)
              /\ Sendable(wanted[i])
              /\ wanted[i].recordType = "TXT" =>
                    wanted[i].targets \in Seq(TXTValues(Texts))
            BY <2>2, WantedAreSendable DEF ToSet
        <3>3. /\ validateRecord(toRecord(x))
              /\ wanted[i].recordType = "TXT" => x.targets \in Seq(TXTValue)
            BY <3>1, <3>2, PossibleIsValid
        <3>4. /\ Canonical[x.dnsName] = Canonical[wanted[i].dnsName]
              /\ x.recordType = wanted[i].recordType
            BY <3>1, <3>2, AdjustedIs
        <3>5. /\ toRecord(x).name = Canonical[x.dnsName]
              /\ toRecord(x).type = x.recordType
              /\ toRecord(x).values = x.targets
            BY DEF toRecord
        <3>. QED  BY <3>2, <3>3, <3>4, <3>5
    <2>7. ASSUME NEW x \in ToSet(adjusted), toRecord(x).type = "CNAME",
                 NEW y \in ToSet(adjusted), toRecord(y).type # "CNAME",
                 toRecord(x).name = toRecord(y).name
          PROVE  FALSE
        <3>1. PICK e \in ToSet(wanted) :
                 /\ Canonical[e.dnsName] = toRecord(x).name
                 /\ e.recordType = "CNAME"
            BY <2>6, <2>7
        <3>2. PICK g \in ToSet(wanted) :
                 /\ Canonical[g.dnsName] = toRecord(x).name
                 /\ g.recordType # "CNAME"
            BY <2>6, <2>7
        <3>3. Beside(Canonical[e.dnsName], "CNAME")
            BY <3>1, <3>2 DEF Beside
        <3>. QED  BY <3>1, <3>3 DEF Impossible
    <2>8. /\ Created \union Updated \subseteq ToSet(adjusted)
          /\ Deleted \subseteq ToSet(view)
        BY DEF Created, Updated, Deleted
    <2>9. ValidateFormat(cs)
        <3>1. ASSUME NEW p \in P \union D
              PROVE  validateRecord(p)
            <4>1. CASE p \in P
                BY <2>5, <2>6, <2>8, <4>1
            <4>2. CASE p \in D
                BY <2>5, <2>8, <4>2 DEF Inv, Contents, IsShown
            <4>. QED  BY <4>1, <4>2
        <3>2. ASSUME NEW p \in P, NEW q \in P, p.name = q.name,
                     p.type = "CNAME", q.type # "CNAME"
              PROVE  FALSE
            BY <2>5, <2>7, <2>8, <3>2
        <3>. QED  BY <2>5, <3>1, <3>2, ValidatedAre DEF P, D
    <2>10. ~Z!Inexpressible(cs)
        <3>1. \A p \in P \union D : p.type \in SupportedTypes
            BY <2>5, <2>9, ValidatedAre DEF P, D, validateRecord
        <3>2. \A p \in P : p.type = "TXT" => p.values \in Seq(TXTValue)
            BY <2>5, <2>6, <2>8
        <3>. QED  BY <2>5, <3>1, <3>2, ValidatedAre DEF P, D
    <2>11. PICK s : /\ Became(zone, cs, s)
                    /\ \A r \in ToSet(s) : IsStored(r)
                    /\ ~CnameAlone(s)
        BY <2>3, <2>4, <2>9, <2>10 DEF Refused, cs
    <2>12. PICK r \in ToSet(s), t \in ToSet(s) :
              r.name = t.name /\ r.rrtype = "CNAME" /\ t.rrtype # "CNAME"
        BY <2>11 DEF CnameAlone
    <2>13. ASSUME NEW u \in ToSet(s)
           PROVE  IF Listed(u)
                  THEN \E x \in ToSet(adjusted) : Names(toRecord(x), u)
                  ELSE \E c \in ToSet(zone) :
                          c.name = u.name /\ c.rrtype = u.rrtype
        BY <2>1, <2>11, SentIsWanted DEF cs
    <2>14. CASE Listed(r)
        <3>1. PICK x \in ToSet(adjusted) : Names(toRecord(x), r)
            BY <2>13, <2>14
        <3>2. CASE Listed(t)
            <4>1. PICK y \in ToSet(adjusted) : Names(toRecord(y), t)
                BY <2>13, <3>2
            <4>. QED  BY <2>7, <2>12, <3>1, <4>1 DEF Names
        <3>3. CASE ~Listed(t)
            <4>1. t.rrtype \notin SupportedTypes
                BY <2>12, <2>14, <3>3 DEF Listed
            <4>2. PICK e \in ToSet(wanted) :
                     Canonical[e.dnsName] = r.name /\ e.recordType = "CNAME"
                BY <2>6, <2>12, <3>1 DEF Names
            <4>3. Beside(Canonical[e.dnsName], "CNAME")
                BY <2>12, <2>13, <3>3, <4>1, <4>2 DEF Beside
            <4>. QED  BY <4>2, <4>3 DEF Impossible
        <3>. QED  BY <3>2, <3>3
    <2>15. CASE ~Listed(r)
        <3>1. r.name \notin DOMAIN Canonical
            BY <2>12, <2>15 DEF Listed, SupportedTypes
        <3>2. ~Listed(t)
            BY <2>12, <3>1 DEF Listed
        <3>. QED  BY <2>2, <2>12, <2>13, <2>15, <3>2 DEF CnameAlone
    <2>. QED  BY <2>14, <2>15
<1>2. Inv /\ [Next]_vars
         => [PostPlan /\ quiet /\ answer' = 400 /\ failure' = Null
                => \E e \in ToSet(wanted) : Impossible(e)]_vars
    BY <1>1
<1>. QED  BY <1>2, InvIsInductive, PTL DEF Spec, RefusesOnlyTheImpossible

=============================================================================
