------------------------------- MODULE Exchange -------------------------------
(***************************************************************************)
(* What ExternalDNS and DPF see of the webhook, record by record, on one   *)
(* zone: ExternalDNS reads the records (GET /records), has those it wants  *)
(* adjusted (POST /adjustendpoints), and posts the difference (POST        *)
(* /records), for ever.  Records of the zone are those of ZoneMerge, whose *)
(* edit runs inside Apply; DPF and ExternalDNS are modelled from what the  *)
(* comments of the repository say of them.                                 *)
(***************************************************************************)
EXTENDS RecordFormat, Classify

CONSTANTS
    Word,           \* the texts of TXT records
    Wishes,         \* what ExternalDNS may want: sequences of endpoints
    RawChanges,     \* what other clients may post, without adjusting it
    Zones,          \* what others may make of the zone
    Failures        \* of DPF: [cause, marks, status]

Texts == [word : Word, backslash : {"none", "single", "pair"}]

TXTValue == { v \in TXTValues(Texts) : v.closed }

ASSUME NullAssumption ==
    Null \notin Int \union {{"managed-by"}} /\ Null \notin Failures

(***************************************************************************)
(* ExternalDNS wants one endpoint per name and type.                       *)
(***************************************************************************)
ASSUME WishesAssumption ==
    \A w \in Wishes :
        /\ w \in Seq(ToSet(w))
        /\ \A e \in ToSet(w) :
              /\ e.recordTTL \in Int
              /\ e.recordType = "TXT" => e.targets \in Seq(TXTValues(Texts))
        /\ \A i, j \in DOMAIN w :
              Readable(w[i]) /\ Readable(w[j])
              /\ toRecord(w[i]).name = toRecord(w[j]).name
              /\ w[i].recordType = w[j].recordType => i = j

(***************************************************************************)
(* DPF refuses a set with a record it cannot store (FR-030 to FR-033).     *)
(***************************************************************************)
Fields  == [MX |-> 2, SRV |-> 4]
Numbers == [MX |-> 1, SRV |-> 3]

NumbersFit(rrtype, v) ==
    /\ v.fields = Fields[rrtype]
    /\ \A i \in 1 .. Numbers[rrtype] : v.numbers[i] \in 0 .. 65535

Storable(r) ==
    /\ r.ttl \in {Null} \union (ttlMin .. ttlMax)
    /\ r.rrtype \in {"A", "AAAA"} => r.name \notin Underscored
    /\ r.rrtype = "CNAME" => Len(r.rdata) = 1
    /\ r.rrtype = "TXT" =>
          \A v \in ToSet(r.rdata) : v.quotes /\ v.strings <= v.segments
    /\ r.rrtype \in DOMAIN Fields =>
          \A v \in ToSet(r.rdata) : NumbersFit(r.rrtype, v)

CnameAlone(set) ==
    \A r, s \in ToSet(set) :
        r.name = s.name /\ r.rrtype = "CNAME" => s.rrtype = "CNAME"

Accepted(set) == CnameAlone(set) /\ \A r \in ToSet(set) : Storable(r)

\* What others may make of the zone is something DPF stores and spells.
Published(set) ==
    /\ set \in Seq(ToSet(set))
    /\ Accepted(set)
    /\ \A r \in ToSet(set) :
          /\ r = [name |-> r.name, rrtype |-> r.rrtype, ttl |-> r.ttl,
                  rdata |-> r.rdata, labels |-> r.labels,
                  description |-> r.description]
          /\ r.name \in DOMAIN Canonical => Canonical[r.name] = r.name
          /\ r.rrtype = "TXT" => ToSet(r.rdata) \subseteq TXTValue
    /\ \A i, j \in DOMAIN set :
          set[i].name = set[j].name /\ set[i].rrtype = set[j].rrtype => i = j

ASSUME ZonesAssumption == \A set \in Zones : Published(set)

(***************************************************************************)
(* The failures of DPF by their cause: what errors.Is finds in the error,  *)
(* and the status of the answer, where it matters.  Cause locked is what   *)
(* the failure has become once the limit of the lock wait is over: Apply   *)
(* (dpf/apply.go, wait.err) puts ErrStillLocked in the place of whatever   *)
(* else DPF failed with by then, a lasting cause included.                 *)
(***************************************************************************)
Found ==
    [token |-> {"token"}, noSuchZone |-> {"noSuchZone"},
     labelLimit |-> {"labelLimit"}, locked |-> {"temporary", "stillLock"},
     lockLost |-> {"notLockHolder", "context"}, cut |-> {"context"},
     unreachable |-> {"network"}, refused |-> {}, slow |-> {},
     tooMany |-> {}, down |-> {}]

Answered(cause) ==
    CASE cause = "refused" -> 400 .. 499 \ {408, 429}
      [] cause = "slow" -> {408}
      [] cause = "tooMany" -> {429}
      [] cause = "down" -> 500 .. 599
      [] cause = "unreachable" -> {0}
      [] OTHER -> 0 .. 599

ASSUME FailuresAssumption ==
    \A f \in Failures :
        /\ f.cause \in DOMAIN Found
        /\ f.marks = Found[f.cause]
        /\ f.status \in Answered(f.cause)

(***************************************************************************)
(* Other clients may post anything, but do not delete what they create or  *)
(* update.                                                                 *)
(***************************************************************************)
ASSUME RawChangesAssumption ==
    \A c \in RawChanges :
        /\ c.create \in Seq(ToSet(c.create))
        /\ c.updateNew \in Seq(ToSet(c.updateNew))
        /\ c.delete \in Seq(ToSet(c.delete))
        /\ \A d \in ToSet(c.delete), e \in ToSet(c.create \o c.updateNew) :
              Readable(d) /\ Readable(e) =>
                 \/ toRecord(d).name # toRecord(e).name
                 \/ d.recordType # e.recordType

-----------------------------------------------------------------------------
normalizeValues ==
    [s \in Seq(TXTValue) |-> [i \in DOMAIN s |-> NormalizeTXT(s[i])]]

Edit == INSTANCE ZoneMerge WITH NormalizeValues <- normalizeValues

VARIABLES
    pc,             \* of ExternalDNS: "get", "adjust" or "post"
    wanted,         \* the endpoints it computed from its sources
    view,           \* what GET /records returned
    adjusted,       \* what POST /adjustendpoints returned
    zone,           \* the records DPF publishes
    quiet,          \* nobody else has changed the zone since GET
    settled,        \* nor since a POST that was answered with 204
    failure,        \* what DPF failed the last POST with, Null if it did not
    sent,           \* the records DPF was sent by it
    answer          \* its status code; 0 if there was none since GET

exchange == <<pc, wanted, view, adjusted>>
outcome  == <<failure, sent, answer>>
vars     == <<exchange, zone, quiet, settled, outcome>>

TypeOK ==
    /\ pc \in {"get", "adjust", "post"}
    /\ wanted \in Wishes
    /\ \A e \in ToSet(view \o adjusted) :
          /\ DOMAIN e = {"dnsName", "recordType", "recordTTL", "targets"}
          /\ e.recordType \in SupportedTypes
          /\ e.recordTTL \in ttlUnset .. ttlMax
    /\ \A r \in ToSet(zone \o sent) :
          /\ DOMAIN r = {"name", "rrtype", "ttl", "rdata", "labels",
                         "description"}
          /\ r.ttl \in {Null} \union (ttlMin .. ttlMax)
    /\ quiet \in BOOLEAN /\ settled \in BOOLEAN
    /\ failure \in Failures \union {Null}
    /\ answer \in {0, 204, 400, 500}

Init ==
    /\ pc = "get"
    /\ wanted \in Wishes
    /\ view = <<>>
    /\ adjusted = <<>>
    /\ zone \in Zones
    /\ quiet = FALSE
    /\ settled = FALSE
    /\ failure = Null
    /\ sent = <<>>
    /\ answer = 0

-----------------------------------------------------------------------------
(***************************************************************************)
(* ExternalDNS: names are compared as they are spelled, values as sets,    *)
(* and a TTL only if one is wanted.                                        *)
(***************************************************************************)
SameKey(e, f) == e.dnsName = f.dnsName /\ e.recordType = f.recordType

Differs(e, f) ==
    \/ ToSet(e.targets) # ToSet(f.targets)
    \/ e.recordTTL # ttlUnset /\ e.recordTTL # f.recordTTL

Plan ==
    [create    |-> SetToSeq({ e \in ToSet(adjusted) :
                       \A f \in ToSet(view) : ~SameKey(e, f) }),
     updateNew |-> SetToSeq({ e \in ToSet(adjusted) :
                       \E f \in ToSet(view) : SameKey(e, f) /\ Differs(e, f) }),
     delete    |-> SetToSeq({ f \in ToSet(view) :
                       \A e \in ToSet(adjusted) : ~SameKey(e, f) })]

NoChanges == [create |-> <<>>, updateNew |-> <<>>, delete |-> <<>>]

-----------------------------------------------------------------------------
\* The answer to a set DPF refuses, and an abort of the guard.
BadRequest == [marks |-> {}, status |-> 400]
Aborted == [marks |-> {}, status |-> 0]

-----------------------------------------------------------------------------
\* The last POST is remembered until the next step of somebody else.
Forget == failure' = Null /\ sent' = <<>> /\ answer' = 0

GetRecords ==
    /\ pc = "get"
    /\ LET records == ListRecords(zone)
       IN  view' = [i \in DOMAIN records |-> toEndpoint(records[i])]
    /\ quiet' = TRUE
    /\ pc' = "adjust"
    /\ Forget
    /\ UNCHANGED <<wanted, adjusted, zone, settled>>

\* The answer is 400 if one endpoint cannot be read; there is no plan then.
PostAdjustEndpoints ==
    /\ pc = "adjust"
    /\ IF \A e \in ToSet(wanted) : Readable(e)
       THEN /\ adjusted' = adjustEndpoints(wanted)
            /\ pc' = "post"
       ELSE /\ UNCHANGED adjusted
            /\ pc' = "get"
    /\ UNCHANGED <<wanted, view, zone, quiet, settled, outcome>>

\* The whole of POST /records up to its answer, as long as DPF works.
Reply(status) ==
    /\ answer' = status
    /\ UNCHANGED <<zone, sent>>

Edited(cs) ==
    LET edit == Edit!Outcome(zone, cs)
        set  == Edit!Submission(zone, cs)
    IN  \/ edit = "refused" /\ Reply(400)
        \/ edit = "aborted" /\ Reply(statusFor(Classify(Aborted)))
        \/ edit = "skipped" /\ Reply(204)
        \/ edit = "submitted"
           /\ sent' = set
           /\ IF Accepted(set)
              THEN zone' = set /\ answer' = 204
              ELSE UNCHANGED zone /\ answer' = statusFor(Classify(BadRequest))

postRecords(c) ==
    IF /\ \A e \in ToSet(c.create \o c.updateNew \o c.delete) : Readable(e)
       /\ ValidateFormat(toChangeSet(c))
    THEN \/ failure' = Null /\ Edited(toChangeSet(c))
         \/ \E f \in Failures :
               /\ failure' = f
               /\ Reply(statusFor(Classify([marks  |-> f.marks,
                                            status |-> f.status])))
    ELSE failure' = Null /\ Reply(400)

\* Nothing is posted if there is nothing to do.
PostPlan ==
    /\ pc = "post"
    /\ pc' = "get" /\ view' = <<>> /\ adjusted' = <<>>
    /\ \/ /\ Plan # NoChanges
          /\ postRecords(Plan)
          /\ settled' = (quiet /\ answer' = 204)
       \/ /\ Plan = NoChanges
          /\ UNCHANGED <<zone, settled, outcome>>
    /\ UNCHANGED <<wanted, quiet>>

\* Bound: on a zone as others made it, between two rounds of ExternalDNS.
PostRaw ==
    /\ pc = "get" /\ zone \in Zones
    /\ \E c \in RawChanges : postRecords(c)
    /\ quiet' = FALSE
    /\ settled' = FALSE
    /\ UNCHANGED exchange

\* Bound: not while ExternalDNS waits for the adjusted endpoints.
OthersEdit ==
    /\ pc # "adjust"
    /\ zone' \in Zones
    /\ quiet' = FALSE
    /\ settled' = FALSE
    /\ Forget
    /\ UNCHANGED exchange

SourcesChange ==
    /\ pc = "get"
    /\ wanted' \in Wishes
    /\ settled' = FALSE
    /\ Forget
    /\ UNCHANGED <<pc, view, adjusted, zone, quiet>>

Next ==
    \/ GetRecords \/ PostAdjustEndpoints \/ PostPlan
    \/ PostRaw \/ OthersEdit \/ SourcesChange

Spec == Init /\ [][Next]_vars

-----------------------------------------------------------------------------
(***************************************************************************)
(* Once a POST has succeeded and nobody has changed anything since, the    *)
(* records GET returns are those ExternalDNS wants as they were adjusted,  *)
(* in its own spelling: the same difference is not found for ever          *)
(* (SC-007; Adjust, NormalizeTXT, Unqualified, toTTL).                     *)
(***************************************************************************)
NothingLeftToDo == pc = "post" /\ settled => Plan = NoChanges

(***************************************************************************)
(* Adjusting what was adjusted changes nothing (FR-015; Adjust).           *)
(***************************************************************************)
AdjustIsIdempotent == pc = "post" => adjustEndpoints(adjusted) = adjusted

(***************************************************************************)
(* Whatever is posted, adjusted or not, and whatever the zone holds, no    *)
(* record is sent that DPF cannot store (FR-030 to FR-033: ValidateFormat  *)
(* refuses it, or merge brings it into shape).                             *)
(***************************************************************************)
SentIsStorable == \A r \in ToSet(sent) : Storable(r)

(***************************************************************************)
(* What is published in the end is what was wanted: quoting and splitting  *)
(* do not change the text of a TXT record (FR-032a, FR-032b; parseTXT).    *)
(***************************************************************************)
Text(v) == v.text

TextIsKept ==
    settled =>
        \A e \in ToSet(wanted) : \E r \in ToSet(zone) :
            /\ r.name = Canonical[e.dnsName] /\ r.rrtype = e.recordType
            /\ IF r.rrtype = "TXT"
               THEN { Text(v) : v \in ToSet(r.rdata) }
                       = { Text(v) : v \in ToSet(e.targets) }
               ELSE ToSet(r.rdata) = ToSet(e.targets)

(***************************************************************************)
(* ExternalDNS is told to give up exactly if DPF fails for a cause that    *)
(* lasts, however the error was wrapped on its way (Classify, statusFor);  *)
(* without a failure of DPF it is never told to try again.  A cause is     *)
(* what is left of it by Apply: see Found for cause locked.                *)
(***************************************************************************)
LastingCauses == {"token", "noSuchZone", "labelLimit", "refused"}

AnswerTellsWhetherToRetry ==
    answer # 0 =>
        IF failure = Null THEN answer # 500
        ELSE answer = 400 <=> failure.cause \in LastingCauses

(***************************************************************************)
(* What can be adjusted is adjusted: a plan is refused only if it asks for *)
(* a record that cannot be stored, whatever TTL, quotes and lengths it has *)
(* (FR-014, FR-032), or for a CNAME beside another type.                   *)
(***************************************************************************)
Beside(name, rrtype) ==
    \/ \E e \in ToSet(wanted) :
          Canonical[e.dnsName] = name /\ e.recordType # rrtype
    \/ \E r \in ToSet(zone) : r.name = name /\ r.rrtype \notin SupportedTypes

Impossible(e) ==
    LET name == Canonical[e.dnsName]
    IN  \/ e.recordType \in {"A", "AAAA"} /\ name \in Underscored
        \/ /\ e.recordType = "CNAME"
           /\ Len(e.targets) # 1 \/ Beside(name, "CNAME")
        \/ e.recordType = "TXT" /\ \E v \in ToSet(e.targets) : ~v.closed
        \/ /\ e.recordType \in DOMAIN Fields
           /\ \E v \in ToSet(e.targets) : ~NumbersFit(e.recordType, v)

RefusesOnlyTheImpossible ==
    [][PostPlan /\ quiet /\ answer' = 400 /\ failure' = Null
          => \E e \in ToSet(wanted) : Impossible(e)]_vars

=============================================================================
