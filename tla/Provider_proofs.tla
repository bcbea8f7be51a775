--------------------------- MODULE Provider_proofs ---------------------------
(***************************************************************************)
(* Proofs about DnsName and Provider, for every set of names, zones and    *)
(* scopes.  First, which zone owns a name is well defined: the longest     *)
(* match exists, it is one zone whatever order the zones are listed in,    *)
(* and it is found among the zones that GET /records looks at.             *)
(***************************************************************************)
EXTENDS Provider, SequenceTheorems, WellFoundedInduction, TLAPS

(***************************************************************************)
(* However a name is spelled, what Parse makes of it is spelled in one     *)
(* way, parses to itself, and comes back as itself after it was spelled    *)
(* for ExternalDNS (Parse, WithoutDot): what RecordFormat and ZoneMerge    *)
(* assume of their names.  The root would not come back.                   *)
(***************************************************************************)
THEOREM ParsedNamesComeBack ==
    ASSUME NEW Labels, NEW s \in Spellings(Labels), Parses(s)
    PROVE  LET n == Parse(s)
           IN  /\ \A t \in Spellings(Labels) :
                     t.labels = s.labels => Parse(t) = n
               /\ Parses(n) /\ Parse(n) = n
               /\ IF s.labels = <<>> THEN ~Parses(WithoutDot(n))
                  ELSE Parses(WithoutDot(n)) /\ Parse(WithoutDot(n)) = n
  BY DEF Spellings, Parses, Parse, WithoutDot

\* Two domains of one length that contain a name are the same: each is the
\* beginning of the name.
LEMMA SameLengthSameName ==
    ASSUME NEW Labels, NEW d \in Seq(Labels), NEW e \in Seq(Labels),
           NEW name \in Seq(Labels),
           Contains(d, name), Contains(e, name), Len(d) = Len(e)
    PROVE  d = e
  BY SeqEqual DEF Contains

\* Of two domains that contain a name, the one with fewer labels contains the
\* other.
LEMMA ShorterContainsLonger ==
    ASSUME NEW Labels, NEW d \in Seq(Labels), NEW e \in Seq(Labels),
           NEW name \in Seq(Labels),
           Contains(d, name), Contains(e, name), Len(d) <= Len(e)
    PROVE  Contains(d, e)
  BY LenProperties DEF Contains

\* A set of lengths that has a bound has a greatest one.
LEMMA GreatestLength ==
    ASSUME NEW Labels, NEW N \in Nat, NEW D, D \subseteq Seq(Labels), D # {},
           \A d \in D : Len(d) <= N
    PROVE  \E d \in D : \A e \in D : Len(e) <= Len(d)
  <1> DEFINE Short == { N - Len(d) : d \in D }
             Less  == OpToRel(<, Nat)
  <1>1. Short \subseteq Nat /\ Short # {}
    BY LenProperties
  <1>2. PICK m \in Short : \A k \in Short : ~(<<k, m>> \in Less)
    <2> HIDE DEF Short, Less
    <2>1. IsWellFoundedOn(Less, Nat)
      BY NatLessThanWellFounded DEF Less
    <2> QED BY <1>1, <2>1, WFMin
  <1>3. \A k \in Short : m <= k
    <2>1. \A k \in Nat : m \in Nat /\ ~(<<k, m>> \in Less) => m <= k
      BY DEF OpToRel
    <2> QED BY <1>1, <1>2, <2>1
  <1>4. PICK d \in D : m = N - Len(d)
    OBVIOUS
  <1>5. ASSUME NEW e \in D PROVE Len(e) <= Len(d)
    <2>1. m <= N - Len(e)
      BY <1>3
    <2>2. Len(d) \in Nat /\ Len(e) \in Nat
      BY LenProperties
    <2> HIDE DEF Short, Less
    <2> QED BY <1>4, <2>1, <2>2
  <1> QED BY <1>5

(***************************************************************************)
(* LongestMatch is defined wherever something matches, and it is one of    *)
(* the domains that match.                                                 *)
(***************************************************************************)
THEOREM LongestMatchExists ==
    ASSUME NEW Labels,
           NEW domains \in SUBSET Seq(Labels), NEW name \in Seq(Labels),
           InScope(domains, name)
    PROVE  /\ LongestMatch(domains, name) \in domains
           /\ Contains(LongestMatch(domains, name), name)
           /\ \A e \in domains :
                 Contains(e, name) => Len(e) <= Len(LongestMatch(domains, name))
  <1> DEFINE D == Candidates(domains, name)
  <1>1. D # {} /\ D \subseteq Seq(Labels)
    BY DEF InScope, Candidates
  <1>2. \A d \in D : Len(d) <= Len(name)
    BY DEF Candidates, Contains
  <1>3. \E d \in D : \A e \in D : Len(e) <= Len(d)
    <2> HIDE DEF D
    <2> QED BY <1>1, <1>2, GreatestLength, LenProperties
  <1> QED BY <1>3 DEF LongestMatch, Candidates

(***************************************************************************)
(* It is the only such domain: the zone that owns a name does not depend   *)
(* on the order in which DPF lists the zones (FR-041).                     *)
(***************************************************************************)
THEOREM LongestMatchIsUnique ==
    ASSUME NEW Labels,
           NEW domains \in SUBSET Seq(Labels), NEW name \in Seq(Labels),
           NEW d \in domains, Contains(d, name),
           \A e \in domains : Contains(e, name) => Len(e) <= Len(d)
    PROVE  d = LongestMatch(domains, name)
  <1>1. InScope(domains, name)
    BY DEF InScope, Candidates
  <1> DEFINE m == LongestMatch(domains, name)
  <1>2. m \in domains /\ Contains(m, name) /\ Len(d) <= Len(m)
    BY <1>1, LongestMatchExists
  <1>3. Len(d) = Len(m)
    BY <1>2, LenProperties
  <1> QED BY <1>2, <1>3, SameLengthSameName

(***************************************************************************)
(* Every name has one owner at most, and has one if any zone contains it.  *)
(***************************************************************************)
THEOREM OneOwner ==
    ASSUME NEW Labels, NEW listed \in SUBSET Seq(Labels), NEW name \in Seq(Labels)
    PROVE  /\ \A y, z \in listed :
                 OwnedBy(listed, name, y) /\ OwnedBy(listed, name, z) => y = z
           /\ HasOwner(listed, name)
                 => \E z \in listed : OwnedBy(listed, name, z) /\ Contains(z, name)
  BY LongestMatchExists DEF OwnedBy, HasOwner, Owner

(***************************************************************************)
(* Reading only the relevant zones loses nothing: the owner of a name in   *)
(* scope is relevant (Provider.zoneIsRelevant).                            *)
(***************************************************************************)
THEOREM RelevantSuffices ==
    ASSUME NEW Labels, NEW listed \in SUBSET Seq(Labels), NEW name \in Seq(Labels),
           NEW domains \in SUBSET Seq(Labels), NEW z \in listed,
           InScope(domains, name), OwnedBy(listed, name, z)
    PROVE  zoneIsRelevant(domains, z)
  <1>1. PICK d \in domains : Contains(d, name)
    BY DEF InScope, Candidates
  <1>2. Contains(z, name)
    BY LongestMatchExists DEF OwnedBy, HasOwner, Owner
  <1>3. Len(d) <= Len(z) \/ Len(z) <= Len(d)
    BY LenProperties
  <1> QED BY <1>1, <1>2, <1>3, ShorterContainsLonger DEF zoneIsRelevant

-----------------------------------------------------------------------------
(***************************************************************************)
(* The inductive invariant.  What GET has gathered is owned by the zone it *)
(* came from, as the zones were listed; a request is answered when it is   *)
(* over; what is to be created and what is to be deleted are different     *)
(* names.                                                                  *)
(***************************************************************************)
SeenIsOwned ==
    pc = "reading" => \A r \in seen : OwnedBy(index, r.name, r.zone)

Unanswered == pc # "idle" => answer = "none"

Disjoint == creates \intersect deletes = {}

BaseInv == TypeOK /\ SeenIsOwned /\ Unanswered /\ Disjoint /\ ReadNamesOnce

(***************************************************************************)
(* The zones a change set is sent to are zones of DPF.                     *)
(***************************************************************************)
LEMMA OwnerIsZone ==
    ASSUME TypeOK, NEW n \in Name, HasOwner(zones, n)
    PROVE  Owner(zones, n) \in zones
<1>1. zones \in SUBSET Seq(Label) /\ n \in Seq(Label)
  BY NameAssumption DEF TypeOK
<1>. QED BY <1>1, LongestMatchExists DEF HasOwner, Owner

LEMMA RemainingAreNames ==
    ASSUME TypeOK
    PROVE  Remaining \subseteq Name
BY DEF TypeOK, Remaining, filterToScope

(***************************************************************************)
(* What a step does to the names one zone holds, and that the step to one  *)
(* zone leaves the others alone.                                           *)
(***************************************************************************)
LEMMA ChangedIsContent ==
    ASSUME TypeOK, NEW z \in ZoneName, Changed(z)
    PROVE  /\ content' \in [ZoneName -> SUBSET Name]
           /\ content'[z] =
                 (content[z] \ Group(z, deletes)) \union Group(z, creates)
           /\ \A y \in ZoneName : y # z => content'[y] = content[y]
<1>1. Group(z, creates) \subseteq Name
  BY DEF TypeOK, Group, filterToScope
<1>. QED BY <1>1 DEF TypeOK, Changed

(***************************************************************************)
(* The type invariant of Provider, and the parts it is proved with.        *)
(***************************************************************************)
LEMMA BaseInductive == Spec => []BaseInv
<1>1. Init => BaseInv
  BY DEF Init, BaseInv, TypeOK, SeenIsOwned, Unanswered, Disjoint,
         ReadNamesOnce
<1>2. BaseInv /\ [Next]_vars => BaseInv'
  <2> SUFFICES ASSUME BaseInv, [Next]_vars PROVE BaseInv'
    OBVIOUS
  <2> USE DEF BaseInv, TypeOK, SeenIsOwned, Unanswered, Disjoint,
              ReadNamesOnce, dpf
  <2>1. CASE GetRecords
    BY <2>1 DEF GetRecords
  <2>2. ASSUME NEW z \in ZoneName, ReadZone(z) PROVE BaseInv'
    <3>1. \A r \in seen' : OwnedBy(index, r.name, r.zone)
      BY <2>2 DEF ReadZone
    <3>2. seen' \subseteq [name : Name, zone : ZoneName]
      BY <2>2 DEF ReadZone
    <3>3. ReadNamesOnce'
      BY <3>1, <3>2 DEF OwnedBy
    <3>. QED BY <2>2, <3>1, <3>2, <3>3 DEF ReadZone
  <2>3. CASE ReadFails
    BY <2>3 DEF ReadFails
  <2>4. CASE Plan
    BY <2>4 DEF Plan, SeenNames
  <2>5. CASE PostNothing
    BY <2>5 DEF PostNothing
  <2>6. CASE PostRecords
    <3>1. left' \subseteq zones
      BY <2>6, OwnerIsZone, RemainingAreNames DEF PostRecords
    <3>. QED BY <2>6, <3>1 DEF PostRecords
  <2>7. CASE PostFails
    BY <2>7 DEF PostFails
  <2>8. ASSUME NEW z \in ZoneName, ApplyZone(z) PROVE BaseInv'
    <3>1. content' \in [ZoneName -> SUBSET Name]
      BY <2>8, ChangedIsContent DEF ApplyZone
    <3>. QED BY <2>8, <3>1 DEF ApplyZone
  <2>9. ASSUME NEW z \in ZoneName, ApplyFails(z) PROVE BaseInv'
    <3>1. content' \in [ZoneName -> SUBSET Name]
      BY <2>9, ChangedIsContent DEF ApplyFails
    <3>. QED BY <2>9, <3>1 DEF ApplyFails
  <2>10. CASE PostDone
    BY <2>10 DEF PostDone
  <2>11. ASSUME NEW z \in ZoneName, ZoneCreated(z) PROVE BaseInv'
    BY <2>11 DEF ZoneCreated, Below
  <2>12. ASSUME NEW z \in ZoneName, OthersEdit(z) PROVE BaseInv'
    BY <2>12 DEF OthersEdit, Below
  <2>13. CASE UNCHANGED vars
    BY <2>13 DEF vars
  <2>. QED
    BY <2>1, <2>2, <2>3, <2>4, <2>5, <2>6, <2>7, <2>8, <2>9, <2>10, <2>11,
       <2>12, <2>13 DEF Next, Get, Post, Failure
<1>. QED BY <1>1, <1>2, PTL DEF Spec

(***************************************************************************)
(* Every variable of Provider keeps its type; in particular, only zones    *)
(* that DPF has are read and written.                                      *)
(***************************************************************************)
THEOREM TypeCorrect == Spec => []TypeOK
<1>1. BaseInv => TypeOK
  BY DEF BaseInv
<1>. QED BY <1>1, BaseInductive, PTL

(***************************************************************************)
(* GET never returns two records of one name, whatever zones are created   *)
(* and whatever is edited between the reads of two zones (FR-044).         *)
(***************************************************************************)
THEOREM NamesAreReadOnce == Spec => []ReadNamesOnce
<1>1. BaseInv => ReadNamesOnce
  BY DEF BaseInv
<1>. QED BY <1>1, BaseInductive, PTL

-----------------------------------------------------------------------------
(***************************************************************************)
(* Reading.  As long as nobody interferes, what GET has gathered is what   *)
(* the zones it has read own and hold.                                     *)
(***************************************************************************)
FreshIndex ==
    quiet =>
        /\ pc = "reading" => index = IF scope = {} THEN {} ELSE zones
        /\ pc = "applying" => index = zones

SeenSoFar ==
    quiet /\ pc = "reading" =>
        seen = { r \in [name : Name, zone : ZoneName] :
                    /\ r.zone \in index \ left
                    /\ zoneIsRelevant(scope, r.zone)
                    /\ r.name \in content[r.zone]
                    /\ InScope(scope, r.name)
                    /\ OwnedBy(index, r.name, r.zone) }

LeftIsRelevant ==
    pc = "reading" => \A z \in left : zoneIsRelevant(scope, z)

ReadInv == FreshIndex /\ SeenSoFar /\ LeftIsRelevant /\ ReadIsExact

(***************************************************************************)
(* When every zone has been read, nothing is missing and nothing is there  *)
(* that should not be: a zone that was not asked owns no name in scope.    *)
(***************************************************************************)
LEMMA AllReadIsExact ==
    ASSUME BaseInv, ReadInv, pc = "reading", quiet, left = {}
    PROVE  seen = { r \in [name : Name, zone : ZoneName] :
                       /\ InScope(scope, r.name)
                       /\ Authoritative(r.name)
                       /\ r.zone = Owner(zones, r.name) }
<1> USE DEF BaseInv, TypeOK
<1>1. CASE scope = {}
  <2>1. \A n \in Name : ~InScope(scope, n)
    BY <1>1 DEF InScope, Candidates
  <2>. QED BY <2>1 DEF ReadInv, SeenSoFar
<1>2. CASE scope # {}
  <2>1. index = zones
    BY <1>2 DEF ReadInv, FreshIndex
  <2>2. \A n \in Name, z \in zones :
           InScope(scope, n) /\ OwnedBy(zones, n, z) => zoneIsRelevant(scope, z)
    BY RelevantSuffices, NameAssumption, ScopeAssumption
  <2>3. \A n \in Name : HasOwner(zones, n) => Owner(zones, n) \in zones
    BY OwnerIsZone
  <2>. QED BY <2>1, <2>2, <2>3 DEF ReadInv, SeenSoFar, OwnedBy, Authoritative
<1>. QED BY <1>1, <1>2

LEMMA ReadInvInductive == Spec => []ReadInv
<1>1. Init => ReadInv
  BY DEF Init, ReadInv, FreshIndex, SeenSoFar, LeftIsRelevant, ReadIsExact
<1>2. BaseInv /\ ReadInv /\ [Next]_vars => ReadInv'
  <2> SUFFICES ASSUME BaseInv, ReadInv, [Next]_vars PROVE ReadInv'
    OBVIOUS
  <2> USE DEF BaseInv, TypeOK, ReadInv, FreshIndex, SeenSoFar,
              LeftIsRelevant, ReadIsExact, Authoritative, dpf
  <2>1. CASE GetRecords
    BY <2>1 DEF GetRecords
  <2>2. ASSUME NEW z \in ZoneName, ReadZone(z) PROVE ReadInv'
    <3>1. ASSUME quiet
          PROVE  seen' = { r \in [name : Name, zone : ZoneName] :
                             /\ r.zone \in index \ left'
                             /\ zoneIsRelevant(scope, r.zone)
                             /\ r.name \in content[r.zone]
                             /\ InScope(scope, r.name)
                             /\ OwnedBy(index, r.name, r.zone) }
      <4>1. z \in index /\ zoneIsRelevant(scope, z) /\ content[z] \subseteq Name
        BY <2>2 DEF ReadZone
      <4>. QED BY <2>2, <3>1, <4>1 DEF ReadZone
    <3>. QED BY <2>2, <3>1 DEF ReadZone
  <2>3. CASE ReadFails
    BY <2>3 DEF ReadFails
  <2>4. CASE Plan
    BY <2>4, AllReadIsExact DEF Plan
  <2>5. CASE PostNothing
    BY <2>5 DEF PostNothing
  <2>6. CASE PostRecords
    BY <2>6 DEF PostRecords
  <2>7. CASE PostFails
    BY <2>7 DEF PostFails
  <2>8. ASSUME NEW z \in ZoneName, ApplyZone(z) PROVE ReadInv'
    BY <2>8 DEF ApplyZone
  <2>9. ASSUME NEW z \in ZoneName, ApplyFails(z) PROVE ReadInv'
    BY <2>9 DEF ApplyFails
  <2>10. CASE PostDone
    BY <2>10 DEF PostDone
  <2>11. ASSUME NEW z \in ZoneName, ZoneCreated(z) PROVE ReadInv'
    BY <2>11 DEF ZoneCreated
  <2>12. ASSUME NEW z \in ZoneName, OthersEdit(z) PROVE ReadInv'
    BY <2>12 DEF OthersEdit
  <2>13. CASE UNCHANGED vars
    BY <2>13 DEF vars
  <2>. QED
    BY <2>1, <2>2, <2>3, <2>4, <2>5, <2>6, <2>7, <2>8, <2>9, <2>10, <2>11,
       <2>12, <2>13 DEF Next, Get, Post, Failure
<1>. QED BY <1>1, <1>2, BaseInductive, PTL DEF Spec

(***************************************************************************)
(* If nobody interferes, GET returns exactly the authoritative records in  *)
(* scope: neither the zones that are passed over nor the records that are  *)
(* left out are missing.                                                   *)
(***************************************************************************)
THEOREM ReadingIsExact == Spec => []ReadIsExact
<1>1. ReadInv => ReadIsExact
  BY DEF ReadInv
<1>. QED BY <1>1, ReadInvInductive, PTL

-----------------------------------------------------------------------------
(***************************************************************************)
(* Writing.  As long as nobody interferes, the names whose zone is no      *)
(* longer to be changed are as they were asked for.                        *)
(***************************************************************************)
AppliedSoFar ==
    quiet /\ pc = "applying" =>
        \A n \in Remaining :
            /\ HasOwner(zones, n)
            /\ Owner(zones, n) \notin left
                  => (n \in content[Owner(zones, n)] <=> n \in creates)

ApplyInv == AppliedSoFar /\ OkMeansEverywhere

LEMMA ApplyInvInductive == Spec => []ApplyInv
<1>1. Init => ApplyInv
  BY DEF Init, ApplyInv, AppliedSoFar, OkMeansEverywhere
<1>2. BaseInv /\ ReadInv /\ ApplyInv /\ [Next]_vars => ApplyInv'
  <2> SUFFICES ASSUME BaseInv, ReadInv, ApplyInv, [Next]_vars PROVE ApplyInv'
    OBVIOUS
  <2> USE DEF BaseInv, TypeOK, Unanswered, ApplyInv, AppliedSoFar,
              OkMeansEverywhere, Authoritative, Remaining, filterToScope, dpf
  <2>1. CASE GetRecords
    BY <2>1 DEF GetRecords
  <2>2. ASSUME NEW z \in ZoneName, ReadZone(z) PROVE ApplyInv'
    BY <2>2 DEF ReadZone
  <2>3. CASE ReadFails
    BY <2>3 DEF ReadFails
  <2>4. CASE Plan
    BY <2>4 DEF Plan
  <2>5. CASE PostNothing
    BY <2>5 DEF PostNothing
  <2>6. CASE PostRecords
    BY <2>6 DEF PostRecords
  <2>7. CASE PostFails
    BY <2>7 DEF PostFails
  <2>8. ASSUME NEW z \in ZoneName, ApplyZone(z) PROVE ApplyInv'
    <3>1. /\ content'[z] =
                (content[z] \ Group(z, deletes)) \union Group(z, creates)
          /\ \A y \in ZoneName : y # z => content'[y] = content[y]
      BY <2>8, ChangedIsContent DEF ApplyZone
    <3>2. ASSUME quiet, pc = "applying", NEW n \in Remaining,
                 Owner(zones, n) \notin left'
          PROVE  n \in content'[Owner(zones, n)] <=> n \in creates
      <4>1. HasOwner(zones, n) /\ Owner(zones, n) \in ZoneName
        BY <3>2, OwnerIsZone, RemainingAreNames
      <4>2. CASE Owner(zones, n) # z
        BY <2>8, <3>1, <3>2, <4>1, <4>2 DEF ApplyZone
      <4>3. CASE Owner(zones, n) = z
        <5>1. OwnedBy(index, n, z)
          BY <3>2, <4>1, <4>3 DEF ReadInv, FreshIndex, OwnedBy
        <5>. QED BY <3>1, <3>2, <4>3, <5>1 DEF Group, Disjoint
      <4>. QED BY <4>2, <4>3
    <3>. QED BY <2>8, <3>2 DEF ApplyZone
  <2>9. ASSUME NEW z \in ZoneName, ApplyFails(z) PROVE ApplyInv'
    BY <2>9 DEF ApplyFails
  <2>10. CASE PostDone
    BY <2>10 DEF PostDone
  <2>11. ASSUME NEW z \in ZoneName, ZoneCreated(z) PROVE ApplyInv'
    BY <2>11 DEF ZoneCreated
  <2>12. ASSUME NEW z \in ZoneName, OthersEdit(z) PROVE ApplyInv'
    BY <2>12 DEF OthersEdit
  <2>13. CASE UNCHANGED vars
    BY <2>13 DEF vars
  <2>. QED
    BY <2>1, <2>2, <2>3, <2>4, <2>5, <2>6, <2>7, <2>8, <2>9, <2>10, <2>11,
       <2>12, <2>13 DEF Next, Get, Post, Failure
<1>. QED BY <1>1, <1>2, BaseInductive, ReadInvInductive, PTL DEF Spec

(***************************************************************************)
(* Success of POST means success in every zone it concerned, unless others *)
(* changed DPF meanwhile (FR-012).                                         *)
(***************************************************************************)
THEOREM OkEverywhere == Spec => []OkMeansEverywhere
<1>1. ApplyInv => OkMeansEverywhere
  BY DEF ApplyInv
<1>. QED BY <1>1, ApplyInvInductive, PTL

-----------------------------------------------------------------------------
(***************************************************************************)
(* Which names a step of POST changes, and where: only the names of the    *)
(* group of one zone.                                                      *)
(***************************************************************************)
LEMMA OnlyTheGroupChanges ==
    ASSUME BaseInv, [Next]_vars, pc = "applying", left' # left,
           NEW y \in ZoneName, NEW n \in Name,
           (n \in content[y]) # (n \in content'[y])
    PROVE  /\ InScope(scope, n)
           /\ OwnedBy(index, n, y)
           /\ n \in content[y] => n \in deletes
           /\ n \in content'[y] => n \in creates
<1>1. PICK z \in ZoneName : ApplyZone(z) \/ ApplyFails(z)
  BY DEF Next, Get, Post, Failure, vars, GetRecords, ReadZone, ReadFails,
         Plan, PostNothing, PostRecords, PostFails, PostDone, ZoneCreated,
         OthersEdit
<1>2. Changed(z)
  BY <1>1 DEF ApplyZone, ApplyFails
<1>3. /\ content'[z] = (content[z] \ Group(z, deletes)) \union Group(z, creates)
      /\ y # z => content'[y] = content[y]
  BY <1>2, ChangedIsContent DEF BaseInv
<1>. QED BY <1>3 DEF Group, filterToScope

(***************************************************************************)
(* A request changes only what is in scope and was asked for, in the zone  *)
(* that owned it when the zones were listed, whatever others do (FR-043).  *)
(***************************************************************************)
THEOREM ScopeHolds == Spec => ScopeIsRespected
<1>1. BaseInv /\ [Next]_vars =>
         [pc = "applying" /\ left' # left =>
             \A z \in ZoneName, n \in Name :
                 (n \in content[z]) # (n \in content'[z]) =>
                     /\ InScope(scope, n)
                     /\ OwnedBy(index, n, z)
                     /\ n \in creates \union deletes]_vars
  BY OnlyTheGroupChanges
<1>. QED BY <1>1, BaseInductive, PTL DEF Spec, ScopeIsRespected

(***************************************************************************)
(* As long as nobody interferes, the zones GET and POST list are the same, *)
(* and so is the owner of every name.                                      *)
(***************************************************************************)
OwnersAgree ==
    quiet =>
        /\ pc = "reading" => index = zones \/ left = {}
        /\ pc = "applying" => index = zones
        /\ \A r \in seen : OwnedBy(zones, r.name, r.zone)
        /\ deletes \subseteq SeenNames

LEMMA OwnersAgreeInductive == Spec => []OwnersAgree
<1>1. Init => OwnersAgree
  BY DEF Init, OwnersAgree, SeenNames
<1>2. BaseInv /\ OwnersAgree /\ [Next]_vars => OwnersAgree'
  <2> SUFFICES ASSUME BaseInv, OwnersAgree, [Next]_vars PROVE OwnersAgree'
    OBVIOUS
  <2> USE DEF BaseInv, TypeOK, OwnersAgree, SeenNames, dpf
  <2>1. CASE GetRecords
    <3>1. scope = {} => left' = {}
      BY <2>1 DEF GetRecords
    <3>. QED BY <2>1, <3>1 DEF GetRecords
  <2>2. ASSUME NEW z \in ZoneName, ReadZone(z), quiet PROVE OwnersAgree'
    <3>1. index = zones
      BY <2>2 DEF ReadZone
    <3>2. \A r \in seen' : OwnedBy(zones, r.name, r.zone)
      BY <2>2, <3>1 DEF ReadZone
    <3>3. seen \subseteq seen'
      BY <2>2 DEF ReadZone
    <3>. QED BY <2>2, <3>1, <3>2, <3>3 DEF ReadZone
  <2>14. ASSUME NEW z \in ZoneName, ReadZone(z), ~quiet PROVE OwnersAgree'
    BY <2>14 DEF ReadZone
  <2>3. CASE ReadFails
    BY <2>3 DEF ReadFails
  <2>4. CASE Plan
    BY <2>4 DEF Plan
  <2>5. CASE PostNothing
    BY <2>5 DEF PostNothing
  <2>6. CASE PostRecords
    BY <2>6 DEF PostRecords
  <2>7. CASE PostFails
    BY <2>7 DEF PostFails
  <2>8. ASSUME NEW z \in ZoneName, ApplyZone(z) PROVE OwnersAgree'
    BY <2>8 DEF ApplyZone
  <2>9. ASSUME NEW z \in ZoneName, ApplyFails(z) PROVE OwnersAgree'
    BY <2>9 DEF ApplyFails
  <2>10. CASE PostDone
    BY <2>10 DEF PostDone
  <2>11. ASSUME NEW z \in ZoneName, ZoneCreated(z) PROVE OwnersAgree'
    BY <2>11 DEF ZoneCreated
  <2>12. ASSUME NEW z \in ZoneName, OthersEdit(z) PROVE OwnersAgree'
    BY <2>12 DEF OthersEdit
  <2>13. CASE UNCHANGED vars
    BY <2>13 DEF vars
  <2>. QED
    BY <2>1, <2>2, <2>3, <2>4, <2>5, <2>6, <2>7, <2>8, <2>9, <2>10, <2>11,
       <2>12, <2>13, <2>14 DEF Next, Get, Post, Failure
<1>. QED BY <1>1, <1>2, BaseInductive, PTL DEF Spec

(***************************************************************************)
(* If nobody interferes, what a request deletes is what GET had read, from *)
(* the same zone (SC-013), and a name is written only to the zone that     *)
(* owns it at that moment (FR-043): reading and writing agree although     *)
(* each lists the zones for itself.                                        *)
(***************************************************************************)
THEOREM ReadingAndWritingAgree == Spec => ReadAndWriteAgree
<1>1. BaseInv /\ OwnersAgree /\ [Next]_vars =>
         [pc = "applying" /\ left' # left /\ quiet =>
             \A z \in ZoneName, n \in Name :
                 /\ n \in content[z] \ content'[z]
                       => [name |-> n, zone |-> z] \in seen
                 /\ n \in content'[z] \ content[z] => OwnedBy(zones, n, z)]_vars
  <2> SUFFICES ASSUME BaseInv, OwnersAgree, [Next]_vars,
                      pc = "applying", left' # left, quiet,
                      NEW z \in ZoneName, NEW n \in Name
               PROVE  /\ n \in content[z] \ content'[z]
                            => [name |-> n, zone |-> z] \in seen
                      /\ n \in content'[z] \ content[z]
                            => OwnedBy(zones, n, z)
    OBVIOUS
  <2>1. index = zones /\ deletes \subseteq SeenNames
    BY DEF OwnersAgree
  <2>2. ASSUME n \in content[z] \ content'[z]
        PROVE  [name |-> n, zone |-> z] \in seen
    <3>1. OwnedBy(zones, n, z) /\ n \in deletes
      BY <2>1, <2>2, OnlyTheGroupChanges
    <3>2. PICK r \in seen : r.name = n
      BY <2>1, <3>1 DEF SeenNames
    <3>3. r.zone = z
      BY <3>1, <3>2 DEF OwnersAgree, OwnedBy
    <3>. QED BY <3>2, <3>3 DEF BaseInv, TypeOK
  <2>3. n \in content'[z] \ content[z] => OwnedBy(zones, n, z)
    BY <2>1, OnlyTheGroupChanges
  <2>. QED BY <2>2, <2>3
<1>. QED
  BY <1>1, BaseInductive, OwnersAgreeInductive, PTL
     DEF Spec, ReadAndWriteAgree

=============================================================================
