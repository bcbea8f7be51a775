------------------------------- MODULE DnsName -------------------------------
(***************************************************************************)
(* Domain names and the two questions the webhook asks about them: is a    *)
(* name within the domains it may touch, and which zone owns it            *)
(* (internal/dnsname, internal/provider/zoneindex.go).                     *)
(*                                                                         *)
(* A name is the sequence of its labels, the top level first: www.a.jp. is *)
(* <<"jp", "a", "www">>.  It may be spelled in many ways, and is told by   *)
(* one: what dnsname.Parse makes of a spelling.  From there on names are   *)
(* canonical, so equality of names is equality of sequences.  The zero     *)
(* Name, which contains nothing and is in nothing, does not occur: zones   *)
(* and records are built from parsed names only.                           *)
(***************************************************************************)
EXTENDS Integers, Sequences

(***************************************************************************)
(* A spelling: letters of either case, the final dot, blanks around it.    *)
(* The label "" stands for one no name may have: empty, or too long.       *)
(***************************************************************************)
Spellings(Label) ==
    [labels : Seq(Label), upper : BOOLEAN, dot : BOOLEAN, blanks : BOOLEAN]

\* The root is a name, the empty text is none.
Parses(s) ==
    /\ s.labels # <<>> \/ s.dot
    /\ \A i \in DOMAIN s.labels : s.labels[i] # ""

Parse(s) == [s EXCEPT !.upper = FALSE, !.dot = TRUE, !.blanks = FALSE]

\* Name.Unqualified, the spelling of ExternalDNS.
WithoutDot(n) == [n EXCEPT !.dot = FALSE]

-----------------------------------------------------------------------------
\* Name.Contains, on label boundaries: n itself and what is below it.
Contains(n, child) ==
    /\ Len(n) <= Len(child)
    /\ \A i \in 1 .. Len(n) : n[i] = child[i]

Candidates(domains, name) == { d \in domains : Contains(d, name) }

\* Scope.Contains; an empty set of domains contains nothing.
InScope(domains, name) == Candidates(domains, name) # {}

\* Scope.LongestMatch: of the domains that contain name, the one with the
\* most labels.  The order of the domains does not matter (Provider_proofs).
LongestMatch(domains, name) ==
    CHOOSE d \in Candidates(domains, name) :
        \A e \in Candidates(domains, name) : Len(e) <= Len(d)

-----------------------------------------------------------------------------
\* zoneIndex.Owner: a name may have none.
HasOwner(zones, name) == InScope(zones, name)
Owner(zones, name) == LongestMatch(zones, name)

OwnedBy(zones, name, zone) ==
    HasOwner(zones, name) /\ Owner(zones, name) = zone

\* Mutant: only zones within the domains are looked at.
RelevantBelow(scope, zone) == \E d \in scope : Contains(d, zone)

\* Provider.zoneIsRelevant: names in the scope may be in the zone.
zoneIsRelevant(scope, zone) ==
    \E d \in scope : Contains(d, zone) \/ Contains(zone, d)

=============================================================================
