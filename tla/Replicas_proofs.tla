--------------------------- MODULE Replicas_proofs ---------------------------
(***************************************************************************)
(* The records ExternalDNS does not manage survive all that may happen     *)
(* between any number of replicas, zones and jobs left behind.             *)
(***************************************************************************)
EXTENDS Replicas, WellFoundedInduction, TLAPS

\* A set of numbers that is not empty has a least one.
LEMMA LeastExists ==
    ASSUME NEW S \in SUBSET Nat, S # {}
    PROVE  Min(S) \in S
  <1> DEFINE Less == OpToRel(<, Nat)
  <1>1. PICK m \in S : \A k \in S : ~(<<k, m>> \in Less)
    <2> HIDE DEF Less
    <2>1. IsWellFoundedOn(Less, Nat)
      BY NatLessThanWellFounded DEF Less
    <2> QED
      BY <2>1, WFMin
  <1>2. \A k \in S : m <= k
    <2>1. \A k \in Nat : m \in Nat /\ ~(<<k, m>> \in Less) => m <= k
      BY DEF OpToRel
    <2> QED
      BY <1>1, <2>1
  <1> QED
    BY <1>2 DEF Min

\* A replica that has something to do works on one of the zones.
LEMMA CurrentIsZone ==
    ASSUME TypeOK, NEW r \in Replica, pc[r] # "read"
    PROVE  Current(r) \in Zone
  <1> DEFINE Z == { ZoneOf[n] : n \in Touched(changes[r]) }
  <1>1. changes[r] \in Change /\ Touched(changes[r]) # {}
    BY DEF TypeOK, InPlace
  <1>2. Touched(changes[r]) \subseteq Name
    BY <1>1 DEF Change, Touched, Name
  <1>3. Z \subseteq Zone /\ Z # {}
    BY <1>1, <1>2, NamesAssumption
  <1> HIDE DEF Z
  <1>4. Min(Z) \in Z
    BY <1>3, LeastExists, NamesAssumption
  <1> QED
    BY <1>3, <1>4 DEF Current, Z

\* Which zone a replica works on depends on its change set only.
LEMMA CurrentStays ==
    ASSUME NEW r, changes'[r] = changes[r]
    PROVE  Current(r)' = Current(r)
  BY DEF Current

\* What is submitted for a zone are names of the zone.
LEMMA MergedIsInZone ==
    ASSUME TypeOK, NEW r \in Replica, pc[r] # "read"
    PROVE  /\ Merged(r, Base(r)) \subseteq In[Current(r)]
           /\ In[Current(r)] \subseteq Name
  BY CurrentIsZone DEF Merged, Base, In

\* Merging changes managed names only.
LEMMA MergedKeepsForeign ==
    ASSUME TypeOK, NEW r \in Replica
    PROVE  Merged(r, Base(r)) \intersect Foreign = Base(r) \intersect Foreign
  <1>1. changes[r].create \subseteq Managed /\ changes[r].delete \subseteq Managed
    BY DEF TypeOK, Change
  <1> QED
    BY <1>1, NamesAssumption DEF Merged

\* Beginning a round or going on to the next zone leaves r in its place.
LEMMA ContinueInPlace ==
    ASSUME TypeOK, NEW r \in Replica, NEW cs \in Change, Continue(r, cs),
           \A z \in Zone : lock'[z] # r
    PROVE  /\ pc' \in [Replica -> {"read", "apply", "edit", "sync"}]
           /\ left' \in [Replica -> SUBSET Zone]
           /\ view' \in [Replica -> SUBSET Managed]
           /\ changes' \in [Replica -> Change]
           /\ sent' \in [Replica -> SUBSET Name]
           /\ InPlace(r)'
  <1>1. /\ changes'[r] = cs /\ sent'[r] = {}
        /\ pc'[r] = IF Touched(cs) = {} THEN "read" ELSE "apply"
    BY DEF TypeOK, Continue
  <1>2. InPlace(r)'
    BY <1>1 DEF InPlace
  <1> QED
    BY <1>2 DEF TypeOK, Continue

\* A step of r, or of a lock that nobody gets, leaves the others in place.
LEMMA OthersInPlace ==
    ASSUME TypeOK, NEW s \in Replica,
           changes'[s] = changes[s], pc'[s] = pc[s], sent'[s] = sent[s],
           \A z \in Zone : lock'[z] = s => lock[z] = s
    PROVE  InPlace(s)'
  <1>1. InPlace(s) /\ Current(s)' = Current(s)
    BY CurrentStays DEF TypeOK
  <1> QED
    BY <1>1 DEF InPlace

\* A replacement gives names, whoever asked for it.
LEMMA ReplaceType ==
    ASSUME TypeOK, NEW j \in [zone : Zone, content : SUBSET Name], Replace(j)
    PROVE  content' \subseteq Name
  BY DEF TypeOK, Replace

\* The change sets the actions go on with.
LEMMA ChangeTypes ==
    ASSUME TypeOK, NEW r \in Replica
    PROVE  /\ Nothing \in Change
           /\ Without(changes[r], Current(r)) \in Change
           /\ [create |-> wanted \ view[r], delete |-> view[r] \ wanted]
                 \in Change
  <1>1. wanted \subseteq Managed
    BY NamesAssumption DEF TypeOK
  <1> QED
    BY <1>1 DEF TypeOK, Change, Nothing, Without

\* The job a replica leaves behind.
LEMMA JobType ==
    ASSUME TypeOK, NEW r \in Replica, pc[r] # "read"
    PROVE  Job(r) \in [zone : Zone, content : SUBSET Name]
  BY CurrentIsZone DEF TypeOK, Job

\* r goes on with cs, and loses its lock: of all replicas only r moves.
LEMMA OnlyOneMoves ==
    ASSUME TypeOK, NEW r \in Replica, NEW cs \in Change, Continue(r, cs),
           Release(r), wanted' = wanted, content' \subseteq Name,
           orphans' \subseteq [zone : Zone, content : SUBSET Name]
    PROVE  TypeOK'
  <1>1. /\ lock' \in [Zone -> Replica \union {Free, Dead}]
        /\ \A z \in Zone : lock'[z] # r /\ (lock'[z] \in {Free, lock[z]})
    BY HolderAssumption DEF TypeOK, Release
  <1>2. \A s \in Replica \ {r} : InPlace(s)'
    <2> SUFFICES ASSUME NEW s \in Replica \ {r} PROVE InPlace(s)'
      OBVIOUS
    <2>1. changes'[s] = changes[s] /\ pc'[s] = pc[s] /\ sent'[s] = sent[s]
      BY DEF TypeOK, Continue
    <2> QED
      BY <1>1, <2>1, OthersInPlace, HolderAssumption
  <1>3. /\ pc' \in [Replica -> {"read", "apply", "edit", "sync"}]
        /\ left' \in [Replica -> SUBSET Zone]
        /\ view' \in [Replica -> SUBSET Managed]
        /\ changes' \in [Replica -> Change]
        /\ sent' \in [Replica -> SUBSET Name]
        /\ InPlace(r)'
    BY <1>1, ContinueInPlace
  <1> QED
    BY <1>1, <1>2, <1>3 DEF TypeOK

\* Every action keeps the types, and every replica in its place.
LEMMA StepType == TypeOK /\ [Next]_vars => TypeOK'
<1> SUFFICES ASSUME TypeOK, [Next]_vars PROVE TypeOK'
  OBVIOUS
<1>1. ASSUME NEW r \in Replica, ReadZone(r) PROVE TypeOK'
  <2>1. \A s \in Replica : InPlace(s)'
    BY <1>1, OthersInPlace DEF ReadZone, dpf
  <2> QED
    BY <1>1, <2>1 DEF TypeOK, ReadZone, dpf
<1>2. ASSUME NEW r \in Replica, Plan(r) PROVE TypeOK'
  <2>1. Release(r)
    BY <1>2 DEF TypeOK, InPlace, Plan, dpf, Release
  <2> QED
    BY <1>2, <2>1, OnlyOneMoves, ChangeTypes DEF TypeOK, Plan, dpf
<1>3. ASSUME NEW r \in Replica, Acquire(r) PROVE TypeOK'
  <2>1. \A s \in Replica \ {r} : InPlace(s)'
    BY <1>3, OthersInPlace DEF TypeOK, Acquire
  <2>2. InPlace(r)'
    BY <1>3, CurrentStays DEF TypeOK, InPlace, Acquire
  <2>3. lock' \in [Zone -> Replica \union {Free, Dead}]
    BY <1>3 DEF TypeOK, Acquire
  <2> QED
    BY <1>3, <2>1, <2>2, <2>3 DEF TypeOK, Acquire
<1>4. ASSUME NEW r \in Replica, Skip(r) PROVE TypeOK'
  BY <1>4, OnlyOneMoves, ChangeTypes DEF TypeOK, Skip
<1>5. ASSUME NEW r \in Replica, Submit(r) PROVE TypeOK'
  <2>1. \A s \in Replica \ {r} : InPlace(s)'
    BY <1>5, OthersInPlace DEF TypeOK, Submit, dpf
  <2>2. Merged(r, Base(r)) \subseteq In[Current(r)] /\ In[Current(r)] \subseteq Name
    BY <1>5, MergedIsInZone DEF Submit
  <2>3. sent'[r] = Merged(r, Base(r)) /\ pc'[r] = "sync"
    BY <1>5 DEF TypeOK, Submit
  <2>4. Current(r)' = Current(r)
    BY <1>5, CurrentStays DEF Submit
  <2>5. InPlace(r)'
    BY <1>5, <2>2, <2>3, <2>4 DEF TypeOK, InPlace, Submit, dpf
  <2>6. sent' \in [Replica -> SUBSET Name]
    BY <1>5, <2>2 DEF TypeOK, Submit
  <2> QED
    BY <1>5, <2>1, <2>5, <2>6 DEF TypeOK, Submit, dpf
<1>6. ASSUME NEW r \in Replica, Reflected(r) PROVE TypeOK'
  <2>1. content' \subseteq Name
    BY <1>6, JobType, ReplaceType DEF Reflected
  <2> QED
    BY <1>6, <2>1, OnlyOneMoves, ChangeTypes DEF TypeOK, Reflected
<1>7. ASSUME NEW r \in Replica, WaitOver(r) \/ Fail(r) PROVE TypeOK'
  BY <1>7, OnlyOneMoves, ChangeTypes DEF TypeOK, WaitOver, Fail, Abandon
<1>8. ASSUME NEW r \in Replica, Cut(r) PROVE TypeOK'
  <2>1. orphans' \subseteq [zone : Zone, content : SUBSET Name]
    BY <1>8, JobType DEF TypeOK, Cut, LeaveJob
  <2> QED
    BY <1>8, <2>1, OnlyOneMoves, ChangeTypes DEF TypeOK, Cut, Abandon
<1>9. ASSUME NEW r \in Replica, Crash(r) PROVE TypeOK'
  <2>1. orphans' \subseteq [zone : Zone, content : SUBSET Name]
    BY <1>9, JobType DEF TypeOK, Crash, LeaveJob
  <2>2. /\ lock' \in [Zone -> Replica \union {Free, Dead}]
        /\ \A z \in Zone : lock'[z] # r /\ (lock'[z] \in {Dead, lock[z]})
    BY <1>9, HolderAssumption DEF TypeOK, Crash
  <2>3. \A s \in Replica \ {r} : InPlace(s)'
    <3> SUFFICES ASSUME NEW s \in Replica \ {r} PROVE InPlace(s)'
      OBVIOUS
    <3>1. changes'[s] = changes[s] /\ pc'[s] = pc[s] /\ sent'[s] = sent[s]
      BY <1>9 DEF TypeOK, Crash, Continue
    <3> QED
      BY <2>2, <3>1, OthersInPlace, HolderAssumption
  <2>4. /\ pc' \in [Replica -> {"read", "apply", "edit", "sync"}]
        /\ left' \in [Replica -> SUBSET Zone]
        /\ view' \in [Replica -> SUBSET Managed]
        /\ changes' \in [Replica -> Change]
        /\ sent' \in [Replica -> SUBSET Name]
        /\ InPlace(r)'
    BY <1>9, <2>2, ContinueInPlace, ChangeTypes DEF Crash
  <2> QED
    BY <1>9, <2>1, <2>2, <2>3, <2>4 DEF TypeOK, Crash
<1>10. ASSUME NEW j \in orphans, OrphanEnds(j) PROVE TypeOK'
  <2>1. content' \subseteq Name
    BY <1>10, ReplaceType DEF TypeOK, OrphanEnds
  <2>2. \A s \in Replica : InPlace(s)'
    BY <1>10, OthersInPlace DEF OrphanEnds, local
  <2> QED
    BY <1>10, <2>1, <2>2 DEF TypeOK, OrphanEnds, local
<1>11. ASSUME NEW z \in Zone, LockLapses(z) \/ LockIsLost(z) PROVE TypeOK'
  <2>1. lock' \in [Zone -> Replica \union {Free, Dead}]
    BY <1>11 DEF TypeOK, LockLapses, LockIsLost
  <2>2. \A s \in Replica, y \in Zone : lock'[y] = s => lock[y] = s
    BY <1>11, HolderAssumption DEF TypeOK, LockLapses, LockIsLost
  <2>3. \A s \in Replica : InPlace(s)'
    BY <1>11, <2>2, OthersInPlace DEF LockLapses, LockIsLost, local
  <2> QED
    BY <1>11, <2>1, <2>3 DEF TypeOK, LockLapses, LockIsLost, local
<1>12. ASSUME NEW z \in Zone, OthersEdit(z) PROVE TypeOK'
  <2>1. \A s \in Replica : InPlace(s)'
    BY <1>12, OthersInPlace DEF OthersEdit, local
  <2> QED
    BY <1>12, <2>1 DEF TypeOK, OthersEdit, local, In
<1>13. CASE SourcesChange
  <2>1. \A s \in Replica : InPlace(s)'
    BY <1>13, OthersInPlace DEF SourcesChange, dpf, local
  <2> QED
    BY <1>13, <2>1 DEF TypeOK, SourcesChange, dpf, local
<1>14. CASE UNCHANGED vars
  <2>1. \A s \in Replica : InPlace(s)'
    BY <1>14, OthersInPlace DEF vars, dpf, local
  <2> QED
    BY <1>14, <2>1 DEF TypeOK, vars, dpf, local
<1> QED
  BY <1>1, <1>2, <1>3, <1>4, <1>5, <1>6, <1>7, <1>8, <1>9, <1>10, <1>11,
     <1>12, <1>13, <1>14 DEF Next, Progress, Disturbance, Step

\* In the beginning every replica reads.
LEMMA InitType == Init => TypeOK
  BY HolderAssumption, NamesAssumption
     DEF Init, TypeOK, InPlace, Change, Nothing, Touched

(***************************************************************************)
(* Type correctness: in every state a replica holds the lock of one zone   *)
(* at most, the one it works on, and has submitted names of that zone      *)
(* only, for any number of replicas, zones, names and jobs left behind.    *)
(***************************************************************************)
THEOREM TypeAlways == Spec => []TypeOK
<1>1. TypeOK /\ [Next]_vars => TypeOK'
  BY StepType
<1> QED
  BY <1>1, InitType, PTL DEF Spec

-----------------------------------------------------------------------------
(***************************************************************************)
(* What makes ForeignIsKept inductive: whatever is on its way to a zone,   *)
(* with or without somebody waiting for it, holds the foreign records the  *)
(* zone publishes.                                                         *)
(***************************************************************************)
SentKeepsForeign ==
    /\ \A r \in Replica :
          pc[r] = "sync" => sent[r] \intersect Foreign = Base(r) \intersect Foreign
    /\ \A j \in orphans :
          j.content \intersect Foreign = content \intersect In[j.zone] \intersect Foreign

\* Steps that leave all foreign records alone, and add nothing that is on its
\* way, keep it.
LEMMA NothingNewSent ==
    ASSUME SentKeepsForeign,
           content' \intersect Foreign = content \intersect Foreign,
           \A s \in Replica : pc'[s] = "sync" =>
                /\ pc[s] = "sync" /\ sent'[s] = sent[s]
                /\ changes'[s] = changes[s],
           \A j \in orphans' :
                \/ j \in orphans
                \/ \E s \in Replica : pc[s] = "sync" /\ j = Job(s)
    PROVE  SentKeepsForeign'
  <1>1. ASSUME NEW s \in Replica, pc'[s] = "sync"
        PROVE  sent'[s] \intersect Foreign = Base(s)' \intersect Foreign
    <2>1. Current(s)' = Current(s)
      BY <1>1, CurrentStays
    <2>2. sent[s] \intersect Foreign = Base(s) \intersect Foreign
      BY <1>1 DEF SentKeepsForeign
    <2> QED
      BY <1>1, <2>1, <2>2 DEF Base
  <1>2. ASSUME NEW j \in orphans'
        PROVE  j.content \intersect Foreign
                  = content \intersect In[j.zone] \intersect Foreign
    <2>1. CASE j \in orphans
      BY <2>1 DEF SentKeepsForeign
    <2>2. ASSUME NEW s \in Replica, pc[s] = "sync", j = Job(s)
          PROVE  j.content \intersect Foreign
                    = content \intersect In[j.zone] \intersect Foreign
      BY <2>2 DEF SentKeepsForeign, Job, Base
    <2> QED
      BY <1>2, <2>1, <2>2
  <1> QED
    BY <1>1, <1>2 DEF SentKeepsForeign

\* Going on to another zone, or round, sends nothing.
LEMMA ContinueSendsNothing ==
    ASSUME TypeOK, NEW r \in Replica, NEW cs, Continue(r, cs), NEW s \in Replica,
           pc'[s] = "sync"
    PROVE  pc[s] = "sync" /\ sent'[s] = sent[s] /\ changes'[s] = changes[s]
  BY DEF TypeOK, Continue

\* A replacement that holds the zone's foreign records changes none.
LEMMA ReplaceKeepsForeign ==
    ASSUME NEW j, Replace(j),
           j.content \intersect Foreign
              = content \intersect In[j.zone] \intersect Foreign
    PROVE  content' \intersect Foreign = content \intersect Foreign
  BY DEF Replace

\* Every step keeps the invariant, and only others change foreign records.
LEMMA StepForeign ==
    ASSUME TypeOK, SentKeepsForeign, [Next]_vars
    PROVE  /\ SentKeepsForeign'
           /\ \/ content' \intersect Foreign = content \intersect Foreign
              \/ \E z \in Zone : OthersEdit(z)
<1> DEFINE Keeps == content' \intersect Foreign = content \intersect Foreign
           Goal  == SentKeepsForeign' /\ (Keeps \/ \E z \in Zone : OthersEdit(z))
<1> SUFFICES Goal
  OBVIOUS
<1>1. ASSUME NEW r \in Replica, ReadZone(r) PROVE Goal
  BY <1>1, NothingNewSent DEF ReadZone, dpf
<1>2. ASSUME NEW r \in Replica, Plan(r) \/ Skip(r) \/ WaitOver(r) \/ Fail(r)
      PROVE  Goal
  <2>1. content' = content /\ orphans' = orphans
    BY <1>2 DEF Plan, Skip, WaitOver, Fail, dpf
  <2>2. \E cs : Continue(r, cs)
    BY <1>2 DEF Plan, Skip, WaitOver, Fail, Abandon
  <2> QED
    BY <2>1, <2>2, ContinueSendsNothing, NothingNewSent
<1>3. ASSUME NEW r \in Replica, Acquire(r) PROVE Goal
  BY <1>3, NothingNewSent DEF TypeOK, Acquire
<1>4. ASSUME NEW r \in Replica, Submit(r) PROVE Goal
  <2>1. content' = content /\ orphans' = orphans /\ changes' = changes
    BY <1>4 DEF Submit, dpf
  <2>2. ASSUME NEW s \in Replica, pc'[s] = "sync"
        PROVE  sent'[s] \intersect Foreign = Base(s)' \intersect Foreign
    <3>1. Base(s)' = Base(s)
      BY <2>1, CurrentStays DEF Base
    <3>2. CASE s = r
      <4>1. sent'[r] = Merged(r, Base(r))
        BY <1>4 DEF TypeOK, Submit
      <4> QED
        BY <3>1, <3>2, <4>1, MergedKeepsForeign
    <3>3. CASE s # r
      BY <1>4, <2>2, <3>1, <3>3 DEF TypeOK, Submit, SentKeepsForeign
    <3> QED
      BY <3>2, <3>3
  <2> QED
    BY <2>1, <2>2 DEF SentKeepsForeign
<1>5. ASSUME NEW r \in Replica, Reflected(r) PROVE Goal
  <2>1. Keeps
    BY <1>5, ReplaceKeepsForeign DEF Reflected, Job, SentKeepsForeign, Base
  <2> QED
    BY <1>5, <2>1, ContinueSendsNothing, NothingNewSent DEF Reflected
<1>6. ASSUME NEW r \in Replica, Cut(r) \/ Crash(r) PROVE Goal
  <2>1. content' = content /\ Continue(r, Nothing)
    BY <1>6 DEF Cut, Crash, Abandon
  <2>2. \A j \in orphans' :
            j \in orphans \/ \E s \in Replica : pc[s] = "sync" /\ j = Job(s)
    BY <1>6 DEF Cut, Crash, LeaveJob
  <2> QED
    BY <2>1, <2>2, ContinueSendsNothing, NothingNewSent
<1>7. ASSUME NEW j \in orphans, OrphanEnds(j) PROVE Goal
  <2>1. Keeps
    BY <1>7, ReplaceKeepsForeign DEF OrphanEnds, SentKeepsForeign
  <2> QED
    BY <1>7, <2>1, NothingNewSent DEF OrphanEnds, local
<1>8. ASSUME NEW z \in Zone, LockLapses(z) \/ LockIsLost(z) PROVE Goal
  BY <1>8, NothingNewSent DEF LockLapses, LockIsLost, local
<1>9. ASSUME NEW z \in Zone, OthersEdit(z) PROVE Goal
  <2>1. \A y \in Zone \ {z} :
            content' \intersect In[y] = content \intersect In[y]
    BY <1>9 DEF OthersEdit, In
  <2>2. ASSUME NEW s \in Replica, pc'[s] = "sync"
        PROVE  sent'[s] \intersect Foreign = Base(s)' \intersect Foreign
    <3>1. Current(s)' = Current(s) /\ Current(s) \in Zone \ {z}
      BY <1>9, <2>2, CurrentStays, CurrentIsZone DEF OthersEdit, IsOpen, local
    <3> QED
      BY <1>9, <2>1, <2>2, <3>1 DEF OthersEdit, local, SentKeepsForeign, Base
  <2>3. ASSUME NEW j \in orphans'
        PROVE  j.content \intersect Foreign
                  = content' \intersect In[j.zone] \intersect Foreign
    <3>1. j \in orphans /\ j.zone \in Zone \ {z}
      BY <1>9 DEF TypeOK, OthersEdit, IsOpen
    <3> QED
      BY <2>1, <3>1 DEF SentKeepsForeign
  <2> QED
    BY <1>9, <2>2, <2>3 DEF SentKeepsForeign
<1>10. CASE SourcesChange \/ UNCHANGED vars
  BY <1>10, NothingNewSent DEF SourcesChange, vars, dpf, local
<1> QED
  BY <1>1, <1>2, <1>3, <1>4, <1>5, <1>6, <1>7, <1>8, <1>9, <1>10
     DEF Next, Progress, Disturbance, Step

(***************************************************************************)
(* Whatever fails, is cut off, crashes, loses its lock or comes late, only *)
(* the others change a record ExternalDNS does not manage.                 *)
(***************************************************************************)
THEOREM ForeignIsKeptAlways == Spec => ForeignIsKept
<1> DEFINE Kept == content' \intersect Foreign # content \intersect Foreign =>
                      \E z \in Zone : OthersEdit(z)
<1>1. Init => SentKeepsForeign
  BY DEF Init, SentKeepsForeign
<1>2. TypeOK /\ SentKeepsForeign /\ [Next]_vars => SentKeepsForeign'
  BY StepForeign
<1>3. TypeOK /\ SentKeepsForeign /\ [Next]_vars => [Kept]_vars
  BY StepForeign
<1>4. Spec => []SentKeepsForeign
  BY <1>1, <1>2, TypeAlways, PTL DEF Spec
<1> QED
  BY <1>3, <1>4, TypeAlways, PTL DEF Spec, ForeignIsKept

==============================================================================
