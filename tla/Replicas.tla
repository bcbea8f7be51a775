------------------------------- MODULE Replicas -------------------------------
(***************************************************************************)
(* The parts together: replicas of ExternalDNS and its webhook (two        *)
(* deployments of one zone, or the old and the new pod of a rollout) that  *)
(* read the zones, compute their changes and apply them zone by zone,      *)
(* again and again.  Module Provider takes an Apply for one step and       *)
(* module ZoneApply looks at one zone and one request; here the view a     *)
(* replica plans with, the re-read its merge starts from and the job that  *)
(* replaces the zone all age at their own pace, and a job may outlive the  *)
(* request, the lock and the process it came from.                         *)
(*                                                                         *)
(* A record is its name.  A zone's content, the view of a replica and its  *)
(* change set are sets of names; a zone is its place in the order in which *)
(* the zones are read and changed.                                         *)
(***************************************************************************)
EXTENDS Naturals, FiniteSets, FiniteSetsExt

CONSTANTS
    Replica,
    Zone,           \* the zones, by their place in the order
    Managed,        \* names ExternalDNS may be asked to publish
    Foreign,        \* names it never asks for
    Wants,          \* what its sources may ask for: sets of managed names
    ZoneOf,         \* the zone that owns a name
    Free, Dead,     \* the lock has no holder; its holder has crashed
    MaxOrphans      \* bound: jobs nobody waits for

Name == Managed \union Foreign

ASSUME NamesAssumption ==
    /\ Zone \subseteq Nat /\ IsFiniteSet(Zone) /\ Zone # {}
    /\ Managed \intersect Foreign = {}
    /\ Wants \subseteq SUBSET Managed
    /\ ZoneOf \in [Name -> Zone]
ASSUME HolderAssumption ==
    Free \notin Replica /\ Dead \notin Replica /\ Free # Dead
ASSUME BoundAssumption == MaxOrphans \in Nat

VARIABLES
    wanted,     \* what the sources of ExternalDNS ask for
    content,    \* what DPF publishes, in all zones
    lock,       \* the holder of every zone's lock
    orphans,    \* jobs that run although nobody waits for them
    pc,         \* where every replica is: "read", "apply", "edit", "sync"
    left,       \* the zones it has still to read
    view,       \* what it has read
    changes,    \* what it has still to create and to delete
    sent        \* what it has submitted for the zone it works on

dpf   == <<content, lock, orphans>>
local == <<pc, left, view, changes, sent>>
vars  == <<wanted, dpf, local>>

In == [z \in Zone |-> { n \in Name : ZoneOf[n] = z }]

Change == [create : SUBSET Managed, delete : SUBSET Managed]
Nothing == [create |-> {}, delete |-> {}]

\* The names of a change set, and the zone whose turn it is.
Touched(cs) == cs.create \union cs.delete

Current(r) == Min({ ZoneOf[n] : n \in Touched(changes[r]) })

\* A change set without the part of one zone.
Without(cs, z) == [create |-> cs.create \ In[z], delete |-> cs.delete \ In[z]]

\* A zone's content b, changed where r wants it changed.
Merged(r, b) ==
    LET here == In[Current(r)]
    IN (b \ (changes[r].delete \intersect here))
          \union (changes[r].create \intersect here)

Job(r) == [zone |-> Current(r), content |-> sent[r]]

\* r has a change set unless it reads, a job in sync, and a lock only of the
\* zone it works on.
InPlace(r) ==
    /\ pc[r] = "read" <=> Touched(changes[r]) = {}
    /\ sent[r] \subseteq (IF pc[r] = "sync" THEN In[Current(r)] ELSE {})
    /\ \A z \in Zone :
          lock[z] = r => pc[r] \in {"edit", "sync"} /\ z = Current(r)

TypeOK ==
    /\ wanted \in Wants
    /\ content \subseteq Name
    /\ lock \in [Zone -> Replica \union {Free, Dead}]
    /\ orphans \subseteq [zone : Zone, content : SUBSET Name]
    /\ pc \in [Replica -> {"read", "apply", "edit", "sync"}]
    /\ left \in [Replica -> SUBSET Zone]
    /\ view \in [Replica -> SUBSET Managed]
    /\ changes \in [Replica -> Change]
    /\ sent \in [Replica -> SUBSET Name]
    /\ \A r \in Replica : InPlace(r)

Init ==
    /\ wanted \in Wants
    /\ content \in SUBSET Name
    /\ lock = [z \in Zone |-> Free]
    /\ orphans = {}
    /\ pc = [r \in Replica |-> "read"]
    /\ left = [r \in Replica |-> Zone]
    /\ view = [r \in Replica |-> {}]
    /\ changes = [r \in Replica |-> Nothing]
    /\ sent = [r \in Replica |-> {}]

-----------------------------------------------------------------------------
\* r turns to what remains to be done, or begins its next round.
Continue(r, cs) ==
    /\ changes' = [changes EXCEPT ![r] = cs]
    /\ pc' = [pc EXCEPT ![r] = IF Touched(cs) = {} THEN "read" ELSE "apply"]
    /\ left' = [left EXCEPT ![r] = IF Touched(cs) = {} THEN Zone ELSE {}]
    /\ view' = [view EXCEPT ![r] = {}]
    /\ sent' = [sent EXCEPT ![r] = {}]

\* GET /records reads one zone after the other.
ReadZone(r) ==
    /\ pc[r] = "read" /\ left[r] # {}
    /\ LET z == Min(left[r])
       IN /\ view' = [view EXCEPT
                        ![r] = @ \union (content \intersect In[z]
                                                 \intersect Managed)]
          /\ left' = [left EXCEPT ![r] = @ \ {z}]
    /\ UNCHANGED <<wanted, dpf, pc, changes, sent>>

\* ExternalDNS compares, and posts the difference if there is one.
Plan(r) ==
    /\ pc[r] = "read" /\ left[r] = {}
    /\ Continue(r, [create |-> wanted \ view[r], delete |-> view[r] \ wanted])
    /\ UNCHANGED <<wanted, dpf>>

\* The lock of the zone is free, and is taken.
Acquire(r) ==
    /\ pc[r] = "apply"
    /\ lock[Current(r)] = Free
    /\ lock' = [lock EXCEPT ![Current(r)] = r]
    /\ pc' = [pc EXCEPT ![r] = "edit"]
    /\ UNCHANGED <<wanted, content, orphans, left, view, changes, sent>>

\* Whatever r came to, the lock is released if it is still r's.
Release(r) == lock' = [z \in Zone |-> IF lock[z] = r THEN Free ELSE lock[z]]

\* Mutant: what is merged into is what GET returned.
BaseFromView(r) == content \intersect Managed \intersect In[Current(r)]

\* What is merged into: the zone as it is published, read under the lock.
Base(r) == content \intersect In[Current(r)]

\* The change set changes nothing here: on to the next zone.
Skip(r) ==
    /\ pc[r] = "edit"
    /\ Merged(r, Base(r)) = Base(r)
    /\ Release(r)
    /\ Continue(r, Without(changes[r], Current(r)))
    /\ UNCHANGED <<wanted, content, orphans>>

(***************************************************************************)
(* The zone is read, merged into and submitted, whether r still has the    *)
(* lock or not: DPF does not ask for it.                                   *)
(***************************************************************************)
Submit(r) ==
    /\ pc[r] = "edit"
    /\ Merged(r, Base(r)) # Base(r)
    /\ sent' = [sent EXCEPT ![r] = Merged(r, Base(r))]
    /\ pc' = [pc EXCEPT ![r] = "sync"]
    /\ UNCHANGED <<wanted, dpf, left, view, changes>>

\* A job replaces all that its zone publishes.
Replace(j) == content' = (content \ In[j.zone]) \union j.content

\* The job ends, r learns of it and goes on to the next zone.
Reflected(r) ==
    /\ pc[r] = "sync"
    /\ Replace(Job(r))
    /\ Release(r)
    /\ Continue(r, Without(changes[r], Current(r)))
    /\ UNCHANGED <<wanted, orphans>>

\* A job nobody waits for ends, too.
OrphanEnds(j) ==
    /\ j \in orphans
    /\ Replace(j)
    /\ orphans' = orphans \ {j}
    /\ UNCHANGED <<wanted, lock, local>>

\* Mutant: a request that failed keeps its lock.
AbandonHolding(r) == UNCHANGED lock /\ Continue(r, Nothing)

\* A request fails: the zones left are not tried, and ExternalDNS begins
\* again in its next round.
Abandon(r) == Release(r) /\ Continue(r, Nothing)

\* Others have had the lock for lockWaitTimeout.
WaitOver(r) ==
    /\ pc[r] = "apply"
    /\ lock[Current(r)] # Free
    /\ Abandon(r)
    /\ UNCHANGED <<wanted, content, orphans>>

\* A call of DPF, or the job, fails.
Fail(r) ==
    /\ pc[r] # "read" \/ left[r] # Zone
    /\ Abandon(r)
    /\ UNCHANGED <<wanted, content, orphans>>

\* The job r waits for goes on without it.
LeaveJob(r) ==
    /\ Cardinality(orphans) < MaxOrphans
    /\ orphans' = orphans \union {Job(r)}

\* The wait for the job ends first: the client has gone, applyTimeout is
\* over, or DPF does not say how the job is doing.
Cut(r) ==
    /\ pc[r] = "sync"
    /\ LeaveJob(r)
    /\ Abandon(r)
    /\ UNCHANGED <<wanted, content>>

\* The process dies and is started again; its lock stays.
Crash(r) ==
    /\ pc[r] \in {"edit", "sync"}
    /\ IF pc[r] = "sync" THEN LeaveJob(r) ELSE UNCHANGED orphans
    /\ lock' = [z \in Zone |-> IF lock[z] = r THEN Dead ELSE lock[z]]
    /\ Continue(r, Nothing)
    /\ UNCHANGED <<wanted, content>>

\* lockTTL after a crash, the lock is free.
LockLapses(z) ==
    /\ lock[z] = Dead
    /\ lock' = [lock EXCEPT ![z] = Free]
    /\ UNCHANGED <<wanted, content, orphans, local>>

\* A process that is stopped for longer than lockTTL loses its lock, and
\* does not know of it when it goes on.
LockIsLost(z) ==
    /\ lock[z] \in Replica
    /\ lock' = [lock EXCEPT ![z] = Free]
    /\ UNCHANGED <<wanted, content, orphans, local>>

\* The sources of ExternalDNS change.
SourcesChange ==
    /\ wanted' \in Wants \ {wanted}
    /\ UNCHANGED <<dpf, local>>

\* Somebody is between the re-read of z and the end of a job for it.
IsOpen(z) ==
    \/ \E r \in Replica : pc[r] = "sync" /\ Current(r) = z
    \/ \E j \in orphans : j.zone = z

(***************************************************************************)
(* Somebody edits a zone, managed names and others, at a moment when no    *)
(* Apply is under way there: the README asks for no more (PC-002, PC-003). *)
(***************************************************************************)
OthersEdit(z) ==
    /\ ~IsOpen(z)
    /\ \E c \in SUBSET In[z] \ {content \intersect In[z]} :
          content' = (content \ In[z]) \union c
    /\ UNCHANGED <<wanted, lock, orphans, local>>

-----------------------------------------------------------------------------
Step(r) ==
    \/ ReadZone(r) \/ Plan(r) \/ Acquire(r) \/ Skip(r) \/ Submit(r)
    \/ Reflected(r) \/ WaitOver(r)

Progress ==
    \/ \E r \in Replica : Step(r)
    \/ \E j \in orphans : OrphanEnds(j)
    \/ \E z \in Zone : LockLapses(z)

Disturbance ==
    \/ \E r \in Replica : Fail(r) \/ Cut(r) \/ Crash(r)
    \/ \E z \in Zone : LockIsLost(z) \/ OthersEdit(z)
    \/ SourcesChange

Next == Progress \/ Disturbance

Spec == Init /\ [][Next]_vars

(***************************************************************************)
(* Replicas go on, jobs end and the locks of crashed processes lapse.      *)
(* Which of two waiting replicas gets a lock is left open, and so is       *)
(* whether the other one waits long enough.                                *)
(***************************************************************************)
Fairness ==
    /\ \A r \in Replica : WF_vars(Step(r))
    /\ WF_vars(\E j \in orphans : OrphanEnds(j))
    /\ \A z \in Zone : WF_vars(LockLapses(z))

FairSpec == Spec /\ Fairness

-----------------------------------------------------------------------------
(***************************************************************************)
(* Whatever fails, is cut off, crashes, outlives its lock or comes late,   *)
(* no step of a webhook or of a job it left behind changes a record that   *)
(* ExternalDNS does not manage (FR-009): those change by the hand of       *)
(* others only.                                                            *)
(***************************************************************************)
ForeignIsKept ==
    [][content' \intersect Foreign # content \intersect Foreign =>
          \E z \in Zone : OthersEdit(z)]_vars

(***************************************************************************)
(* "This provider itself satisfies (b)", it converges to what is wanted    *)
(* and what was undone comes again (README, PC-001): once disturbances end *)
(* the managed records become what is wanted and stay so, although changes *)
(* planned with an old view, and jobs nobody waits for, are still to come. *)
(***************************************************************************)
Converges ==
    <>[][Progress]_vars => <>[](content \intersect Managed = wanted)

=============================================================================
