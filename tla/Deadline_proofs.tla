---------------------------- MODULE Deadline_proofs ----------------------------
(***************************************************************************)
(* Proofs about module Deadline, for any times, processes and zones.       *)
(***************************************************************************)
EXTENDS Deadline, TLAPS

\* The timers of a POST and of its Apply, given how far it is.
Timers(p) ==
    /\ started[p] <= now
    /\ pc[p] \in {"idle", "listing"} => zone[p] = 1
    /\ pc[p] = "listing" => now <= started[p] + ListLimit
    /\ pc[p] \in InFlight => now <= started[p] + ClientTimeout
    /\ pc[p] \in Applying =>
          /\ entered[p] <= now
          /\ entered[p] <= started[p] + ApplyBy(zone[p])
          /\ now <= entered[p] + ApplyTimeout
    /\ pc[p] \in {"waiting", "reading"} => now <= entered[p] + LockWait
    /\ pc[p] = "abandoned" =>
          ClientTimeout <= ApplyBy(zone[p]) + ApplyTimeout

\* A lock that is held is extended in time.
Held(p) ==
    pc[p] \in Holding =>
        /\ holder[zone[p]] = p
        /\ now <= renewed[zone[p]] + Gap

\* What is known of a job that DPF works on.
Jobs(p) ==
    job[p] # None =>
        /\ pc[p] \in {"sync", "crashed", "failed", "timedOut", "left",
                      "abandoned"}
        /\ job[p] <= now
        /\ job[p] <= started[p] + JobBy(zone[p])
        /\ pc[p] = "sync" => job[p] <= entered[p] + LockWait
        /\ pc[p] \in {"sync", "crashed"} /\ holder[zone[p]] = p =>
              job[p] <= renewed[zone[p]] + Gap
        /\ pc[p] = "crashed" =>
              holder[zone[p]] = p \/ now - job[p] >= TTL - Gap
        /\ pc[p] = "timedOut" => now - job[p] >= ApplyTimeout - LockWait
        /\ pc[p] = "abandoned" =>
              now - job[p] >= ClientTimeout - JobBy(zone[p])

DeadlineInv ==
    /\ TypeOK
    /\ \A p \in Process : Timers(p)
    /\ \A p \in Process : Held(p)
    /\ \A p \in Process : Jobs(p)

\* The times are numbers.
LEMMA Times ==
    /\ ListLimit \in Nat /\ LockWait \in Nat /\ TTL \in Nat /\ Gap \in Nat
    /\ ApplyTimeout \in Nat /\ ClientTimeout \in Nat /\ Zones \in Nat
    /\ Zones >= 1 /\ Gap < TTL /\ None = -1
BY TimesAssumption, GapAssumption DEF None

\* Every zone adds its own applyTimeout.
LEMMA ApplyByFacts ==
    /\ ApplyBy(1) = ListLimit
    /\ \A z \in Zone : ApplyBy(z) \in Nat /\ JobBy(z) \in Nat
    /\ \A z \in Zone : ApplyBy(z + 1) = ApplyBy(z) + ApplyTimeout
<1> USE Times DEF Zone, ApplyBy, JobBy
<1>1. (1 - 1) * ApplyTimeout = 0
  OBVIOUS
<1>2. ASSUME NEW z \in Zone
      PROVE  /\ (z - 1) * ApplyTimeout \in Nat
             /\ (z + 1 - 1) * ApplyTimeout
                  = (z - 1) * ApplyTimeout + ApplyTimeout
  <2>1. z \in Int /\ z - 1 \in Nat
    OBVIOUS
  <2>2. (z - 1) * ApplyTimeout \in Nat
    BY <2>1
  <2>3. z * ApplyTimeout = (z - 1) * ApplyTimeout + ApplyTimeout
    BY <2>1
  <2>4. z + 1 - 1 = z
    BY <2>1
  <2> QED
    BY <2>2, <2>3, <2>4
<1> QED
  BY <1>1, <1>2

\* Every action keeps the types.
LEMMA StepType == TypeOK /\ [Next]_vars => TypeOK'
<1> SUFFICES ASSUME TypeOK, [Next]_vars PROVE TypeOK'
  OBVIOUS
<1> USE DEF TypeOK, Goto, InFlight, Applying, clocks, locks
<1>1. CASE Tick
  BY <1>1 DEF Tick
<1>2. ASSUME NEW p \in Process, Post(p) PROVE TypeOK'
  BY <1>2 DEF Post
<1>3. ASSUME NEW p \in Process, Listed(p) PROVE TypeOK'
  BY <1>3 DEF Listed
<1>4. ASSUME NEW p \in Process, Acquire(p) PROVE TypeOK'
  BY <1>4 DEF Acquire
<1>5. ASSUME NEW p \in Process, Edit(p) PROVE TypeOK'
  BY <1>5 DEF Edit
<1>6. ASSUME NEW p \in Process, JobEnds(p) PROVE TypeOK'
  BY <1>6 DEF JobEnds
<1>7. ASSUME NEW p \in Process, ZoneDone(p) PROVE TypeOK'
  <2>1. CASE More(p) /\ NextZone(p)
    <3>1. zone[p] + 1 \in Zone
      BY <2>1, Times DEF More, Zone
    <3> QED
      BY <1>7, <2>1, <3>1 DEF ZoneDone, NextZone, Release
  <2>2. CASE Goto(p, "answered") /\ UNCHANGED <<zone, entered>>
    BY <1>7, <2>2 DEF ZoneDone, Release
  <2> QED
    BY <1>7, <2>1, <2>2 DEF ZoneDone
<1>8. ASSUME NEW p \in Process, Fail(p) PROVE TypeOK'
  BY <1>8 DEF Fail, Release
<1>9. ASSUME NEW p \in Process, TimeOut(p) PROVE TypeOK'
  BY <1>9 DEF TimeOut, Release
<1>10. ASSUME NEW p \in Process, GiveUp(p) PROVE TypeOK'
  BY <1>10 DEF GiveUp, Release
<1>11. ASSUME NEW p \in Process, Crash(p) PROVE TypeOK'
  BY <1>11 DEF Crash
<1>14. ASSUME NEW p \in Process, Disconnect(p) PROVE TypeOK'
  BY <1>14 DEF Disconnect, Release
<1>12. ASSUME NEW p \in Process, Renew(p) PROVE TypeOK'
  BY <1>12 DEF Renew
<1>13. CASE UNCHANGED vars
  BY <1>13 DEF vars
<1> QED
  BY <1>1, <1>2, <1>3, <1>4, <1>5, <1>6, <1>7, <1>8, <1>9, <1>10, <1>11,
     <1>12, <1>13, <1>14 DEF Next

\* Every action keeps the timers of every process.
LEMMA StepTimers ==
    ASSUME TypeOK, TypeOK', [Next]_vars, NEW q \in Process,
           \A p \in Process : Timers(p)
    PROVE  Timers(q)'
<1> USE Times DEF TypeOK, Goto, InFlight, Applying, clocks, locks, Timers
<1>0. /\ ApplyBy(1) = ListLimit /\ ApplyBy(zone[q]) \in Nat
      /\ ApplyBy(zone[q] + 1) = ApplyBy(zone[q]) + ApplyTimeout
      /\ zone[q] \in Int
  <2>1. zone[q] \in Zone
    OBVIOUS
  <2>2. zone[q] \in Int
    BY <2>1 DEF Zone
  <2> QED
    BY <2>1, <2>2, ApplyByFacts
<1>1. CASE Tick
  <2>1. ~Due(q) /\ now' = now + 1
        /\ UNCHANGED <<pc, zone, started, entered>>
    BY <1>1 DEF Tick
  <2> QED
    BY <2>1, <1>0 DEF Due, LockWaitOver, ApplyOver, ClientOver
<1>2. ASSUME NEW p \in Process, Post(p) PROVE Timers(q)'
  BY <1>0, <1>2 DEF Post
<1>3. ASSUME NEW p \in Process, Listed(p) PROVE Timers(q)'
  BY <1>0, <1>3 DEF Listed
<1>4. ASSUME NEW p \in Process, Acquire(p) PROVE Timers(q)'
  BY <1>0, <1>4 DEF Acquire
<1>5. ASSUME NEW p \in Process, Edit(p) PROVE Timers(q)'
  BY <1>0, <1>5 DEF Edit
<1>6. ASSUME NEW p \in Process, JobEnds(p) PROVE Timers(q)'
  BY <1>6 DEF JobEnds
<1>7. ASSUME NEW p \in Process, ZoneDone(p) PROVE Timers(q)'
  <2>1. CASE p = q
    <3>1. pc[q] \in Applying /\ UNCHANGED <<now, started>>
      BY <1>7, <2>1 DEF ZoneDone
    <3>2. CASE More(p) /\ NextZone(p)
      BY <1>0, <2>1, <3>1, <3>2 DEF NextZone
    <3>3. CASE Goto(p, "answered") /\ UNCHANGED <<zone, entered>>
      BY <1>0, <2>1, <3>1, <3>3
    <3> QED
      BY <1>7, <3>2, <3>3 DEF ZoneDone
  <2>2. CASE p # q
    BY <1>0, <1>7, <2>2 DEF ZoneDone, NextZone
  <2> QED
    BY <2>1, <2>2
<1>8. ASSUME NEW p \in Process, Fail(p) PROVE Timers(q)'
  BY <1>0, <1>8 DEF Fail
<1>9. ASSUME NEW p \in Process, TimeOut(p) PROVE Timers(q)'
  BY <1>0, <1>9 DEF TimeOut
<1>10. ASSUME NEW p \in Process, GiveUp(p) PROVE Timers(q)'
  BY <1>0, <1>10 DEF GiveUp, ClientOver
<1>11. ASSUME NEW p \in Process, Crash(p) PROVE Timers(q)'
  BY <1>0, <1>11 DEF Crash
<1>14. ASSUME NEW p \in Process, Disconnect(p) PROVE Timers(q)'
  BY <1>0, <1>14 DEF Disconnect
<1>12. ASSUME NEW p \in Process, Renew(p) PROVE Timers(q)'
  BY <1>12 DEF Renew
<1>13. CASE UNCHANGED vars
  BY <1>13 DEF vars
<1> QED
  BY <1>1, <1>2, <1>3, <1>4, <1>5, <1>6, <1>7, <1>8, <1>9, <1>10, <1>11,
     <1>12, <1>13, <1>14 DEF Next

\* Every action keeps a held lock with its holder, and extended.
LEMMA StepHeld ==
    ASSUME TypeOK, TypeOK', [Next]_vars, NEW q \in Process,
           \A p \in Process : Held(p)
    PROVE  Held(q)'
<1> USE Times DEF TypeOK, Goto, Holding, clocks, locks, Held
<1>1. CASE Tick
  <2>1. ~Due(q) /\ now' = now + 1
        /\ UNCHANGED <<pc, zone, holder, renewed>>
    BY <1>1 DEF Tick
  <2> QED
    BY <2>1 DEF Due, Extended
<1>2. ASSUME NEW p \in Process, Post(p) PROVE Held(q)'
  BY <1>2 DEF Post
<1>3. ASSUME NEW p \in Process, Listed(p) PROVE Held(q)'
  BY <1>3 DEF Listed
<1>4. ASSUME NEW p \in Process, Acquire(p) PROVE Held(q)'
  <2>1. CASE p = q
    BY <1>4, <2>1 DEF Acquire
  <2>2. CASE p # q /\ pc[q] \in Holding
    <3>1. zone[p] # zone[q]
      BY <1>4, <2>2, NobodyAssumption DEF Acquire
    <3> QED
      BY <1>4, <2>2, <3>1 DEF Acquire
  <2>3. CASE p # q /\ pc[q] \notin Holding
    BY <1>4, <2>3 DEF Acquire
  <2> QED
    BY <2>1, <2>2, <2>3
<1>5. ASSUME NEW p \in Process, Edit(p) PROVE Held(q)'
  BY <1>5 DEF Edit
<1>6. ASSUME NEW p \in Process, JobEnds(p) PROVE Held(q)'
  BY <1>6 DEF JobEnds
<1>7. ASSUME NEW p \in Process, ZoneDone(p) PROVE Held(q)'
  BY <1>7 DEF ZoneDone, NextZone, Release
<1>8. ASSUME NEW p \in Process, Fail(p) PROVE Held(q)'
  BY <1>8 DEF Fail, Release
<1>9. ASSUME NEW p \in Process, TimeOut(p) PROVE Held(q)'
  BY <1>9 DEF TimeOut, Release
<1>10. ASSUME NEW p \in Process, GiveUp(p) PROVE Held(q)'
  BY <1>10 DEF GiveUp, Release
<1>11. ASSUME NEW p \in Process, Crash(p) PROVE Held(q)'
  BY <1>11 DEF Crash
<1>14. ASSUME NEW p \in Process, Disconnect(p) PROVE Held(q)'
  BY <1>14 DEF Disconnect, Release
<1>12. ASSUME NEW p \in Process, Renew(p) PROVE Held(q)'
  BY <1>12 DEF Renew, Extended
<1>13. CASE UNCHANGED vars
  BY <1>13 DEF vars
<1> QED
  BY <1>1, <1>2, <1>3, <1>4, <1>5, <1>6, <1>7, <1>8, <1>9, <1>10, <1>11,
     <1>12, <1>13, <1>14 DEF Next

\* Every action keeps what is known of the jobs.
LEMMA StepJobs ==
    ASSUME TypeOK, TypeOK', [Next]_vars, NEW q \in Process,
           \A p \in Process : Timers(p) /\ Held(p) /\ Jobs(p)
    PROVE  Jobs(q)'
<1> USE Times DEF TypeOK, Goto, Jobs, clocks, locks
<1>0. zone[q] \in Zone /\ JobBy(zone[q]) \in Nat
      /\ JobBy(zone[q]) = ApplyBy(zone[q]) + LockWait
      /\ ApplyBy(zone[q]) \in Nat /\ Nobody # q
  BY ApplyByFacts, NobodyAssumption DEF JobBy
<1>1. CASE Tick
  BY <1>0, <1>1 DEF Tick
<1>2. ASSUME NEW p \in Process, Post(p) PROVE Jobs(q)'
  BY <1>0, <1>2 DEF Post
<1>3. ASSUME NEW p \in Process, Listed(p) PROVE Jobs(q)'
  BY <1>0, <1>3 DEF Listed
<1>4. ASSUME NEW p \in Process, Acquire(p) PROVE Jobs(q)'
  <2>1. CASE job[q] # None /\ holder[zone[q]] = q /\ zone[p] = zone[q]
    <3>1. pc[q] # "waiting" /\ pc[p] = "waiting" /\ p # q
      BY <1>4, <2>1 DEF Acquire
    <3>2. now >= renewed[zone[q]] + TTL
      BY <1>0, <1>4, <2>1 DEF Acquire
    <3>3. pc[q] # "sync"
      BY <2>1, <3>2 DEF Held, Holding
    <3> QED
      BY <1>0, <1>4, <2>1, <3>1, <3>2, <3>3 DEF Acquire
  <2>2. CASE ~(job[q] # None /\ holder[zone[q]] = q /\ zone[p] = zone[q])
    BY <1>0, <1>4, <2>2 DEF Acquire
  <2> QED
    BY <2>1, <2>2
<1>5. ASSUME NEW p \in Process, Edit(p) PROVE Jobs(q)'
  <2>1. CASE p = q
    <3>1. /\ pc[q] = "reading" /\ job'[q] = now /\ pc'[q] = "sync"
          /\ UNCHANGED <<now, zone, clocks, locks>>
      BY <1>5, <2>1 DEF Edit
    <3>2. /\ now <= entered[q] + LockWait
          /\ entered[q] <= started[q] + ApplyBy(zone[q])
          /\ now <= renewed[zone[q]] + Gap
      BY <3>1 DEF Timers, Held, Holding, InFlight, Applying
    <3> QED
      BY <1>0, <3>1, <3>2
  <2>2. CASE p # q
    BY <1>0, <1>5, <2>2 DEF Edit
  <2> QED
    BY <2>1, <2>2
<1>6. ASSUME NEW p \in Process, JobEnds(p) PROVE Jobs(q)'
  BY <1>0, <1>6 DEF JobEnds
<1>7. ASSUME NEW p \in Process, ZoneDone(p) PROVE Jobs(q)'
  <2>1. CASE p = q
    BY <1>7, <2>1 DEF ZoneDone
  <2>2. CASE p # q
    <3>1. /\ UNCHANGED <<now, started, job, renewed>>
          /\ pc'[q] = pc[q] /\ zone'[q] = zone[q] /\ entered'[q] = entered[q]
          /\ \/ holder'[zone[q]] = holder[zone[q]]
             \/ holder[zone[q]] = p /\ holder'[zone[q]] = Nobody
      BY <1>0, <1>7, <2>2 DEF ZoneDone, NextZone, Release
    <3> QED
      BY <1>0, <2>2, <3>1
  <2> QED
    BY <2>1, <2>2
<1>8. ASSUME NEW p \in Process, Fail(p) PROVE Jobs(q)'
  <2>1. CASE p = q
    BY <1>8, <2>1 DEF Fail, InFlight, Applying
  <2>2. CASE p # q
    BY <1>0, <1>8, <2>2 DEF Fail, Release
  <2> QED
    BY <2>1, <2>2
<1>9. ASSUME NEW p \in Process, TimeOut(p) PROVE Jobs(q)'
  <2>1. CASE p = q /\ job[q] # None
    <3>1. pc[q] = "sync"
      BY <1>9, <2>1 DEF TimeOut, LockWaitOver, ApplyOver, Applying
    <3>2. now >= entered[q] + ApplyTimeout
      BY <1>9, <2>1, <3>1 DEF TimeOut, LockWaitOver, ApplyOver
    <3> QED
      BY <1>0, <1>9, <2>1, <3>1, <3>2 DEF TimeOut, Release
  <2>2. CASE p # q \/ job[q] = None
    BY <1>0, <1>9, <2>2 DEF TimeOut, Release
  <2> QED
    BY <2>1, <2>2
<1>10. ASSUME NEW p \in Process, GiveUp(p) PROVE Jobs(q)'
  <2>1. CASE p = q /\ job[q] # None
    <3>1. now >= started[q] + ClientTimeout
      BY <1>10, <2>1 DEF GiveUp, ClientOver
    <3> QED
      BY <1>0, <1>10, <2>1, <3>1 DEF GiveUp, Release
  <2>2. CASE p # q \/ job[q] = None
    BY <1>0, <1>10, <2>2 DEF GiveUp, Release
  <2> QED
    BY <2>1, <2>2
<1>11. ASSUME NEW p \in Process, Crash(p) PROVE Jobs(q)'
  BY <1>0, <1>11 DEF Crash, Held, Holding, InFlight, Applying
<1>14. ASSUME NEW p \in Process, Disconnect(p) PROVE Jobs(q)'
  BY <1>0, <1>14 DEF Disconnect, Release, InFlight, Applying
<1>12. ASSUME NEW p \in Process, Renew(p) PROVE Jobs(q)'
  <2>1. CASE job[q] # None /\ zone[p] = zone[q]
    <3>1. holder[zone[q]] = p
      BY <1>12, <2>1 DEF Renew, Extended, Held
    <3> QED
      BY <1>0, <1>12, <2>1, <3>1 DEF Renew
  <2>2. CASE job[q] = None \/ zone[p] # zone[q]
    BY <1>0, <1>12, <2>2 DEF Renew
  <2> QED
    BY <2>1, <2>2
<1>13. CASE UNCHANGED vars
  BY <1>13 DEF vars
<1> QED
  BY <1>1, <1>2, <1>3, <1>4, <1>5, <1>6, <1>7, <1>8, <1>9, <1>10, <1>11,
     <1>12, <1>13, <1>14 DEF Next

(***************************************************************************)
(* DeadlineInv is inductive.                                               *)
(***************************************************************************)
THEOREM DeadlineInvAlways == Spec => []DeadlineInv
<1>1. Init => DeadlineInv
  <2> SUFFICES ASSUME Init PROVE DeadlineInv
    OBVIOUS
  <2> USE Times DEF Init
  <2>1. TypeOK
    BY DEF TypeOK, InFlight, Applying, Zone
  <2>2. \A p \in Process : Timers(p)
    <3> SUFFICES ASSUME NEW p \in Process PROVE Timers(p)
      OBVIOUS
    <3>1. pc[p] = "idle" /\ zone[p] = 1 /\ started[p] = 0 /\ now = 0
      OBVIOUS
    <3> QED
      BY <3>1 DEF Timers, InFlight, Applying
  <2>3. \A p \in Process : Held(p) /\ Jobs(p)
    BY DEF Held, Holding, Jobs
  <2> QED
    BY <2>1, <2>2, <2>3 DEF DeadlineInv
<1>2. DeadlineInv /\ [Next]_vars => DeadlineInv'
  <2> SUFFICES ASSUME DeadlineInv, [Next]_vars PROVE DeadlineInv'
    OBVIOUS
  <2>1. TypeOK /\ TypeOK'
    BY StepType DEF DeadlineInv
  <2>2. \A p \in Process : Timers(p) /\ Held(p) /\ Jobs(p)
    BY DEF DeadlineInv
  <2>3. \A q \in Process : Timers(q)'
    BY <2>1, <2>2, StepTimers
  <2>4. \A q \in Process : Held(q)'
    BY <2>1, <2>2, StepHeld
  <2>5. \A q \in Process : Jobs(q)'
    BY <2>1, <2>2, StepJobs
  <2> QED
    BY <2>1, <2>3, <2>4, <2>5 DEF DeadlineInv
<1> QED
  BY <1>1, <1>2, PTL DEF Spec

(***************************************************************************)
(* Every variable keeps its type, however long the times and the lists of  *)
(* zones are: a POST works on no zone but its own (provider/apply.go).     *)
(***************************************************************************)
THEOREM TypeAlways == Spec => []TypeOK
<1>1. DeadlineInv => TypeOK
  BY DEF DeadlineInv
<1> QED
  BY <1>1, DeadlineInvAlways, PTL

(***************************************************************************)
(* A POST over z zones lasts for the listing and z times applyTimeout at   *)
(* most, and this is what a client's patience has to be measured by.       *)
(***************************************************************************)
THEOREM AnswerBoundAlways == Spec => []AnswerBound
<1>1. DeadlineInv => AnswerBound
  <2> SUFFICES ASSUME DeadlineInv, NEW p \in Process
               PROVE  /\ pc[p] \in InFlight =>
                            now - started[p]
                              <= ApplyBy(zone[p]) + ApplyTimeout
                      /\ pc[p] = "abandoned" =>
                            ClientTimeout <= ApplyBy(zone[p]) + ApplyTimeout
    BY DEF AnswerBound
  <2>1. Timers(p) /\ TypeOK
    BY DEF DeadlineInv
  <2>2. zone[p] \in Zone /\ 1 \in Zone
    BY <2>1, Times DEF TypeOK, Zone
  <2>3. ApplyBy(zone[p]) \in Nat /\ ApplyBy(1) = ListLimit
    BY <2>2, ApplyByFacts
  <2> QED
    BY <2>1, <2>3, Times DEF TypeOK, Timers, InFlight
<1> QED
  BY <1>1, DeadlineInvAlways, PTL

(***************************************************************************)
(* A client that waits longer than the listing and applyTimeout for every  *)
(* zone is always answered. 605 s are more than 600 s, for one zone.       *)
(***************************************************************************)
THEOREM PatienceForAllZones ==
    ApplyBy(Zones) + ApplyTimeout < ClientTimeout
        => (Spec => []ClientGetsTheAnswer)
<1> SUFFICES ASSUME ApplyBy(Zones) + ApplyTimeout < ClientTimeout
             PROVE  Spec => []ClientGetsTheAnswer
  OBVIOUS
<1>1. DeadlineInv => ClientGetsTheAnswer
  <2> SUFFICES ASSUME DeadlineInv, NEW p \in Process, pc[p] = "abandoned"
               PROVE  FALSE
    BY DEF ClientGetsTheAnswer
  <2>1. ClientTimeout <= ApplyBy(zone[p]) + ApplyTimeout
    BY DEF DeadlineInv, Timers
  <2>2. zone[p] \in Zone
    BY DEF DeadlineInv, TypeOK
  <2>3. (zone[p] - 1) * ApplyTimeout <= (Zones - 1) * ApplyTimeout
    <3>1. zone[p] - 1 \in Nat /\ Zones - zone[p] \in Nat
      BY <2>2, Times DEF Zone
    <3>2. (Zones - 1) * ApplyTimeout
            = (zone[p] - 1) * ApplyTimeout + (Zones - zone[p]) * ApplyTimeout
      BY <2>2, Times DEF Zone
    <3>3. (Zones - zone[p]) * ApplyTimeout \in Nat
      BY <3>1, Times
    <3>4. (zone[p] - 1) * ApplyTimeout \in Nat
      BY <3>1, Times
    <3> QED
      BY <3>2, <3>3, <3>4
  <2>4. (zone[p] - 1) * ApplyTimeout \in Int
        /\ (Zones - 1) * ApplyTimeout \in Int
    BY <2>2, Times DEF Zone
  <2> QED
    BY <2>1, <2>3, <2>4, Times DEF ApplyBy
<1> QED
  BY <1>1, DeadlineInvAlways, PTL

(***************************************************************************)
(* A lock that is extended every Gap < lockTTL is never taken over from a  *)
(* running process.                                                        *)
(***************************************************************************)
THEOREM HoldersAreAloneAlways == Spec => []HoldersAreAlone
<1>1. DeadlineInv => HoldersAreAlone
  BY DEF DeadlineInv, Held, HoldersAreAlone
<1> QED
  BY <1>1, DeadlineInvAlways, PTL

(***************************************************************************)
(* The locks of short jobs are lost to errors of DPF and to clients that   *)
(* go away, but to no time limit and to no crash.                          *)
(***************************************************************************)
THEOREM TimersSpareShortJobsAlways == Spec => []TimersSpareShortJobs
<1>1. DeadlineInv => TimersSpareShortJobs
  BY DEF DeadlineInv, Jobs, Held, Holding, TimersSpareShortJobs
<1> QED
  BY <1>1, DeadlineInvAlways, PTL

=============================================================================
