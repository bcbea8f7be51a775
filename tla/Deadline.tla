-------------------------------- MODULE Deadline --------------------------------
(***************************************************************************)
(* The time limits around POST /records: applyTimeout (dpf/apply.go) and   *)
(* lockWaitTimeout (dpf/lock.go) per zone, the time a lock lasts that is   *)
(* not extended (lockTTL), and the time the client waits for the answer    *)
(* (README, 605 s).  A POST lists the zones and changes one after the      *)
(* other (provider/apply.go).  Time passes in steps of one; a step that    *)
(* has a deadline is taken before time goes on.                            *)
(***************************************************************************)
EXTENDS Integers

CONSTANTS
    Process,        \* instances of the webhook, each with one POST
    Nobody,         \* the lock of a zone has no holder
    Zones,          \* the zones every POST changes: 1 .. Zones, in this order
    ListLimit,      \* the longest ListZones, retries of dpf-go included
    LockWait,       \* lockWaitTimeout
    TTL,            \* lockTTL
    Gap,            \* the longest time between two extensions of a lock
    ApplyTimeout,   \* applyTimeout
    ClientTimeout,  \* --webhook-provider-write-timeout
    Horizon         \* bound: the time at which a behaviour ends

ASSUME NobodyAssumption == Nobody \notin Process
ASSUME TimesAssumption ==
    /\ {ListLimit, LockWait, TTL, Gap, ApplyTimeout, ClientTimeout} \subseteq Nat
    /\ Zones \in Nat \ {0}
    /\ Horizon \in Nat

(***************************************************************************)
(* dpf-go extends a lock that is held (lock.go); Gap is its interval and   *)
(* the longest time a process is stopped, together.  A process that is     *)
(* stopped for longer than its lock lasts is outside of this model.        *)
(***************************************************************************)
ASSUME GapAssumption == Gap < TTL

VARIABLES
    now,        \* the time
    pc,         \* where every process is
    zone,       \* the zone it works on
    started,    \* when its POST came in
    entered,    \* when the Apply of its zone was called
    job,        \* when the job was sent that DPF works on for it, or None
    holder,     \* of the lock of each zone
    renewed     \* when that lock was taken or last extended

clocks == <<started, entered>>
locks  == <<holder, renewed>>
vars   == <<now, pc, zone, clocks, job, locks>>

None == -1

Zone == 1 .. Zones

Applying == {"waiting", "reading", "sync"}
Holding  == {"reading", "sync"}
InFlight == {"listing"} \union Applying

TypeOK ==
    /\ now \in Nat
    /\ pc \in [Process -> InFlight \union
                  {"idle", "answered", "failed", "timedOut", "left",
                   "abandoned", "crashed"}]
    /\ zone \in [Process -> Zone]
    /\ started \in [Process -> Nat]
    /\ entered \in [Process -> Nat]
    /\ job \in [Process -> Nat \union {None}]
    /\ holder \in [Zone -> Process \union {Nobody}]
    /\ renewed \in [Zone -> Nat]

Init ==
    /\ now = 0
    /\ pc = [p \in Process |-> "idle"]
    /\ zone = [p \in Process |-> 1]
    /\ started = [p \in Process |-> 0]
    /\ entered = [p \in Process |-> 0]
    /\ job = [p \in Process |-> None]
    /\ holder = [z \in Zone |-> Nobody]
    /\ renewed = [z \in Zone |-> 0]

-----------------------------------------------------------------------------
Goto(p, place) == pc' = [pc EXCEPT ![p] = place]

\* POST /records: ListZones, which has no time limit of its own.
Post(p) ==
    /\ pc[p] = "idle"
    /\ Goto(p, "listing")
    /\ started' = [started EXCEPT ![p] = now]
    /\ UNCHANGED <<now, zone, entered, job, locks>>

\* Apply of the first zone begins, and with it both of its timers.
Listed(p) ==
    /\ pc[p] = "listing"
    /\ Goto(p, "waiting")
    /\ entered' = [entered EXCEPT ![p] = now]
    /\ UNCHANGED <<now, zone, started, job, locks>>

\* The lock is free, or was not extended for TTL.
Acquire(p) ==
    /\ pc[p] = "waiting"
    /\ \/ holder[zone[p]] = Nobody
       \/ now >= renewed[zone[p]] + TTL
    /\ Goto(p, "reading")
    /\ holder' = [holder EXCEPT ![zone[p]] = p]
    /\ renewed' = [renewed EXCEPT ![zone[p]] = now]
    /\ UNCHANGED <<now, zone, clocks, job>>

\* The edit function runs: from here on the limit of the lock wait is off.
\* Its time is counted to that of the job, which begins with the PATCH.
Edit(p) ==
    /\ pc[p] = "reading"
    /\ Goto(p, "sync")
    /\ job' = [job EXCEPT ![p] = now]
    /\ UNCHANGED <<now, zone, clocks, locks>>

\* The job reflects or fails. DPF promises no time.
JobEnds(p) ==
    /\ job[p] # None
    /\ job' = [job EXCEPT ![p] = None]
    /\ UNCHANGED <<now, pc, zone, clocks, locks>>

Release(p) ==
    /\ holder' = [holder EXCEPT ![zone[p]] = IF @ = p THEN Nobody ELSE @]
    /\ UNCHANGED renewed

\* The next zone has timers of its own.
NextZone(p) ==
    /\ Goto(p, "waiting")
    /\ zone' = [zone EXCEPT ![p] = @ + 1]
    /\ entered' = [entered EXCEPT ![p] = now]

\* Mutant: one zone too many.
MoreOrEqual(p) == zone[p] <= Zones

More(p) == zone[p] < Zones

\* A zone is done: the job succeeded, or there was nothing to change.
ZoneDone(p) ==
    /\ pc[p] = "reading" \/ (pc[p] = "sync" /\ job[p] = None)
    /\ Release(p)
    /\ \/ More(p) /\ NextZone(p)
       \/ ~More(p) /\ Goto(p, "answered") /\ UNCHANGED <<zone, entered>>
    /\ UNCHANGED <<now, started, job>>

(***************************************************************************)
(* An error of DPF ends the POST: a refusal, the failure of the job, a     *)
(* lost answer to the PATCH, or a job whose state cannot be had.  In the   *)
(* last two DPF goes on with the job.                                      *)
(***************************************************************************)
Fail(p) ==
    /\ pc[p] \in InFlight
    /\ Goto(p, "failed")
    /\ Release(p)
    /\ UNCHANGED <<now, zone, clocks, job>>

-----------------------------------------------------------------------------
\* Mutant: the edit function does not end the limit (lockWait.enter).
LockWaitNeverEntered(p) == pc[p] \in Applying /\ now >= entered[p] + LockWait

\* The limit of the lock wait covers waiting and reading again.
LockWaitOver(p) ==
    pc[p] \in {"waiting", "reading"} /\ now >= entered[p] + LockWait

\* Mutant: applyTimeout starts again with every extension of the lock.
ApplyRenewed(p) ==
    pc[p] \in Holding /\ now >= renewed[zone[p]] + ApplyTimeout

ApplyOver(p) == pc[p] \in Applying /\ now >= entered[p] + ApplyTimeout

\* The webhook ends the POST; a job that was submitted goes on.
TimeOut(p) ==
    /\ LockWaitOver(p) \/ ApplyOver(p)
    /\ Goto(p, "timedOut")
    /\ Release(p)
    /\ UNCHANGED <<now, zone, clocks, job>>

ClientOver(p) == pc[p] \in InFlight /\ now >= started[p] + ClientTimeout

\* The client's patience is over: the context of the request is cancelled.
GiveUp(p) ==
    /\ ClientOver(p)
    /\ Goto(p, "abandoned")
    /\ Release(p)
    /\ UNCHANGED <<now, zone, clocks, job>>

\* The client goes away before: it is stopped, or the connection breaks.
Disconnect(p) ==
    /\ pc[p] \in InFlight
    /\ Goto(p, "left")
    /\ Release(p)
    /\ UNCHANGED <<now, zone, clocks, job>>

\* The process dies: its job goes on, its lock stays.
Crash(p) ==
    /\ pc[p] \in InFlight
    /\ Goto(p, "crashed")
    /\ UNCHANGED <<now, zone, clocks, job, locks>>

\* Mutant: the lock is not extended while the job is awaited.
ExtendedUntilSubmit(p) == pc[p] = "reading"

\* Where dpf-go extends the lock.
Extended(p) == pc[p] \in Holding

Renew(p) ==
    /\ Extended(p)
    /\ renewed' = [renewed EXCEPT ![zone[p]] = now]
    /\ UNCHANGED <<now, pc, zone, clocks, job, holder>>

\* What must have happened before time goes on.
Due(p) ==
    \/ LockWaitOver(p) \/ ApplyOver(p) \/ ClientOver(p)
    \/ pc[p] = "listing" /\ now >= started[p] + ListLimit
    \/ Extended(p) /\ now >= renewed[zone[p]] + Gap

Tick ==
    /\ now < Horizon
    /\ \A p \in Process : ~Due(p)
    /\ now' = now + 1
    /\ UNCHANGED <<pc, zone, clocks, job, locks>>

Next ==
    \/ Tick
    \/ \E p \in Process :
          \/ Post(p) \/ Listed(p) \/ Acquire(p) \/ Edit(p) \/ ZoneDone(p)
          \/ JobEnds(p) \/ Renew(p)
          \/ Fail(p) \/ TimeOut(p) \/ GiveUp(p) \/ Disconnect(p) \/ Crash(p)

Spec == Init /\ [][Next]_vars

-----------------------------------------------------------------------------
\* The longest time before the Apply of a zone, and before its job.
ApplyBy(z) == ListLimit + (z - 1) * ApplyTimeout

JobBy(z) == ApplyBy(z) + LockWait

(***************************************************************************)
(* The time of an answer grows with the zones: applyTimeout bounds one     *)
(* zone each, and nothing but the client bounds them together.  So it is   *)
(* only given up by the client if its patience is below this sum.          *)
(***************************************************************************)
AnswerBound ==
    \A p \in Process :
        /\ pc[p] \in InFlight =>
              now - started[p] <= ApplyBy(zone[p]) + ApplyTimeout
        /\ pc[p] = "abandoned" =>
              ClientTimeout <= ApplyBy(zone[p]) + ApplyTimeout

(***************************************************************************)
(* Although processes are stopped for a while (less than Gap), the client  *)
(* gives up, timers fire and processes die, no two running processes are   *)
(* between lock and answer on one zone (lock.go: a lock does not lapse     *)
(* while editing and reflection last longer than lockTTL).                 *)
(***************************************************************************)
HoldersAreAlone ==
    \A p, q \in Process :
        /\ pc[p] \in Holding /\ pc[q] \in Holding
        /\ zone[p] = zone[q]
        => p = q

(***************************************************************************)
(* Neither a timer nor the death of the process leaves a short job of DPF  *)
(* without its lock: the lock of a dead process outlasts a job of less     *)
(* than TTL - Gap; the webhook gives up on a job only after what           *)
(* applyTimeout leaves of the lock wait, and a client whose patience is    *)
(* over after what it leaves of the listing and the zones before.  Jobs of *)
(* any length lose their lock to an error of DPF and to a client that goes *)
(* away (Fail, Disconnect), and no job to a success.                       *)
(***************************************************************************)
TimersSpareShortJobs ==
    \A p \in Process :
        job[p] # None /\ holder[zone[p]] # p =>
            \/ pc[p] \in {"failed", "left"}
            \/ pc[p] = "crashed" /\ now - job[p] >= TTL - Gap
            \/ /\ pc[p] = "timedOut"
               /\ now - job[p] >= ApplyTimeout - LockWait
            \/ /\ pc[p] = "abandoned"
               /\ now - job[p] >= ClientTimeout - JobBy(zone[p])

(***************************************************************************)
(* The claim of the README (248): because the webhook ends an application  *)
(* after 600 s itself, a client that waits 605 s always gets its answer.   *)
(***************************************************************************)
ClientGetsTheAnswer == \A p \in Process : pc[p] # "abandoned"

=============================================================================
