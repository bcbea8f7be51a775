------------------------------ MODULE ZoneApply ------------------------------
(***************************************************************************)
(* Applying change sets to one zone: what happens between the moment       *)
(* Client.Apply (internal/dpf/apply.go) is called and the moment it        *)
(* returns, for several requests at once.  The requests come from several  *)
(* replicas of the webhook, or from another program that uses the same     *)
(* zone lock (README, PC-001 (a)).                                         *)
(*                                                                         *)
(* Each request waits for the zone lock, re-reads the published records,   *)
(* merges its change set into them, replaces the whole zone by an          *)
(* asynchronous DPF job, waits for the job and releases the lock.  The     *)
(* lock, the re-read, the job and its awaiting are utils.ZoneApplier of    *)
(* dpf-go and the DPF service: they are not part of this repository and    *)
(* are modelled from the way apply.go and lock.go use them.                *)
(***************************************************************************)
EXTENDS ZoneContent

CONSTANTS
    Caller,     \* requests; a retry is a request of its own
    Free,       \* the lock has no holder
    Faults      \* what may go wrong beyond what the code is built to absorb

(***************************************************************************)
(* "cut": the wait for a job that DPF has accepted ends before the job,    *)
(*     because the context ends (the client gives up, or applyTimeout) or  *)
(*     because DPF does not say how the job is doing;                      *)
(* "unseen": DPF accepts a job but the answer to the PATCH is lost;        *)
(* "outlive": a job outlives the lock of a caller that crashed;            *)
(* "overlap": someone who does not take the lock edits the zone between    *)
(*     another caller's re-read and its job (README, PC-002 and PC-003);   *)
(* "stolen": a process is stopped for longer than lockTTL, loses its lock, *)
(*     and does not know of it when it goes on (ErrNotLockHolder).         *)
(***************************************************************************)
ASSUME FreeAssumption == Free \notin Caller
ASSUME FaultsAssumption ==
    Faults \subseteq {"cut", "unseen", "outlive", "overlap", "stolen"}

VARIABLES
    published,  \* the records the zone publishes (GetRecordCurrents)
    lock,       \* the holder of the zone lock, or Free
    pc,         \* where every request is
    wanted,     \* its change set
    base,       \* the published records it re-read, NoChange before it
    job,        \* the DPF job it submitted
    ctx,        \* its context: "live" or "cancelled"
    entered,    \* lockWait.entered
    expired,    \* lockWait.expired
    err,        \* what ZoneApplier.Apply returned
    answer,     \* what Client.Apply returned
    stopped,    \* history: the callers that were stopped and lost their lock
    stale       \* history: those whose zone a stranger changed since Read

history == <<stopped, stale>>
local   == <<wanted, base, entered, expired, stopped, stale>>
vars    == <<published, lock, pc, wanted, base, job, ctx, entered, expired,
             err, answer, stopped, stale>>

Failure == {"cancelled", "temporary", "permanent"}

TypeOK ==
    /\ published \in Content
    /\ lock \in Caller \union {Free}
    /\ pc \in [Caller -> {"idle", "waiting", "locked", "read", "patch", "sync",
                          "finish", "answered", "crashed"}]
    /\ wanted \in [Caller -> Request \union {NoChange}]
    /\ base \in [Caller -> Content \union {NoChange}]
    /\ job \in [Caller -> {"none", "running", "done", "failed", "skipped"}]
    /\ ctx \in [Caller -> {"live", "cancelled"}]
    /\ entered \in [Caller -> BOOLEAN]
    /\ expired \in [Caller -> BOOLEAN]
    /\ err \in [Caller -> Failure \union {"none"}]
    /\ answer \in [Caller -> {"none", "ok", "temporary", "permanent"}]
    /\ stopped \subseteq Caller
    /\ stale \subseteq Caller

Working == {"waiting", "locked", "read", "patch", "sync", "finish"}

\* A caller between its re-read and the reflection of what it submitted.
InWindow(c) == pc[c] \in {"read", "patch"} \/ job[c] = "running"

\* A caller whose job, if it has one, nobody waits for under the lock.
IsStranger(c) == pc[c] \in {"answered", "crashed"} \/ c \in stopped

Attended(c) == InWindow(c) /\ ~IsStranger(c)

-----------------------------------------------------------------------------
Init ==
    /\ published \in Content
    /\ lock = Free
    /\ pc = [c \in Caller |-> "idle"]
    /\ wanted = [c \in Caller |-> NoChange]
    /\ base = [c \in Caller |-> NoChange]
    /\ job = [c \in Caller |-> "none"]
    /\ ctx = [c \in Caller |-> "live"]
    /\ entered = [c \in Caller |-> FALSE]
    /\ expired = [c \in Caller |-> FALSE]
    /\ err = [c \in Caller |-> "none"]
    /\ answer = [c \in Caller |-> "none"]
    /\ stopped = {}
    /\ stale = {}

\* Apply is called; the lock wait is armed (newLockWait).
Receive(c) ==
    /\ pc[c] = "idle"
    /\ \E cs \in Request :
           wanted' = [wanted EXCEPT ![c] = cs]
    /\ pc' = [pc EXCEPT ![c] = "waiting"]
    /\ UNCHANGED <<published, lock, base, job, ctx, entered, expired, err,
                   answer, history>>

\* Mutant: the lock is taken over from its holder.
AcquireHeld(c) ==
    /\ pc[c] = "waiting"
    /\ ctx[c] = "live"
    /\ lock' = c
    /\ pc' = [pc EXCEPT ![c] = "locked"]
    /\ UNCHANGED <<published, job, ctx, err, answer, local>>

Acquire(c) ==
    /\ pc[c] = "waiting"
    /\ ctx[c] = "live"
    /\ lock = Free
    /\ lock' = c
    /\ pc' = [pc EXCEPT ![c] = "locked"]
    /\ UNCHANGED <<published, job, ctx, err, answer, local>>

(***************************************************************************)
(* ZoneApplier.Apply returns an error.  Which of the two classes Classify  *)
(* gives to an answer of DPF depends on the answer alone.                  *)
(***************************************************************************)
FailWith(c, e) ==
    /\ err' = [err EXCEPT ![c] = e]
    /\ pc' = [pc EXCEPT ![c] = "finish"]
    /\ UNCHANGED <<published, lock, ctx, answer, local>>

\* DPF does not give the lock (label limit) or does not answer.
AcquireFails(c) ==
    /\ pc[c] = "waiting"
    /\ ctx[c] = "live"
    /\ \E e \in {"temporary", "permanent"} : FailWith(c, e)
    /\ UNCHANGED job

\* Mutant: the records come from a cache.
ReadCached(c) ==
    /\ pc[c] = "locked"
    /\ \E content \in Content : base' = [base EXCEPT ![c] = content]
    /\ pc' = [pc EXCEPT ![c] = "read"]
    /\ UNCHANGED <<published, lock, wanted, job, ctx, entered, expired, err,
                   answer, history>>

\* The published records are read again, under the lock.
Read(c) ==
    /\ pc[c] = "locked"
    /\ base' = [base EXCEPT ![c] = published]
    /\ pc' = [pc EXCEPT ![c] = "read"]
    /\ UNCHANGED <<published, lock, wanted, job, ctx, entered, expired, err,
                   answer, history>>

ReadFails(c) ==
    /\ pc[c] = "locked"
    /\ ctx[c] = "live"
    /\ \E e \in {"temporary", "permanent"} : FailWith(c, e)
    /\ UNCHANGED job

(***************************************************************************)
(* The edit function: the lock wait is over, the change set is merged, and *)
(* nothing is submitted when that changes nothing (utils.ErrSkipApply).    *)
(* It does not look at the context.                                        *)
(***************************************************************************)
Edit(c) ==
    /\ pc[c] = "read"
    /\ entered' = [entered EXCEPT ![c] = TRUE]
    /\ \/ /\ Merged(base[c], wanted[c]) = base[c]
          /\ job' = [job EXCEPT ![c] = "skipped"]
          /\ pc' = [pc EXCEPT ![c] = "finish"]
       \/ /\ Merged(base[c], wanted[c]) # base[c]
          /\ pc' = [pc EXCEPT ![c] = "patch"]
          /\ UNCHANGED job
    /\ UNCHANGED <<published, lock, wanted, base, ctx, expired, err, answer,
                   history>>

\* merge refuses the change set (permanent) or guard the result (temporary).
EditFails(c) ==
    /\ pc[c] = "read"
    /\ entered' = [entered EXCEPT ![c] = TRUE]
    /\ \E e \in {"temporary", "permanent"} : err' = [err EXCEPT ![c] = e]
    /\ pc' = [pc EXCEPT ![c] = "finish"]
    /\ UNCHANGED <<published, lock, wanted, base, job, ctx, expired, answer,
                   history>>

-----------------------------------------------------------------------------
\* Mutant: the lock ends with the PATCH, not with the reflection.
SubmitUnlocked(c) ==
    /\ pc[c] = "patch"
    /\ ctx[c] = "live"
    /\ job' = [job EXCEPT ![c] = "running"]
    /\ pc' = [pc EXCEPT ![c] = "sync"]
    /\ lock' = IF lock = c THEN Free ELSE lock
    /\ UNCHANGED <<published, ctx, err, answer, local>>

\* DPF accepts the replacement of the zone and starts a job.
Submit(c) ==
    /\ pc[c] = "patch"
    /\ ctx[c] = "live"
    /\ job' = [job EXCEPT ![c] = "running"]
    /\ pc' = [pc EXCEPT ![c] = "sync"]
    /\ UNCHANGED <<published, lock, ctx, err, answer, local>>

\* DPF refuses it.
SubmitFails(c) ==
    /\ pc[c] = "patch"
    /\ ctx[c] = "live"
    /\ \E e \in {"temporary", "permanent"} : FailWith(c, e)
    /\ UNCHANGED job

\* DPF accepts it, but the caller only sees a broken request.
SubmitUnseen(c) ==
    /\ "unseen" \in Faults
    /\ pc[c] = "patch"
    /\ job' = [job EXCEPT ![c] = "running"]
    /\ FailWith(c, IF ctx[c] = "live" THEN "temporary" ELSE "cancelled")

\* The job replaces everything the zone publishes.
Reflect(c) ==
    /\ job[c] = "running"
    /\ published' = Merged(base[c], wanted[c])
    /\ job' = [job EXCEPT ![c] = "done"]
    /\ stale' = stale \union {d \in Caller : IsStranger(c) /\ Attended(d)}
    /\ UNCHANGED <<lock, pc, wanted, base, ctx, entered, expired, err, answer,
                   stopped>>

JobFails(c) ==
    /\ job[c] = "running"
    /\ job' = [job EXCEPT ![c] = "failed"]
    /\ UNCHANGED <<published, lock, pc, ctx, err, answer, local>>

\* SyncWait sees the end of the job.
SyncEnds(c) ==
    /\ pc[c] = "sync"
    /\ job[c] \in {"done", "failed"}
    /\ err' = [err EXCEPT
                 ![c] = IF job[c] = "done" THEN "none" ELSE "temporary"]
    /\ pc' = [pc EXCEPT ![c] = "finish"]
    /\ UNCHANGED <<published, lock, job, ctx, answer, local>>

\* The state of the job cannot be had; the job goes on.
SyncFails(c) ==
    /\ "cut" \in Faults
    /\ pc[c] = "sync"
    /\ ctx[c] = "live"
    /\ \E e \in {"temporary", "permanent"} : FailWith(c, e)
    /\ UNCHANGED job

\* Mutant: SyncWait is not given the context.
CutShortBeforeSync(c) ==
    /\ pc[c] \in {"waiting", "locked", "patch"}
    /\ ctx[c] = "cancelled"
    /\ FailWith(c, "cancelled")
    /\ UNCHANGED job

(***************************************************************************)
(* The end of the context is noticed while waiting for the lock, for an    *)
(* answer of DPF or for the job, which goes on.                            *)
(***************************************************************************)
CutShort(c) ==
    /\ pc[c] \in {"waiting", "locked", "patch", "sync"}
    /\ ctx[c] = "cancelled"
    /\ FailWith(c, "cancelled")
    /\ UNCHANGED job

\* Mutants: the error is returned as it is; a job that goes on is as good as
\* one that has ended.
AnswerUnclassified(c) == IF err[c] = "none" THEN "ok" ELSE err[c]

AnswerHopeful(c) ==
    IF err[c] = "none" \/ job[c] = "running" THEN "ok" ELSE "temporary"

\* An error is replaced by the lock timeout if the limit of the wait was
\* reached (wait.err), and classified.
AnswerOf(c) ==
    IF err[c] = "none" THEN "ok"
    ELSE IF expired[c] \/ err[c] = "cancelled" THEN "temporary"
    ELSE err[c]

\* Mutant: a failure leaves the lock behind.
ReleaseOnSuccess(c) ==
    lock' = IF lock = c /\ err[c] = "none" THEN Free ELSE lock

\* The lock is released on every path, if it is still the caller's.
Release(c) == lock' = IF lock = c THEN Free ELSE lock

\* Apply returns; its deferred calls cancel the context.
Finish(c) ==
    /\ pc[c] = "finish"
    /\ Release(c)
    /\ answer' = [answer EXCEPT ![c] = AnswerOf(c)]
    /\ pc' = [pc EXCEPT ![c] = "answered"]
    /\ ctx' = [ctx EXCEPT ![c] = "cancelled"]
    /\ UNCHANGED <<published, job, err, local>>

-----------------------------------------------------------------------------
\* The limit of the lock wait is reached before the edit function runs.
LockWaitExpires(c) ==
    /\ pc[c] \in Working
    /\ ~entered[c] /\ ~expired[c]
    /\ expired' = [expired EXCEPT ![c] = TRUE]
    /\ ctx' = [ctx EXCEPT ![c] = "cancelled"]
    /\ UNCHANGED <<published, lock, pc, wanted, base, job, entered, err,
                   answer, history>>

\* applyTimeout, or the client gives up (the context of the HTTP request).
Cancel(c) ==
    /\ pc[c] \in Working
    /\ pc[c] \in {"patch", "sync"} => "cut" \in Faults
    /\ ctx[c] = "live"
    /\ ctx' = [ctx EXCEPT ![c] = "cancelled"]
    /\ UNCHANGED <<published, lock, pc, job, err, answer, local>>

\* The process dies.  A job it has submitted goes on, its lock stays.
Crash(c) ==
    /\ pc[c] \in Working
    /\ pc' = [pc EXCEPT ![c] = "crashed"]
    /\ UNCHANGED <<published, lock, job, ctx, err, answer, local>>

\* Mutant: the lock is not extended while it is held.
LockLapsesHeld(c) ==
    /\ lock = c
    /\ lock' = Free
    /\ UNCHANGED <<published, pc, job, ctx, err, answer, local>>

\* lockTTL after a crash, others may take the lock.
LockLapses(c) ==
    /\ pc[c] = "crashed"
    /\ lock = c
    /\ job[c] = "running" => "outlive" \in Faults
    /\ lock' = Free
    /\ UNCHANGED <<published, pc, job, ctx, err, answer, local>>

(***************************************************************************)
(* A running process that was stopped for longer than lockTTL has lost its *)
(* lock; it goes on with what it was doing ...                             *)
(***************************************************************************)
LockIsLost(c) ==
    /\ "stolen" \in Faults
    /\ pc[c] \in {"locked", "read", "patch", "sync"}
    /\ lock = c
    /\ lock' = Free
    /\ stopped' = stopped \union {c}
    /\ UNCHANGED <<published, pc, wanted, base, job, ctx, entered, expired,
                   err, answer, stale>>

\* ... until dpf-go notices (ErrNotLockHolder).
LossNoticed(c) ==
    /\ c \in stopped
    /\ pc[c] \in {"locked", "patch", "sync"}
    /\ FailWith(c, "temporary")
    /\ UNCHANGED job

\* The console, or a program that does not take the lock.
OutsideEdit ==
    /\ "overlap" \in Faults \/ \A c \in Caller : ~InWindow(c)
    /\ published' \in Content
    /\ stale' = stale \union {c \in Caller : Attended(c)}
    /\ UNCHANGED <<lock, pc, wanted, base, job, ctx, entered, expired, err,
                   answer, stopped>>

-----------------------------------------------------------------------------
\* The steps a running process takes by itself, and the errors of DPF.
Step(c) ==
    \/ Acquire(c) \/ Read(c) \/ Edit(c) \/ EditFails(c) \/ Submit(c)
    \/ SyncEnds(c) \/ CutShort(c) \/ Finish(c)

Error(c) ==
    \/ AcquireFails(c) \/ ReadFails(c) \/ SubmitFails(c) \/ SubmitUnseen(c)
    \/ SyncFails(c) \/ LossNoticed(c)

Service(c) == Reflect(c) \/ JobFails(c)

Next ==
    \/ \E c \in Caller :
          \/ Receive(c) \/ Step(c) \/ Error(c) \/ Service(c)
          \/ LockWaitExpires(c) \/ Cancel(c) \/ Crash(c) \/ LockLapses(c)
          \/ LockIsLost(c)
    \/ OutsideEdit

Spec == Init /\ [][Next]_vars

(***************************************************************************)
(* Fairness.  A running process takes its next step when nothing holds it  *)
(* up, and its timers fire: the limit of the lock wait, applyTimeout, and  *)
(* lockTTL after a crash.  Nothing is assumed of clients, of errors, of    *)
(* the order in which waiters get the lock, or of DPF: a job it accepted   *)
(* may run for ever.                                                       *)
(***************************************************************************)
Fairness ==
    \A c \in Caller :
        /\ WF_vars(Step(c))
        /\ WF_vars(LockWaitExpires(c))
        /\ WF_vars(Cancel(c))
        /\ WF_vars(LockLapses(c))

FairSpec == Spec /\ Fairness

-----------------------------------------------------------------------------
(***************************************************************************)
(* No two callers are between re-read and reflection at once, and neither  *)
(* a job nor a merge is under way without the lock: the lock covers "from  *)
(* the re-read to the reflection" (lock.go, lockOptions).  It does as long *)
(* as accepted jobs are awaited: cut, unseen, outlive and stolen break it. *)
(***************************************************************************)
LockCoversReflection == \A c \in Caller : InWindow(c) => lock = c

(***************************************************************************)
(* Of the callers that are running, and that were never stopped for longer *)
(* than lockTTL, at most one is between its re-read and the end of its     *)
(* wait for the job: neither contexts that end, nor lost answers, crashes  *)
(* or locks taken from others let a second one in (lock.go, lockOptions).  *)
(* A caller that was stopped for longer is not covered: it goes on beside  *)
(* the next holder until it notices (LockIsLost).                          *)
(***************************************************************************)
OneWriterAtATime ==
    \A c, d \in Caller \ stopped :
        /\ pc[c] \in {"read", "patch", "sync"}
        /\ pc[d] \in {"read", "patch", "sync"}
        => c = d

(***************************************************************************)
(* Under every fault, an update is lost only by or to a stranger: an edit  *)
(* without the lock, or a job whose caller is gone or was stopped for      *)
(* longer than lockTTL.  A job somebody attends to still changes the zone  *)
(* exactly as its change set asks, unless a stranger changed the zone      *)
(* since the re-read (lock.go, lockOptions: "lost update").                *)
(***************************************************************************)
LostOnlyToStrangers ==
    [][\A c \in Caller \ stale :
          ~IsStranger(c) /\ job[c] = "running" /\ job'[c] = "done"
              => published' = Merged(published, wanted[c])]_vars

(***************************************************************************)
(* No lost update: whenever a job of c reflects, the zone changes exactly  *)
(* as c's change set asks, whatever other callers did since c started, if  *)
(* jobs are awaited and nobody edits within a window (no fault at all; see *)
(* LostOnlyToStrangers for what is left under faults).                     *)
(***************************************************************************)
NoLostUpdate ==
    [][\A c \in Caller :
          job[c] = "running" /\ job'[c] = "done"
              => published' = Merged(published, wanted[c])]_vars

(***************************************************************************)
(* Success is never answered before the reflection (FR-011), nor when DPF  *)
(* refused or failed (FR-012).                                             *)
(***************************************************************************)
OkMeansReflected ==
    \A c \in Caller : answer[c] = "ok" => job[c] \in {"done", "skipped"}

\* Every request is answered, whatever the lock's holder and DPF do.
EveryRequestAnswered ==
    \A c \in Caller : pc[c] = "waiting" ~> pc[c] \in {"answered", "crashed"}

\* Nobody keeps the zone lock for ever, not even by crashing.
LockComesFree == \A c \in Caller : lock = c ~> lock # c

-----------------------------------------------------------------------------
(***************************************************************************)
(* Refinement.  A request counts as effective from the reflection of its   *)
(* job on, or from the moment it found nothing to do.                      *)
(***************************************************************************)
StatusOf(c) ==
    CASE pc[c] = "idle" -> "idle"
      [] pc[c] = "answered" -> IF answer[c] = "ok" THEN "ok" ELSE "failed"
      [] pc[c] \notin {"idle", "answered"} /\ job[c] \in {"done", "skipped"}
            -> "effective"
      [] pc[c] = "crashed" /\ job[c] \in {"none", "failed"} -> "failed"
      [] OTHER -> "pending"

Abstract == INSTANCE AtomicZone WITH status <- [c \in Caller |-> StatusOf(c)]

(***************************************************************************)
(* Without faults, Apply is atomic: it implements AtomicZone.              *)
(***************************************************************************)
ImplementsAtomicZone == Abstract!Spec

=============================================================================
