--------------------------- MODULE ZoneApply_proofs ---------------------------
(***************************************************************************)
(* Proofs about ZoneApply, for every set of keys, records, requests and    *)
(* callers.                                                                *)
(***************************************************************************)
EXTENDS ZoneApply, TLAPS

(***************************************************************************)
(* A merged zone is a zone.                                                *)
(***************************************************************************)
LEMMA MergedIsContent ==
    ASSUME NEW content \in Content, NEW cs \in Request \union {NoChange}
    PROVE  Merged(content, cs) \in Content
<1>1. cs \in ChangeSets
  <2>1. NoChange \in ChangeSets
    <3>1. NoChange \in [{} -> Val \union {NoVal}]
      BY DEF NoChange
    <3>. QED BY <3>1 DEF ChangeSets
  <2>. QED BY <2>1, RequestAssumption
<1>2. PICK K \in SUBSET Key : cs \in [K -> Val \union {NoVal}]
  BY <1>1 DEF ChangeSets
<1>. QED BY <1>2 DEF Merged, Content

-----------------------------------------------------------------------------
(***************************************************************************)
(* The parts of the inductive invariant that hold under every fault: a     *)
(* caller past Acquire and before Finish holds the lock unless it was      *)
(* stopped for too long, and what it knows of its job and of its errors    *)
(* agrees with how far it has come.                                        *)
(***************************************************************************)
Holds == \A c \in Caller :
    /\ pc[c] \in {"locked", "read", "patch", "sync"} /\ c \notin stopped
          => lock = c
    /\ c \in stopped => pc[c] \notin {"idle", "waiting"}

Progress == \A c \in Caller :
    /\ pc[c] \in {"idle", "waiting", "locked", "read", "patch"}
          => job[c] = "none"
    /\ pc[c] \in {"idle", "waiting", "locked", "read", "patch", "sync"}
          => err[c] = "none"
    /\ pc[c] \in {"patch", "sync"} => entered[c]
    /\ pc[c] = "sync" => job[c] \in {"running", "done", "failed"}
    /\ pc[c] \in {"read", "patch", "sync"} \/ job[c] = "running"
          => base[c] \in Content
    /\ pc[c] \in {"finish", "answered"} /\ err[c] = "none"
          => job[c] \in {"done", "skipped"}
    /\ pc[c] # "answered" => answer[c] = "none"
    /\ pc[c] = "answered" => (answer[c] = "ok" <=> err[c] = "none")

BaseInv == TypeOK /\ Holds /\ Progress

(***************************************************************************)
(* The type invariant of ZoneApply, with the lock's discipline it needs.   *)
(***************************************************************************)
LEMMA BaseInductive == Spec => []BaseInv
<1>1. Init => BaseInv
  BY DEF Init, BaseInv, TypeOK, Holds, Progress, Content
<1>2. BaseInv /\ [Next]_vars => BaseInv'
  <2> SUFFICES ASSUME BaseInv, [Next]_vars PROVE BaseInv'
    OBVIOUS
  <2> USE DEF BaseInv, TypeOK, Holds, Progress, local, history
  <2>1. ASSUME NEW c \in Caller, Receive(c) PROVE BaseInv'
    BY <2>1 DEF Receive
  <2>2. ASSUME NEW c \in Caller, Acquire(c) PROVE BaseInv'
    BY <2>2, FreeAssumption DEF Acquire
  <2>3. ASSUME NEW c \in Caller, AcquireFails(c) PROVE BaseInv'
    BY <2>3 DEF AcquireFails, FailWith, Failure
  <2>4. ASSUME NEW c \in Caller, Read(c) PROVE BaseInv'
    BY <2>4 DEF Read
  <2>5. ASSUME NEW c \in Caller, ReadFails(c) PROVE BaseInv'
    BY <2>5 DEF ReadFails, FailWith, Failure
  <2>6. ASSUME NEW c \in Caller, Edit(c) PROVE BaseInv'
    BY <2>6 DEF Edit
  <2>7. ASSUME NEW c \in Caller, Submit(c) PROVE BaseInv'
    BY <2>7 DEF Submit
  <2>8. ASSUME NEW c \in Caller, SubmitFails(c) PROVE BaseInv'
    BY <2>8 DEF SubmitFails, FailWith, Failure
  <2>9. ASSUME NEW c \in Caller, SubmitUnseen(c) PROVE BaseInv'
    BY <2>9 DEF SubmitUnseen, FailWith, Failure
  <2>10. ASSUME NEW c \in Caller, Reflect(c) PROVE BaseInv'
    <3>1. Merged(base[c], wanted[c]) \in Content
      BY <2>10, MergedIsContent DEF Reflect
    <3>. QED BY <2>10, <3>1 DEF Reflect
  <2>11. ASSUME NEW c \in Caller, JobFails(c) PROVE BaseInv'
    BY <2>11 DEF JobFails
  <2>12. ASSUME NEW c \in Caller, SyncEnds(c) PROVE BaseInv'
    BY <2>12 DEF SyncEnds, Failure
  <2>13. ASSUME NEW c \in Caller, CutShort(c) PROVE BaseInv'
    BY <2>13 DEF CutShort, FailWith, Failure
  <2>14. ASSUME NEW c \in Caller, Finish(c) PROVE BaseInv'
    BY <2>14 DEF Finish, Release, AnswerOf, Failure
  <2>15. ASSUME NEW c \in Caller, LockWaitExpires(c) PROVE BaseInv'
    BY <2>15 DEF LockWaitExpires
  <2>16. ASSUME NEW c \in Caller, Cancel(c) PROVE BaseInv'
    BY <2>16 DEF Cancel
  <2>17. ASSUME NEW c \in Caller, Crash(c) PROVE BaseInv'
    BY <2>17 DEF Crash, Working
  <2>18. ASSUME NEW c \in Caller, LockLapses(c) PROVE BaseInv'
    BY <2>18 DEF LockLapses
  <2>19. CASE OutsideEdit
    BY <2>19 DEF OutsideEdit
  <2>20. ASSUME NEW c \in Caller, EditFails(c) PROVE BaseInv'
    BY <2>20 DEF EditFails, Failure
  <2>21. CASE UNCHANGED vars
    BY <2>21 DEF vars
  <2>22. ASSUME NEW c \in Caller, SyncFails(c) PROVE BaseInv'
    BY <2>22 DEF SyncFails, FailWith, Failure
  <2>23. ASSUME NEW c \in Caller, LockIsLost(c) PROVE BaseInv'
    BY <2>23 DEF LockIsLost
  <2>24. ASSUME NEW c \in Caller, LossNoticed(c) PROVE BaseInv'
    BY <2>24 DEF LossNoticed, FailWith, Failure
  <2>. QED
    BY <2>1, <2>2, <2>3, <2>4, <2>5, <2>6, <2>7, <2>8, <2>9, <2>10, <2>11,
       <2>12, <2>13, <2>14, <2>15, <2>16, <2>17, <2>18, <2>19, <2>20,
       <2>21, <2>22, <2>23, <2>24 DEF Next, Step, Error, Service
<1>. QED BY <1>1, <1>2, PTL DEF Spec

(***************************************************************************)
(* Every variable of ZoneApply keeps its type.                             *)
(***************************************************************************)
THEOREM TypeCorrect == Spec => []TypeOK
<1>1. BaseInv => TypeOK
  BY DEF BaseInv
<1>. QED BY <1>1, BaseInductive, PTL

(***************************************************************************)
(* Under every fault, of the running callers that were never stopped for   *)
(* longer than lockTTL at most one is between its re-read and the end of   *)
(* its wait: the zone lock does its work.                                  *)
(***************************************************************************)
THEOREM OneWriter == Spec => []OneWriterAtATime
<1>1. BaseInv => OneWriterAtATime
  BY DEF BaseInv, Holds, OneWriterAtATime
<1>. QED BY <1>1, BaseInductive, PTL

(***************************************************************************)
(* Whatever the faults, success is answered only after the reflection, or  *)
(* when there was nothing to reflect.                                      *)
(***************************************************************************)
THEOREM OkOnlyAfterReflection == Spec => []OkMeansReflected
<1>1. BaseInv => OkMeansReflected
  BY DEF BaseInv, Progress, TypeOK, OkMeansReflected
<1>. QED BY <1>1, BaseInductive, PTL

-----------------------------------------------------------------------------
(***************************************************************************)
(* What a lock holder re-read is what the zone publishes, unless a         *)
(* stranger changed the zone since.  It holds under every fault, because   *)
(* whoever loses the lock in its window becomes a stranger: AttendedHold   *)
(* says so, and with it no other attended job can reflect meanwhile.       *)
(***************************************************************************)
AttendedHold == \A c \in Caller :
    Attended(c) => lock = c

FreshUnlessStale == \A c \in Caller \ stale :
    Attended(c) => base[c] = published

LEMMA FreshInductive == Spec => [](BaseInv /\ AttendedHold /\ FreshUnlessStale)
<1>1. Init => AttendedHold /\ FreshUnlessStale
  BY DEF Init, AttendedHold, FreshUnlessStale, Attended, InWindow
<1>2. BaseInv /\ BaseInv' /\ AttendedHold /\ FreshUnlessStale /\ [Next]_vars
        => AttendedHold' /\ FreshUnlessStale'
  <2> SUFFICES ASSUME BaseInv, BaseInv', AttendedHold, FreshUnlessStale,
                      [Next]_vars
               PROVE  AttendedHold' /\ FreshUnlessStale'
    OBVIOUS
  <2> DEFINE Goal == AttendedHold' /\ FreshUnlessStale'
  <2> USE DEF BaseInv, TypeOK, Holds, Progress, AttendedHold,
              FreshUnlessStale, InWindow, IsStranger, Attended, local, history
  <2>1. ASSUME NEW c \in Caller, Receive(c) PROVE Goal
    BY <2>1 DEF Receive
  <2>2. ASSUME NEW c \in Caller, Acquire(c) PROVE Goal
    BY <2>2, FreeAssumption DEF Acquire
  <2>3. ASSUME NEW c \in Caller, AcquireFails(c) PROVE Goal
    BY <2>3 DEF AcquireFails, FailWith
  <2>4. ASSUME NEW c \in Caller, Read(c) PROVE Goal
    BY <2>4 DEF Read
  <2>5. ASSUME NEW c \in Caller, ReadFails(c) PROVE Goal
    BY <2>5 DEF ReadFails, FailWith
  <2>6. ASSUME NEW c \in Caller, Edit(c) PROVE Goal
    BY <2>6 DEF Edit
  <2>7. ASSUME NEW c \in Caller, Submit(c) PROVE Goal
    BY <2>7 DEF Submit
  <2>8. ASSUME NEW c \in Caller, SubmitFails(c) PROVE Goal
    BY <2>8 DEF SubmitFails, FailWith
  <2>9. ASSUME NEW c \in Caller, SubmitUnseen(c) PROVE Goal
    BY <2>9 DEF SubmitUnseen, FailWith
  <2>10. ASSUME NEW c \in Caller, Reflect(c) PROVE Goal
    BY <2>10 DEF Reflect
  <2>11. ASSUME NEW c \in Caller, JobFails(c) PROVE Goal
    BY <2>11 DEF JobFails
  <2>12. ASSUME NEW c \in Caller, SyncEnds(c) PROVE Goal
    BY <2>12 DEF SyncEnds
  <2>13. ASSUME NEW c \in Caller, CutShort(c) PROVE Goal
    BY <2>13 DEF CutShort, FailWith
  <2>14. ASSUME NEW c \in Caller, Finish(c) PROVE Goal
    BY <2>14 DEF Finish, Release, AnswerOf
  <2>15. ASSUME NEW c \in Caller, LockWaitExpires(c) PROVE Goal
    BY <2>15 DEF LockWaitExpires
  <2>16. ASSUME NEW c \in Caller, Cancel(c) PROVE Goal
    BY <2>16 DEF Cancel
  <2>17. ASSUME NEW c \in Caller, Crash(c) PROVE Goal
    BY <2>17 DEF Crash, Working
  <2>18. ASSUME NEW c \in Caller, LockLapses(c) PROVE Goal
    BY <2>18 DEF LockLapses
  <2>20. ASSUME NEW c \in Caller, EditFails(c) PROVE Goal
    BY <2>20 DEF EditFails
  <2>22. ASSUME NEW c \in Caller, SyncFails(c) PROVE Goal
    BY <2>22 DEF SyncFails, FailWith
  <2>23. ASSUME NEW c \in Caller, LockIsLost(c) PROVE Goal
    BY <2>23 DEF LockIsLost
  <2>24. ASSUME NEW c \in Caller, LossNoticed(c) PROVE Goal
    BY <2>24 DEF LossNoticed, FailWith
  <2>19. CASE OutsideEdit
    BY <2>19 DEF OutsideEdit
  <2>21. CASE UNCHANGED vars
    BY <2>21 DEF vars
  <2>. QED
    BY <2>1, <2>2, <2>3, <2>4, <2>5, <2>6, <2>7, <2>8, <2>9, <2>10, <2>11,
       <2>12, <2>13, <2>14, <2>15, <2>16, <2>17, <2>18, <2>19, <2>20,
       <2>21, <2>22, <2>23, <2>24 DEF Next, Step, Error, Service
<1>. QED BY <1>1, <1>2, BaseInductive, PTL DEF Spec

(***************************************************************************)
(* Under every fault, updates are lost by and to strangers only: an edit   *)
(* without the lock, or a job whose caller is gone or was stopped for      *)
(* longer than lockTTL.                                                    *)
(***************************************************************************)
THEOREM OnlyStrangersLose == Spec => LostOnlyToStrangers
<1>1. BaseInv /\ FreshUnlessStale /\ [Next]_vars
        => [\A c \in Caller \ stale :
               ~IsStranger(c) /\ job[c] = "running" /\ job'[c] = "done"
                   => published' = Merged(published, wanted[c])]_vars
  <2> SUFFICES ASSUME BaseInv, FreshUnlessStale, Next,
                      NEW c \in Caller \ stale, ~IsStranger(c),
                      job[c] = "running", job'[c] = "done"
               PROVE  published' = Merged(published, wanted[c])
    BY DEF vars
  <2>1. Reflect(c)
    BY DEF BaseInv, TypeOK, Progress, Next, Step, Error, Service,
           Receive, Acquire, AcquireFails, Read, ReadFails, Edit, EditFails,
           Submit, SubmitFails, SubmitUnseen, FailWith, Reflect, JobFails,
           SyncEnds, SyncFails, CutShort, Finish, Release, AnswerOf,
           LockWaitExpires, Cancel, Crash, LockLapses, LockIsLost,
           LossNoticed, OutsideEdit
  <2>2. base[c] = published
    BY DEF FreshUnlessStale, Attended, InWindow
  <2>. QED BY <2>1, <2>2 DEF Reflect
<1>. QED BY <1>1, FreshInductive, PTL DEF Spec, LostOnlyToStrangers

-----------------------------------------------------------------------------
(***************************************************************************)
(* Nobody stops waiting for an accepted job before it ends, no job         *)
(* outlives the lock of a crashed caller, and no caller loses its lock by  *)
(* being stopped for longer than lockTTL.                                  *)
(***************************************************************************)
JobsAreAwaited == Faults \cap {"cut", "unseen", "outlive", "stolen"} = {}

\* Those who do not take the lock stay out of the windows of those who do.
WindowsAreKept == "overlap" \notin Faults

(***************************************************************************)
(* A running job belongs to a caller that still holds the lock.  By        *)
(* itself this is not inductive: Submit needs Holds, CutShort is excluded   *)
(* because the context is live at "patch" and "sync".                      *)
(***************************************************************************)
JobsHold == \A c \in Caller :
    /\ job[c] = "running" => lock = c /\ pc[c] \in {"sync", "crashed"}
    /\ pc[c] = "sync" => ctx[c] = "live"
    /\ c \notin stopped

LEMMA JobsHoldInductive ==
    ASSUME JobsAreAwaited
    PROVE  Spec => []JobsHold
<1>1. Init => JobsHold
  BY DEF Init, JobsHold
<1>2. BaseInv /\ BaseInv' /\ JobsHold /\ [Next]_vars => JobsHold'
  <2> SUFFICES ASSUME BaseInv, BaseInv', JobsHold, [Next]_vars PROVE JobsHold'
    OBVIOUS
  <2> USE DEF BaseInv, TypeOK, Holds, Progress, JobsHold, local, history
  <2>1. ASSUME NEW c \in Caller, Receive(c) PROVE JobsHold'
    BY <2>1 DEF Receive
  <2>2. ASSUME NEW c \in Caller, Acquire(c) PROVE JobsHold'
    BY <2>2, FreeAssumption DEF Acquire
  <2>3. ASSUME NEW c \in Caller, AcquireFails(c) PROVE JobsHold'
    BY <2>3 DEF AcquireFails, FailWith
  <2>4. ASSUME NEW c \in Caller, Read(c) PROVE JobsHold'
    BY <2>4 DEF Read
  <2>5. ASSUME NEW c \in Caller, ReadFails(c) PROVE JobsHold'
    BY <2>5 DEF ReadFails, FailWith
  <2>6. ASSUME NEW c \in Caller, Edit(c) PROVE JobsHold'
    BY <2>6 DEF Edit
  <2>7. ASSUME NEW c \in Caller, Submit(c) PROVE JobsHold'
    BY <2>7 DEF Submit
  <2>8. ASSUME NEW c \in Caller, SubmitFails(c) PROVE JobsHold'
    BY <2>8 DEF SubmitFails, FailWith
  <2>9. ASSUME NEW c \in Caller, SubmitUnseen(c) PROVE JobsHold'
    BY <2>9, JobsAreAwaited DEF SubmitUnseen, JobsAreAwaited
  <2>10. ASSUME NEW c \in Caller, Reflect(c) PROVE JobsHold'
    BY <2>10 DEF Reflect
  <2>11. ASSUME NEW c \in Caller, JobFails(c) PROVE JobsHold'
    BY <2>11 DEF JobFails
  <2>12. ASSUME NEW c \in Caller, SyncEnds(c) PROVE JobsHold'
    BY <2>12 DEF SyncEnds
  <2>13. ASSUME NEW c \in Caller, CutShort(c) PROVE JobsHold'
    BY <2>13 DEF CutShort, FailWith
  <2>14. ASSUME NEW c \in Caller, Finish(c) PROVE JobsHold'
    BY <2>14 DEF Finish, Release, AnswerOf
  <2>15. ASSUME NEW c \in Caller, LockWaitExpires(c) PROVE JobsHold'
    BY <2>15 DEF LockWaitExpires
  <2>16. ASSUME NEW c \in Caller, Cancel(c) PROVE JobsHold'
    BY <2>16, JobsAreAwaited DEF Cancel, JobsAreAwaited
  <2>17. ASSUME NEW c \in Caller, Crash(c) PROVE JobsHold'
    BY <2>17 DEF Crash, Working
  <2>18. ASSUME NEW c \in Caller, LockLapses(c) PROVE JobsHold'
    BY <2>18, JobsAreAwaited DEF LockLapses, JobsAreAwaited
  <2>19. CASE OutsideEdit
    BY <2>19 DEF OutsideEdit
  <2>20. ASSUME NEW c \in Caller, EditFails(c) PROVE JobsHold'
    BY <2>20 DEF EditFails
  <2>21. CASE UNCHANGED vars
    BY <2>21 DEF vars
  <2>22. ASSUME NEW c \in Caller, SyncFails(c) PROVE JobsHold'
    BY <2>22, JobsAreAwaited DEF SyncFails, JobsAreAwaited
  <2>23. ASSUME NEW c \in Caller, LockIsLost(c) PROVE JobsHold'
    BY <2>23, JobsAreAwaited DEF LockIsLost, JobsAreAwaited
  <2>24. ASSUME NEW c \in Caller, LossNoticed(c) PROVE JobsHold'
    BY <2>24 DEF LossNoticed, JobsHold
  <2>. QED
    BY <2>1, <2>2, <2>3, <2>4, <2>5, <2>6, <2>7, <2>8, <2>9, <2>10, <2>11,
       <2>12, <2>13, <2>14, <2>15, <2>16, <2>17, <2>18, <2>19, <2>20,
       <2>21, <2>22, <2>23, <2>24 DEF Next, Step, Error, Service
<1>. QED BY <1>1, <1>2, BaseInductive, PTL DEF Spec

(***************************************************************************)
(* As long as every accepted job is awaited, the lock covers everything    *)
(* from the re-read to the reflection.                                     *)
(***************************************************************************)
THEOREM LockCovers ==
    ASSUME JobsAreAwaited
    PROVE  Spec => []LockCoversReflection
<1>1. BaseInv /\ JobsHold => LockCoversReflection
  BY DEF BaseInv, Holds, JobsHold, LockCoversReflection, InWindow
<1>. QED BY <1>1, BaseInductive, JobsHoldInductive, PTL

(***************************************************************************)
(* What a caller re-read is still what the zone publishes, until its own   *)
(* job reflects.  Reflect is the step that matters: it changes published,  *)
(* and by the lock no other caller is in its window.                       *)
(***************************************************************************)
BaseIsFresh == \A c \in Caller : InWindow(c) => base[c] = published

SafeInv == BaseInv /\ JobsHold /\ BaseIsFresh

LEMMA SafeInvInductive ==
    ASSUME JobsAreAwaited, WindowsAreKept
    PROVE  Spec => []SafeInv
<1>1. Init => BaseIsFresh
  BY DEF Init, BaseIsFresh, InWindow
<1>2. /\ BaseInv /\ JobsHold /\ BaseIsFresh
      /\ BaseInv' /\ JobsHold' /\ [Next]_vars
      => BaseIsFresh'
  <2> SUFFICES ASSUME BaseInv, JobsHold, BaseIsFresh, BaseInv', JobsHold',
                      [Next]_vars
               PROVE  BaseIsFresh'
    OBVIOUS
  <2> USE DEF BaseInv, TypeOK, BaseIsFresh, InWindow, local, history
  <2>1. ASSUME NEW c \in Caller, Receive(c) PROVE BaseIsFresh'
    BY <2>1 DEF Receive
  <2>2. ASSUME NEW c \in Caller, Acquire(c) PROVE BaseIsFresh'
    BY <2>2 DEF Acquire
  <2>3. ASSUME NEW c \in Caller, AcquireFails(c) PROVE BaseIsFresh'
    BY <2>3 DEF AcquireFails, FailWith
  <2>4. ASSUME NEW c \in Caller, Read(c) PROVE BaseIsFresh'
    BY <2>4 DEF Read
  <2>5. ASSUME NEW c \in Caller, ReadFails(c) PROVE BaseIsFresh'
    BY <2>5 DEF ReadFails, FailWith
  <2>6. ASSUME NEW c \in Caller, Edit(c) PROVE BaseIsFresh'
    BY <2>6 DEF Edit
  <2>7. ASSUME NEW c \in Caller, Submit(c) PROVE BaseIsFresh'
    BY <2>7 DEF Submit
  <2>8. ASSUME NEW c \in Caller, SubmitFails(c) PROVE BaseIsFresh'
    BY <2>8 DEF SubmitFails, FailWith
  <2>9. ASSUME NEW c \in Caller, SubmitUnseen(c) PROVE BaseIsFresh'
    BY <2>9, JobsAreAwaited DEF SubmitUnseen, JobsAreAwaited
  <2>10. ASSUME NEW c \in Caller, Reflect(c) PROVE BaseIsFresh'
    <3>1. \A d \in Caller : d # c => ~InWindow(d)
      BY <2>10 DEF Reflect, JobsHold, Holds
    <3>2. ~InWindow(c)'
      BY <2>10 DEF Reflect, JobsHold
    <3>. QED BY <2>10, <3>1, <3>2 DEF Reflect
  <2>11. ASSUME NEW c \in Caller, JobFails(c) PROVE BaseIsFresh'
    BY <2>11 DEF JobFails
  <2>12. ASSUME NEW c \in Caller, SyncEnds(c) PROVE BaseIsFresh'
    BY <2>12 DEF SyncEnds
  <2>13. ASSUME NEW c \in Caller, CutShort(c) PROVE BaseIsFresh'
    BY <2>13 DEF CutShort, FailWith
  <2>14. ASSUME NEW c \in Caller, Finish(c) PROVE BaseIsFresh'
    BY <2>14 DEF Finish, Release, AnswerOf
  <2>15. ASSUME NEW c \in Caller, LockWaitExpires(c) PROVE BaseIsFresh'
    BY <2>15 DEF LockWaitExpires
  <2>16. ASSUME NEW c \in Caller, Cancel(c) PROVE BaseIsFresh'
    BY <2>16 DEF Cancel
  <2>17. ASSUME NEW c \in Caller, Crash(c) PROVE BaseIsFresh'
    BY <2>17 DEF Crash
  <2>18. ASSUME NEW c \in Caller, LockLapses(c) PROVE BaseIsFresh'
    BY <2>18 DEF LockLapses
  <2>19. CASE OutsideEdit
    BY <2>19, WindowsAreKept DEF OutsideEdit, WindowsAreKept
  <2>20. ASSUME NEW c \in Caller, EditFails(c) PROVE BaseIsFresh'
    BY <2>20 DEF EditFails
  <2>21. CASE UNCHANGED vars
    BY <2>21 DEF vars
  <2>22. ASSUME NEW c \in Caller, SyncFails(c) PROVE BaseIsFresh'
    BY <2>22, JobsAreAwaited DEF SyncFails, JobsAreAwaited
  <2>23. ASSUME NEW c \in Caller, LockIsLost(c) PROVE BaseIsFresh'
    BY <2>23, JobsAreAwaited DEF LockIsLost, JobsAreAwaited
  <2>24. ASSUME NEW c \in Caller, LossNoticed(c) PROVE BaseIsFresh'
    BY <2>24 DEF LossNoticed, JobsHold
  <2>. QED
    BY <2>1, <2>2, <2>3, <2>4, <2>5, <2>6, <2>7, <2>8, <2>9, <2>10, <2>11,
       <2>12, <2>13, <2>14, <2>15, <2>16, <2>17, <2>18, <2>19, <2>20,
       <2>21, <2>22, <2>23, <2>24 DEF Next, Step, Error, Service
<1>. QED
  BY <1>1, <1>2, BaseInductive, JobsHoldInductive, PTL DEF Spec, SafeInv

-----------------------------------------------------------------------------
(***************************************************************************)
(* Only Reflect ends a running job with success, and by BaseIsFresh it     *)
(* merges into what the zone publishes at that moment.                     *)
(***************************************************************************)
THEOREM NoUpdateIsLost ==
    ASSUME JobsAreAwaited, WindowsAreKept
    PROVE  Spec => NoLostUpdate
<1>1. SafeInv /\ [Next]_vars
        => [\A c \in Caller :
               job[c] = "running" /\ job'[c] = "done"
                   => published' = Merged(published, wanted[c])]_vars
  <2> SUFFICES ASSUME SafeInv, Next, NEW c \in Caller,
                      job[c] = "running", job'[c] = "done"
               PROVE  published' = Merged(published, wanted[c])
    BY DEF vars
  <2>1. Reflect(c)
    BY DEF SafeInv, BaseInv, TypeOK, Progress, Next, Step, Error, Service,
           Receive, Acquire, AcquireFails, Read, ReadFails, Edit, EditFails,
           Submit, SubmitFails, SubmitUnseen, FailWith, Reflect, JobFails,
           SyncEnds, SyncFails, CutShort, Finish, Release, AnswerOf,
           LockWaitExpires, Cancel, Crash, LockLapses, LockIsLost, LossNoticed,
           OutsideEdit
  <2>2. base[c] = published
    BY DEF SafeInv, BaseIsFresh, InWindow
  <2>. QED BY <2>1, <2>2 DEF Reflect
<1>. QED BY <1>1, SafeInvInductive, PTL DEF Spec, NoLostUpdate

-----------------------------------------------------------------------------
(***************************************************************************)
(* Refinement.  A step of c moves only the status of c; the lemma is used  *)
(* for every step that maps to an action of AtomicZone or to a stutter.    *)
(***************************************************************************)
Statuses == [c \in Caller |-> StatusOf(c)]

LEMMA StatusesMove ==
    ASSUME NEW c \in Caller,
           \A d \in Caller \ {c} :
               pc'[d] = pc[d] /\ job'[d] = job[d] /\ answer'[d] = answer[d]
    PROVE  Statuses' = [Statuses EXCEPT ![c] = StatusOf(c)']
<1>1. \A d \in Caller \ {c} : StatusOf(d)' = StatusOf(d)
  BY DEF StatusOf
<1>. QED BY <1>1 DEF Statuses

(***************************************************************************)
(* Without faults, applying change sets through lock, re-read and job is   *)
(* applying them atomically.                                               *)
(***************************************************************************)
THEOREM ApplyIsAtomic ==
    ASSUME JobsAreAwaited, WindowsAreKept
    PROVE  Spec => ImplementsAtomicZone
<1> USE DEF SafeInv, BaseInv, TypeOK, local, history
<1>1. Init => Abstract!Init
  BY DEF Init, Abstract!Init, StatusOf, Abstract!Content, Content,
     Abstract!NoChange, NoChange
<1>2. SafeInv /\ SafeInv' /\ [Next]_vars => [Abstract!Next]_(Abstract!vars)
  <2> SUFFICES ASSUME SafeInv, SafeInv', [Next]_vars
               PROVE  [Abstract!Next]_(Abstract!vars)
    OBVIOUS
  <2>1. ASSUME NEW c \in Caller, Receive(c) PROVE Abstract!Call(c)
    <3>1. StatusOf(c) = "idle" /\ StatusOf(c)' = "pending"
      BY <2>1 DEF Receive, StatusOf, Progress
    <3>2. Statuses' = [Statuses EXCEPT ![c] = StatusOf(c)']
      BY <2>1, StatusesMove DEF Receive
    <3>. QED BY <2>1, <3>1, <3>2 DEF Abstract!Call, Receive, Statuses
  <2>2. ASSUME NEW c \in Caller, Reflect(c) PROVE Abstract!TakeEffect(c)
    <3>1. StatusOf(c) = "pending" /\ StatusOf(c)' = "effective"
      BY <2>2 DEF Reflect, StatusOf, JobsHold
    <3>2. Statuses' = [Statuses EXCEPT ![c] = StatusOf(c)']
      BY <2>2, StatusesMove DEF Reflect
    <3>3. published' = Merged(published, wanted[c])
      BY <2>2 DEF Reflect, BaseIsFresh, InWindow
    <3>. QED
      BY <2>2, <3>1, <3>2, <3>3 DEF Abstract!TakeEffect, Reflect, Statuses,
         Abstract!Merged, Merged
  <2>3. ASSUME NEW c \in Caller, Edit(c)
        PROVE  Abstract!TakeEffect(c) \/ UNCHANGED Abstract!vars
    <3>1. StatusOf(c) = "pending"
      BY <2>3 DEF Edit, StatusOf, Progress
    <3>2. Statuses' = [Statuses EXCEPT ![c] = StatusOf(c)']
      BY <2>3, StatusesMove DEF Edit
    <3>3. CASE Merged(base[c], wanted[c]) = base[c]
      <4>1. StatusOf(c)' = "effective"
        BY <2>3, <3>3 DEF Edit, StatusOf
      <4>2. published' = Merged(published, wanted[c])
        BY <2>3, <3>3 DEF Edit, BaseIsFresh, InWindow
      <4>. QED
        BY <2>3, <3>1, <3>2, <4>1, <4>2 DEF Abstract!TakeEffect, Edit,
           Statuses, Abstract!Merged, Merged
    <3>4. CASE Merged(base[c], wanted[c]) # base[c]
      <4>1. StatusOf(c)' = "pending"
        BY <2>3, <3>4 DEF Edit, StatusOf, Progress
      <4>2. \A d \in Caller : StatusOf(d)' = StatusOf(d)
        BY <2>3, <3>1, <4>1 DEF Edit, StatusOf
      <4>. QED BY <2>3, <4>2 DEF Abstract!vars, Edit
    <3>. QED BY <3>3, <3>4
  <2>4. ASSUME NEW c \in Caller, Finish(c)
        PROVE  Abstract!Succeed(c) \/ Abstract!Fail(c)
    <3>1. Statuses' = [Statuses EXCEPT ![c] = StatusOf(c)']
      BY <2>4, StatusesMove DEF Finish, Release, AnswerOf
    <3>2. CASE err[c] = "none"
      <4>1. StatusOf(c) = "effective" /\ StatusOf(c)' = "ok"
        BY <2>4, <3>2 DEF Finish, Release, AnswerOf, StatusOf, Progress
      <4>. QED
        BY <2>4, <3>1, <4>1 DEF Abstract!Succeed, Finish, Release, AnswerOf,
           Statuses
    <3>3. CASE err[c] # "none"
      <4>1. StatusOf(c) \in {"pending", "effective"}
        BY <2>4, <3>3 DEF Finish, Release, AnswerOf, StatusOf
      <4>2. StatusOf(c)' = "failed"
        BY <2>4, <3>3 DEF Finish, Release, AnswerOf, StatusOf, Failure
      <4>. QED
        BY <2>4, <3>1, <4>1, <4>2 DEF Abstract!Fail, Finish, Release,
           AnswerOf, Statuses
    <3>. QED BY <3>2, <3>3
  <2>5. ASSUME NEW c \in Caller, Crash(c) \/ JobFails(c)
        PROVE  Abstract!Fail(c) \/ UNCHANGED Abstract!vars
    <3>1. Statuses' = [Statuses EXCEPT ![c] = StatusOf(c)']
      BY <2>5, StatusesMove DEF Crash, JobFails
    <3>2. published' = published /\ wanted' = wanted
      BY <2>5 DEF Crash, JobFails
    <3>3. CASE StatusOf(c) = "pending" /\ StatusOf(c)' = "failed"
      BY <3>1, <3>2, <3>3 DEF Abstract!Fail, Statuses
    <3>4. CASE StatusOf(c)' = StatusOf(c)
      <4>1. \A d \in Caller : StatusOf(d)' = StatusOf(d)
        BY <2>5, <3>4 DEF Crash, JobFails, StatusOf
      <4>. QED BY <3>2, <4>1 DEF Abstract!vars
    <3>5. \/ StatusOf(c) = "pending" /\ StatusOf(c)' = "failed"
          \/ StatusOf(c)' = StatusOf(c)
      BY <2>5 DEF Crash, JobFails, StatusOf, Progress, JobsHold, Working
    <3>. QED BY <3>3, <3>4, <3>5
  <2>6. ASSUME NEW c \in Caller,
               \/ Acquire(c) \/ AcquireFails(c) \/ Read(c) \/ ReadFails(c)
               \/ EditFails(c)
               \/ Submit(c) \/ SubmitFails(c) \/ SyncEnds(c) \/ CutShort(c)
               \/ LockWaitExpires(c) \/ Cancel(c) \/ LockLapses(c)
        PROVE  UNCHANGED Abstract!vars
    <3>1. /\ published' = published
          /\ wanted' = wanted
          /\ \A d \in Caller : StatusOf(d)' = StatusOf(d)
      BY <2>6 DEF Acquire, AcquireFails, Read, ReadFails, EditFails, Submit,
         SubmitFails, SyncEnds, CutShort, LockWaitExpires, Cancel, LockLapses,
         FailWith, StatusOf, Progress
    <3>. QED BY <3>1 DEF Abstract!vars
  <2>7. CASE OutsideEdit
    BY <2>7 DEF OutsideEdit, Abstract!Next, Abstract!OthersEdit, StatusOf,
       Abstract!Content, Content
  <2>8. CASE UNCHANGED vars
    BY <2>8 DEF vars, Abstract!vars, StatusOf
  <2>9. ASSUME NEW c \in Caller
        PROVE  /\ ~SubmitUnseen(c) /\ ~SyncFails(c)
               /\ ~LockIsLost(c) /\ ~LossNoticed(c)
    BY JobsAreAwaited DEF SubmitUnseen, SyncFails, LockIsLost, LossNoticed,
       JobsHold, JobsAreAwaited
  <2>. QED
    BY <2>1, <2>2, <2>3, <2>4, <2>5, <2>6, <2>7, <2>8, <2>9
       DEF Next, Step, Error, Service, Abstract!Next
<1>. QED
  BY <1>1, <1>2, SafeInvInductive, PTL
     DEF Spec, Abstract!Spec, ImplementsAtomicZone

====
