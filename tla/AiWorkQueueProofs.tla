------------------------- MODULE AiWorkQueueProofs -------------------------
(***************************************************************************)
(* Proofs about the AI work queue (AiWorkQueue), for any number of workers, *)
(* rows, runs and lock files.                                              *)
(*                                                                         *)
(* The argument is in layers.  QueueInv says who holds which lock and that  *)
(* leases are numbered apart; it gives the exclusion on the GPU.  TimeInv   *)
(* adds the deadlines of workers that are not suspended, so that a lease    *)
(* lasts as long as its execution.  WorkInv adds what a worker that still   *)
(* holds its lease has claimed beyond it (the AiRun, the admin job), from   *)
(* which a complete row has its work done.  GapInv is QueueInv with what    *)
(* the first statement of claim_due_work read.                             *)
(***************************************************************************)
EXTENDS AiWorkQueue, TLAPS

-----------------------------------------------------------------------------
(* Type correctness.                                                        *)

\* The initial state has its types.
LEMMA QueueInitTypes == Init => TypeOK
BY QueueAssumption DEF Init, TypeOK, Null, NoToken, NoItem

\* A cycle that ends is idle and has let go of its lock and its lease.
LEMMA EndCycleTypes ==
    ASSUME TypeOK, NEW w \in Workers, EndCycle(w)
    PROVE  /\ pc' \in [Workers -> {"idle"} \cup Preparing \cup Leased]
           /\ holder' \in [Locks -> Workers \cup {NoOne, External}]
           /\ quarantined' \in SUBSET Locks
           /\ cycle' \in [Workers -> Nat] /\ execStart' \in [Workers -> Nat]
           /\ leaseItem' \in [Workers -> Items \cup {NoItem}]
           /\ leaseTok' \in [Workers -> Nat]
BY DEF TypeOK, EndCycle, Go, ReleaseLock, NoItem, NoToken

LEMMA EnvironmentTypes ==
    ASSUME TypeOK,
           Tick \/ (\E i \in Admin : RequestJob(i)) \/ (\E l \in Locks : OtherStack(l))
           \/ (\E w \in Workers : Crash(w) \/ Begin(w) \/ HeartbeatWork(w))
    PROVE  TypeOK'
<1>1. CASE Tick
  BY <1>1 DEF TypeOK, Tick, rowVars, runVars, lockVars, workerVars, boundVars
<1>2. ASSUME NEW i \in Admin, RequestJob(i) PROVE TypeOK'
  BY <1>2 DEF TypeOK, RequestJob, rowVars, runVars, lockVars, workerVars, boundVars
<1>3. ASSUME NEW l \in Locks, OtherStack(l) PROVE TypeOK'
  BY <1>3 DEF TypeOK, OtherStack, rowVars, runVars, lockVars, workerVars, boundVars
<1>4. ASSUME NEW w \in Workers, Crash(w) PROVE TypeOK'
  BY <1>4 DEF TypeOK, Crash, rowVars, runVars, NoItem, NoToken
<1>5. ASSUME NEW w \in Workers, Begin(w) PROVE TypeOK'
  BY <1>5 DEF TypeOK, Begin, Go, rowVars, runVars, lockVars, boundVars, Preparing
<1>6. ASSUME NEW w \in Workers, HeartbeatWork(w) PROVE TypeOK'
  BY <1>6 DEF TypeOK, HeartbeatWork, runVars, lockVars, workerVars, boundVars
<1> QED
  BY <1>1, <1>2, <1>3, <1>4, <1>5, <1>6

\* The steps of an execution, and a completion that is refused, change neither rows nor
\* locks nor leases: they move the worker among the steps of a lease.
LEMMA LeaseIsKept ==
    ASSUME TypeOK, NEW w \in Workers,
           \/ StartExecution(w) \/ ClaimQuizJob(w) \/ ClaimAiRun(w)
           \/ WorkSucceeds(w) \/ WorkRaises(w) \/ FinishAiRun(w) \/ PlanWeeks(w)
           \/ FinishJob(w) \/ FailJob(w) \/ Abort(w) \/ CompletionRefused(w)
    PROVE  /\ StayLeased
           /\ pc[w] \in Executing \cup {"complete"}
           /\ \E next \in (Executing \ {"start"}) \cup {"release", "cleanup", "retry"} : Go(w, next)
           /\ runStatus' \in [Runs -> {"absent", "running", "failed"} \cup Terminal]
           /\ runStarted' \in [Runs -> Nat \cup {Null}]
           /\ jobStatus' \in [Admin -> {"absent", "pending", "running", "passed"}]
<1>1. CASE StartExecution(w)
  BY <1>1 DEF TypeOK, StartExecution, runVars, Executing
<1>2. CASE ClaimQuizJob(w)
  BY <1>2 DEF TypeOK, ClaimQuizJob, runVars, Executing
<1>3. CASE ClaimAiRun(w)
  BY <1>3 DEF TypeOK, ClaimAiRun, runVars, Executing, AfterRun, Raised
<1>4. CASE WorkSucceeds(w)
  BY <1>4 DEF TypeOK, WorkSucceeds, runVars, Executing
<1>5. CASE WorkRaises(w)
  BY <1>5 DEF TypeOK, WorkRaises, runVars, Executing, Raised
<1>6. CASE FinishAiRun(w)
  BY <1>6 DEF TypeOK, FinishAiRun, runVars, Executing, AfterRun
<1>7. CASE PlanWeeks(w)
  BY <1>7 DEF TypeOK, PlanWeeks, runVars, Executing
<1>8. CASE FinishJob(w)
  BY <1>8 DEF TypeOK, FinishJob, runVars, Executing
<1>9. CASE FailJob(w)
  BY <1>9 DEF TypeOK, FailJob, runVars, Executing
<1>10. CASE Abort(w) \/ CompletionRefused(w)
  BY <1>10 DEF TypeOK, Abort, CompletionRefused, runVars, Executing
<1> QED
  BY <1>1, <1>2, <1>3, <1>4, <1>5, <1>6, <1>7, <1>8, <1>9, <1>10

\* The steps of a cycle before its execution, and those that end it.
LEMMA CycleTypes ==
    ASSUME TypeOK, NEW w \in Workers,
           \/ EnqueueDueWeeklyWork(w) \/ EnqueuePendingAdminWork(w)
           \/ TryAcquireGpuLock(w) \/ PrepareIdleGpu(w) \/ DeferDueWork(w)
           \/ CheckRecentActivity(w) \/ ClaimNothing(w) \/ ClaimDueWork(w)
           \/ ReleaseGpu(w) \/ CleanupFailedWork(w) \/ CompleteWork(w) \/ RetryWork(w)
    PROVE  TypeOK'
<1>1. CASE EnqueueDueWeeklyWork(w)
  <2>1. LatestDue(w) \subseteq Items /\ ScheduledAt \in [Items -> Nat]
    BY QueueAssumption DEF LatestDue, Weekly
  <2>2. present' \in SUBSET Items /\ nextAttempt' \in [Items -> Nat \cup {Null}]
    BY <1>1, <2>1 DEF TypeOK, EnqueueDueWeeklyWork
  <2> QED
    BY <1>1, <2>2 DEF TypeOK, EnqueueDueWeeklyWork, Go, runVars, lockVars, boundVars, Preparing
<1>2. CASE EnqueuePendingAdminWork(w)
  <2>1. Admin \subseteq Items /\ ScheduledAt \in [Items -> Nat]
    BY QueueAssumption DEF Admin
  <2>2. present' \in SUBSET Items /\ nextAttempt' \in [Items -> Nat \cup {Null}]
    BY <1>2, <2>1 DEF TypeOK, EnqueuePendingAdminWork
  <2> QED
    BY <1>2, <2>2 DEF TypeOK, EnqueuePendingAdminWork, Go, runVars, lockVars, boundVars, Preparing
<1>3. CASE TryAcquireGpuLock(w) \/ PrepareIdleGpu(w)
  BY <1>3 DEF TypeOK, TryAcquireGpuLock, PrepareIdleGpu, Go, rowVars, runVars, lockVars, boundVars,
              Preparing
<1>4. CASE DeferDueWork(w)
  <2>1. Gap \in Nat
    BY QueueAssumption
  <2>2. nextAttempt' \in [Items -> Nat \cup {Null}]
    BY <1>4, <2>1 DEF TypeOK, DeferDueWork
  <2> QED
    BY <1>4, <2>2, EndCycleTypes DEF TypeOK, DeferDueWork, runVars, boundVars
<1>5. CASE CheckRecentActivity(w)
  <2>1. CASE EndCycle(w)
    BY <1>5, <2>1, EndCycleTypes DEF TypeOK, CheckRecentActivity, rowVars, runVars, boundVars
  <2>2. CASE ~EndCycle(w)
    BY <1>5, <2>2 DEF TypeOK, CheckRecentActivity, Go, rowVars, runVars, boundVars, lockVars, Preparing
  <2> QED
    BY <2>1, <2>2
<1>6. CASE ClaimNothing(w)
  BY <1>6, EndCycleTypes DEF TypeOK, ClaimNothing, rowVars, runVars, boundVars
<1>7. CASE ClaimDueWork(w)
  BY <1>7 DEF TypeOK, ClaimDueWork, Pending, Go, runVars, lockVars, Leased, Executing
<1>8. CASE ReleaseGpu(w) \/ CleanupFailedWork(w)
  <2>1. LockOf[w] \in Locks
    BY QueueAssumption
  <2> QED
    BY <1>8, <2>1 DEF TypeOK, ReleaseGpu, CleanupFailedWork, Quarantine, Go, rowVars, runVars, boundVars,
                     Leased, Ending
<1>9. CASE CompleteWork(w)
  BY <1>9, EndCycleTypes DEF TypeOK, CompleteWork, FencedUpdate, NoToken, runVars, boundVars
<1>10. CASE RetryWork(w)
  <2>1. Gap \in Nat
    BY QueueAssumption
  <2> QED
    BY <1>10, <2>1, EndCycleTypes DEF TypeOK, RetryWork, FencedUpdate, NoToken, runVars, boundVars
<1> QED
  BY <1>1, <1>2, <1>3, <1>4, <1>5, <1>6, <1>7, <1>8, <1>9, <1>10

\* A step of a worker is one of an execution, or one before or after it.
LEMMA StepTypes == ASSUME TypeOK, NEW w \in Workers, Step(w) PROVE TypeOK'
<1>1. CASE \/ StartExecution(w) \/ ClaimQuizJob(w) \/ ClaimAiRun(w)
           \/ WorkSucceeds(w) \/ WorkRaises(w) \/ FinishAiRun(w) \/ PlanWeeks(w)
           \/ FinishJob(w) \/ FailJob(w) \/ Abort(w) \/ CompletionRefused(w)
  <2>1. PICK next \in (Executing \ {"start"}) \cup {"release", "cleanup", "retry"} : Go(w, next)
    BY <1>1, LeaseIsKept
  <2>2. pc' \in [Workers -> {"idle"} \cup Preparing \cup Leased]
    BY <2>1 DEF TypeOK, Go, Leased, Ending
  <2>3. StayLeased
    BY <1>1, LeaseIsKept
  <2>4. /\ runStatus' \in [Runs -> {"absent", "running", "failed"} \cup Terminal]
        /\ runStarted' \in [Runs -> Nat \cup {Null}]
        /\ jobStatus' \in [Admin -> {"absent", "pending", "running", "passed"}]
    BY <1>1, LeaseIsKept
  <2> QED
    BY <2>2, <2>3, <2>4 DEF TypeOK, StayLeased, rowVars, lockVars, boundVars
<1> QED
  BY <1>1, CycleTypes DEF Step

-----------------------------------------------------------------------------
(* Leases and locks.                                                        *)

\* Tokens are numbered and never given out twice: two workers that hold leases
\* hold different ones, of rows that exist.
LeasesAreNumbered ==
    /\ \A w \in Workers : IF pc[w] \in Leased
                          THEN leaseItem[w] \in present /\ leaseTok[w] \in 1..claims
                          ELSE leaseItem[w] = NoItem
    /\ \A v, w \in Workers : /\ v # w /\ pc[v] \in Leased /\ pc[w] \in Leased
                             => leaseTok[v] # leaseTok[w]
    /\ \A i \in Items : leaseToken[i] <= claims
    /\ \A i \in Items \ present : heartbeat[i] = Null

\* From the moment it has the lock to the end of its cycle a worker holds it.
Locking == {"probe", "claim", "select"} \cup Leased
LocksAreHeld == \A w \in Workers : pc[w] \in Locking => holder[LockOf[w]] = w

\* Where a worker may be while the lock file of its host is quarantined.
Resting == {"idle", "weekly", "admin", "lock", "retry"}
QuarantineHolds ==
    \A l \in quarantined : /\ holder[l] \in Workers
                           /\ \A w \in Workers : LockOf[w] = l => pc[w] \in Resting

QueueInv == TypeOK /\ LeasesAreNumbered /\ LocksAreHeld /\ QuarantineHolds

\* At most one worker of a lock file is past try_acquire_gpu_lock.
LEMMA OneWorkerPerLock ==
    ASSUME LocksAreHeld, NEW v \in Workers, NEW w \in Workers,
           pc[v] \in Locking, pc[w] \in Locking, LockOf[v] = LockOf[w]
    PROVE  v = w
BY DEF LocksAreHeld

\* At most one worker holds the current lease of a row.
LEMMA OneHolderPerRow ==
    ASSUME LeasesAreNumbered, NEW v \in Workers, NEW w \in Workers,
           Current(v), Current(w), leaseItem[v] = leaseItem[w]
    PROVE  v = w
BY QueueAssumption DEF LeasesAreNumbered, Current, NoItem

\* The invariant gives GpuExclusive.
LEMMA GpuExclusiveFollows == QueueInv => GpuExclusive
<1> SUFFICES ASSUME QueueInv PROVE GpuExclusive
  OBVIOUS
<1>1. \A w \in Workers : OnGpu(w) => pc[w] \in Locking
  BY DEF OnGpu, Locking
<1>2. Resting \cap Executing = {}
  BY DEF Resting, Executing
<1> QED
  BY <1>1, <1>2, OneWorkerPerLock DEF QueueInv, GpuExclusive, QuarantineHolds

LEMMA QueueInitInv == Init => QueueInv
<1> SUFFICES ASSUME Init PROVE QueueInv
  OBVIOUS
<1>1. "idle" \notin Leased \cup Locking
  BY DEF Leased, Executing, Ending, Locking
<1>2. LeasesAreNumbered
  BY <1>1 DEF Init, LeasesAreNumbered, NoToken
<1>3. LocksAreHeld /\ QuarantineHolds
  BY <1>1 DEF Init, LocksAreHeld, QuarantineHolds
<1> QED
  BY <1>2, <1>3, QueueInitTypes DEF QueueInv

\* A worker that ends its cycle keeps no lease, and no lock but a quarantined one.
LEMMA EndCycleKeeps ==
    ASSUME QueueInv, NEW w \in Workers, EndCycle(w), present' = present, claims' = claims,
           \A i \in Items : leaseToken'[i] \in {leaseToken[i], NoToken},
           \A i \in Items \ present : heartbeat'[i] = heartbeat[i]
    PROVE  LeasesAreNumbered' /\ LocksAreHeld' /\ QuarantineHolds'
<1>1. pc' = [pc EXCEPT ![w] = "idle"] /\ "idle" \notin Leased \cup Locking /\ "idle" \in Resting
  BY DEF EndCycle, Go, Leased, Executing, Ending, Locking, Resting
<1>2. leaseItem' = [leaseItem EXCEPT ![w] = NoItem] /\ leaseTok' = [leaseTok EXCEPT ![w] = NoToken]
  BY DEF EndCycle
<1>3. LeasesAreNumbered'
  BY <1>1, <1>2 DEF QueueInv, TypeOK, LeasesAreNumbered, NoToken
<1>4. LocksAreHeld'
  BY <1>1, QueueAssumption DEF QueueInv, TypeOK, LocksAreHeld, EndCycle, ReleaseLock
<1>5. QuarantineHolds'
  BY <1>1 DEF QueueInv, TypeOK, QuarantineHolds, EndCycle, ReleaseLock
<1> QED
  BY <1>3, <1>4, <1>5

LEMMA EnvironmentKeepsInv ==
    ASSUME QueueInv,
           Tick \/ (\E i \in Admin : RequestJob(i)) \/ (\E l \in Locks : OtherStack(l))
           \/ (\E w \in Workers : Crash(w) \/ Begin(w) \/ HeartbeatWork(w))
    PROVE  QueueInv'
<1>1. TypeOK'
  BY EnvironmentTypes DEF QueueInv
<1>2. CASE Tick \/ (\E i \in Admin : RequestJob(i))
  <2>1. UNCHANGED <<rowVars, lockVars, workerVars, boundVars>>
    BY <1>2 DEF Tick, RequestJob
  <2> QED
    BY <1>1, <2>1 DEF QueueInv, LeasesAreNumbered, LocksAreHeld, QuarantineHolds, rowVars, lockVars,
                      workerVars, boundVars
<1>3. ASSUME NEW l \in Locks, OtherStack(l) PROVE QueueInv'
  <2>1. LeasesAreNumbered'
    BY <1>3 DEF QueueInv, OtherStack, LeasesAreNumbered, rowVars, workerVars, boundVars
  <2>2. LocksAreHeld' /\ QuarantineHolds'
    BY <1>3, QueueAssumption
       DEF QueueInv, TypeOK, OtherStack, LocksAreHeld, QuarantineHolds, workerVars
  <2> QED
    BY <1>1, <2>1, <2>2 DEF QueueInv
<1>4. ASSUME NEW w \in Workers, Crash(w) PROVE QueueInv'
  <2>1. pc' = [pc EXCEPT ![w] = "idle"] /\ "idle" \notin Leased \cup Locking /\ "idle" \in Resting
    BY <1>4 DEF Crash, Leased, Executing, Ending, Locking, Resting
  <2>2. LeasesAreNumbered'
    BY <1>4, <2>1 DEF QueueInv, TypeOK, LeasesAreNumbered, Crash, rowVars
  <2>3. LocksAreHeld'
    BY <1>4, <2>1, QueueAssumption DEF QueueInv, TypeOK, LocksAreHeld, Crash
  <2>4. QuarantineHolds'
    BY <1>4, <2>1 DEF QueueInv, TypeOK, QuarantineHolds, Crash
  <2> QED
    BY <1>1, <2>2, <2>3, <2>4 DEF QueueInv
<1>5. ASSUME NEW w \in Workers, Begin(w) PROVE QueueInv'
  <2>1. pc' = [pc EXCEPT ![w] = "weekly"] /\ "weekly" \notin Leased \cup Locking /\ "weekly" \in Resting
    BY <1>5 DEF Begin, Go, Leased, Executing, Ending, Locking, Resting
  <2>2. pc[w] \notin Leased
    BY <1>5 DEF Begin, Leased, Executing, Ending
  <2>3. LeasesAreNumbered'
    BY <1>5, <2>1, <2>2 DEF QueueInv, TypeOK, LeasesAreNumbered, Begin, rowVars, boundVars
  <2>4. LocksAreHeld' /\ QuarantineHolds'
    BY <1>5, <2>1 DEF QueueInv, TypeOK, LocksAreHeld, QuarantineHolds, Begin, lockVars
  <2> QED
    BY <1>1, <2>3, <2>4 DEF QueueInv
<1>6. ASSUME NEW w \in Workers, HeartbeatWork(w) PROVE QueueInv'
  <2>1. LeasesAreNumbered'
    BY <1>6 DEF QueueInv, TypeOK, LeasesAreNumbered, HeartbeatWork, workerVars, boundVars
  <2>2. LocksAreHeld' /\ QuarantineHolds'
    BY <1>6 DEF QueueInv, LocksAreHeld, QuarantineHolds, HeartbeatWork, workerVars, lockVars
  <2> QED
    BY <1>1, <2>1, <2>2 DEF QueueInv
<1> QED
  BY <1>2, <1>3, <1>4, <1>5, <1>6

\* A step that keeps every lease and every lock and moves the worker within its lease.
LEMMA StaysLeasedKeepsInv ==
    ASSUME QueueInv, TypeOK', NEW w \in Workers, NEW next \in Leased, Go(w, next),
           pc[w] \in Leased \ {"retry"},
           UNCHANGED <<rowVars, holder, leaseItem, leaseTok, boundVars>>,
           quarantined' = quarantined
    PROVE  QueueInv'
<1>1. pc' = [pc EXCEPT ![w] = next] /\ pc[w] \in Locking /\ next \in Locking
  BY DEF Go, Locking
<1>2. LeasesAreNumbered'
  BY <1>1 DEF QueueInv, TypeOK, LeasesAreNumbered, rowVars, boundVars
<1>3. LocksAreHeld'
  BY <1>1 DEF QueueInv, TypeOK, LocksAreHeld
<1>4. QuarantineHolds'
  <2>1. Resting \cap Leased = {"retry"}
    BY DEF Resting, Leased, Executing, Ending
  <2>2. LockOf[w] \notin quarantined
    BY <2>1 DEF QueueInv, QuarantineHolds
  <2> QED
    BY <1>1, <2>2 DEF QueueInv, TypeOK, QuarantineHolds
<1> QED
  BY <1>2, <1>3, <1>4 DEF QueueInv

\* The steps of a cycle keep it.
LEMMA CycleKeepsInv ==
    ASSUME QueueInv, NEW w \in Workers,
           \/ EnqueueDueWeeklyWork(w) \/ EnqueuePendingAdminWork(w)
           \/ TryAcquireGpuLock(w) \/ PrepareIdleGpu(w) \/ DeferDueWork(w)
           \/ CheckRecentActivity(w) \/ ClaimNothing(w) \/ ClaimDueWork(w)
           \/ ReleaseGpu(w) \/ CleanupFailedWork(w) \/ CompleteWork(w) \/ RetryWork(w)
    PROVE  QueueInv'
<1>1. TypeOK'
  BY CycleTypes DEF QueueInv
<1>2. CASE EnqueueDueWeeklyWork(w) \/ EnqueuePendingAdminWork(w)
  <2>1. PICK next \in {"admin", "lock"} : pc' = [pc EXCEPT ![w] = next]
    BY <1>2 DEF EnqueueDueWeeklyWork, EnqueuePendingAdminWork, Go
  <2>2. pc[w] \notin Leased \cup Locking /\ next \notin Leased \cup Locking /\ next \in Resting
    BY <1>2 DEF EnqueueDueWeeklyWork, EnqueuePendingAdminWork, Leased, Executing, Ending, Locking,
                Resting
  <2>3. present \subseteq present'
        /\ UNCHANGED <<leaseToken, heartbeat, lockVars, leaseItem, leaseTok, boundVars>>
    BY <1>2 DEF EnqueueDueWeeklyWork, EnqueuePendingAdminWork
  <2>4. LeasesAreNumbered'
    BY <2>1, <2>2, <2>3 DEF QueueInv, TypeOK, LeasesAreNumbered, boundVars
  <2>5. LocksAreHeld' /\ QuarantineHolds'
    BY <2>1, <2>2, <2>3 DEF QueueInv, TypeOK, LocksAreHeld, QuarantineHolds, lockVars
  <2> QED
    BY <1>1, <2>4, <2>5 DEF QueueInv
<1>3. CASE TryAcquireGpuLock(w)
  <2>1. pc' = [pc EXCEPT ![w] = "probe"] /\ pc[w] \notin Leased /\ "probe" \notin Leased
    BY <1>3 DEF TryAcquireGpuLock, Go, Leased, Executing, Ending
  <2>2. LeasesAreNumbered'
    BY <1>3, <2>1 DEF QueueInv, TypeOK, LeasesAreNumbered, TryAcquireGpuLock, rowVars, boundVars
  <2>3. holder[LockOf[w]] = NoOne /\ holder' = [holder EXCEPT ![LockOf[w]] = w] /\ LockOf[w] \in Locks
    BY <1>3, QueueAssumption DEF TryAcquireGpuLock
  <2>4. LocksAreHeld'
    BY <2>1, <2>3, QueueAssumption DEF QueueInv, TypeOK, LocksAreHeld
  <2>5. LockOf[w] \notin quarantined /\ quarantined' = quarantined
    BY <1>3, <2>3, QueueAssumption DEF QueueInv, QuarantineHolds, TryAcquireGpuLock
  <2>6. QuarantineHolds'
    BY <2>1, <2>3, <2>5 DEF QueueInv, TypeOK, QuarantineHolds
  <2> QED
    BY <1>1, <2>2, <2>4, <2>6 DEF QueueInv
<1>4. CASE PrepareIdleGpu(w) \/ (CheckRecentActivity(w) /\ ~EndCycle(w))
  <2>1. PICK next \in {"claim", "select"} : pc' = [pc EXCEPT ![w] = next]
    BY <1>4 DEF PrepareIdleGpu, CheckRecentActivity, Go
  <2>2. pc[w] \in Locking \ Leased /\ next \in Locking \ Leased /\ pc[w] \notin Resting
    BY <1>4 DEF PrepareIdleGpu, CheckRecentActivity, Leased, Executing, Ending, Locking, Resting
  <2>3. UNCHANGED <<rowVars, lockVars, leaseItem, leaseTok, boundVars>>
    BY <1>4 DEF PrepareIdleGpu, CheckRecentActivity
  <2>4. LeasesAreNumbered'
    BY <2>1, <2>2, <2>3 DEF QueueInv, TypeOK, LeasesAreNumbered, rowVars, boundVars
  <2>5. LocksAreHeld'
    BY <2>1, <2>2, <2>3 DEF QueueInv, TypeOK, LocksAreHeld, lockVars
  <2>6. QuarantineHolds'
    BY <2>1, <2>2, <2>3 DEF QueueInv, TypeOK, QuarantineHolds, lockVars
  <2> QED
    BY <1>1, <2>4, <2>5, <2>6 DEF QueueInv
<1>5. CASE DeferDueWork(w) \/ ClaimNothing(w) \/ (CheckRecentActivity(w) /\ EndCycle(w))
  <2>1. EndCycle(w) /\ UNCHANGED <<present, leaseToken, heartbeat, claims>>
    BY <1>5 DEF DeferDueWork, ClaimNothing, CheckRecentActivity, rowVars, boundVars
  <2> QED
    BY <1>1, <2>1, EndCycleKeeps DEF QueueInv
<1>6. CASE CompleteWork(w) \/ RetryWork(w)
  <2>1. EndCycle(w) /\ UNCHANGED <<present, claims>>
    BY <1>6 DEF CompleteWork, RetryWork, boundVars
  <2>2. pc[w] \in Leased
    BY <1>6 DEF CompleteWork, RetryWork, Leased, Ending
  <2>3. leaseItem[w] \in present
    BY <2>2 DEF QueueInv, LeasesAreNumbered
  <2>4. /\ \A i \in Items : leaseToken'[i] \in {leaseToken[i], NoToken}
        /\ \A i \in Items \ present : heartbeat'[i] = heartbeat[i]
    BY <1>6, <2>3 DEF CompleteWork, RetryWork, FencedUpdate, QueueInv, TypeOK
  <2> QED
    BY <1>1, <2>1, <2>4, EndCycleKeeps DEF QueueInv
<1>7. CASE ClaimDueWork(w)
  <2>1. PICK i \in Pending : /\ leaseToken' = [leaseToken EXCEPT ![i] = claims + 1]
                             /\ heartbeat' = [heartbeat EXCEPT ![i] = cycle[w]]
                             /\ leaseItem' = [leaseItem EXCEPT ![w] = i]
    BY <1>7 DEF ClaimDueWork
  <2>2. /\ pc' = [pc EXCEPT ![w] = "start"] /\ leaseTok' = [leaseTok EXCEPT ![w] = claims + 1]
        /\ claims' = claims + 1 /\ UNCHANGED <<present, lockVars>>
    BY <1>7 DEF ClaimDueWork, Go
  <2>3. i \in present /\ i \in Items
    BY DEF Pending, QueueInv, TypeOK
  <2>4. "start" \in Leased /\ pc[w] \in Locking \ Resting
    BY <1>7 DEF ClaimDueWork, Leased, Executing, Locking, Resting
  <2>5. LeasesAreNumbered'
    BY <2>1, <2>2, <2>3, <2>4 DEF QueueInv, TypeOK, LeasesAreNumbered
  <2>6. LocksAreHeld' /\ QuarantineHolds'
    BY <2>2, <2>4 DEF QueueInv, TypeOK, LocksAreHeld, QuarantineHolds, lockVars, Locking
  <2> QED
    BY <1>1, <2>5, <2>6 DEF QueueInv
<1>8. CASE ReleaseGpu(w) \/ CleanupFailedWork(w)
  <2>1. PICK next \in {"complete", "retry"} : pc' = [pc EXCEPT ![w] = next]
    BY <1>8 DEF ReleaseGpu, CleanupFailedWork, Go
  <2>2. pc[w] \in Leased \ {"retry"} /\ next \in Leased /\ pc[w] \in Locking /\ next \in Locking
        /\ pc[w] \notin Resting
    BY <1>8 DEF ReleaseGpu, CleanupFailedWork, Leased, Ending, Locking, Resting
  <2>3. UNCHANGED <<rowVars, holder, leaseItem, leaseTok, boundVars>>
    BY <1>8 DEF ReleaseGpu, CleanupFailedWork
  <2>4. /\ quarantined' \in {quarantined, quarantined \cup {LockOf[w]}}
        /\ quarantined' = quarantined \/ next = "retry"
    BY <1>8, <2>1 DEF ReleaseGpu, CleanupFailedWork, Quarantine, Go, QueueInv, TypeOK
  <2>5. LeasesAreNumbered'
    BY <2>1, <2>2, <2>3 DEF QueueInv, TypeOK, LeasesAreNumbered, rowVars, boundVars
  <2>6. LocksAreHeld'
    BY <2>1, <2>2, <2>3 DEF QueueInv, TypeOK, LocksAreHeld
  <2>7. LockOf[w] \notin quarantined /\ holder[LockOf[w]] = w
    BY <2>2 DEF QueueInv, QuarantineHolds, LocksAreHeld
  <2>8. \A v \in Workers \ {w} : LockOf[v] = LockOf[w] => pc[v] \in Resting
    <3>1. \A v \in Workers : pc[v] \in Resting \cup Locking
      BY DEF QueueInv, TypeOK, Resting, Locking, Preparing
    <3> QED
      BY <3>1, <2>2, OneWorkerPerLock DEF QueueInv
  <2>9. QuarantineHolds'
    BY <2>1, <2>3, <2>4, <2>7, <2>8 DEF QueueInv, TypeOK, QuarantineHolds, Resting
  <2> QED
    BY <1>1, <2>5, <2>6, <2>9 DEF QueueInv
<1> QED
  BY <1>2, <1>3, <1>4, <1>5, <1>6, <1>7, <1>8

\* Every step keeps it.
LEMMA QueueStep == ASSUME QueueInv, [Next]_vars PROVE QueueInv'
<1>1. CASE UNCHANGED vars
  BY <1>1 DEF vars, rowVars, runVars, lockVars, workerVars, boundVars, QueueInv, TypeOK,
              LeasesAreNumbered, LocksAreHeld, QuarantineHolds
<1>2. ASSUME NEW w \in Workers, Step(w) PROVE QueueInv'
  <2>1. CASE \/ StartExecution(w) \/ ClaimQuizJob(w) \/ ClaimAiRun(w)
             \/ WorkSucceeds(w) \/ WorkRaises(w) \/ FinishAiRun(w) \/ PlanWeeks(w)
             \/ FinishJob(w) \/ FailJob(w) \/ Abort(w) \/ CompletionRefused(w)
    <3>1. StayLeased /\ pc[w] \in Executing \cup {"complete"}
      BY <2>1, LeaseIsKept DEF QueueInv
    <3>2. PICK next \in (Executing \ {"start"}) \cup {"release", "cleanup", "retry"} : Go(w, next)
      BY <2>1, LeaseIsKept DEF QueueInv
    <3>3. next \in Leased /\ pc[w] \in Leased \ {"retry"}
      BY <3>1 DEF Leased, Executing, Ending
    <3>4. TypeOK'
      BY <1>2, StepTypes DEF QueueInv
    <3> QED
      BY <3>1, <3>2, <3>3, <3>4, StaysLeasedKeepsInv DEF StayLeased, lockVars
  <2> QED
    BY <1>2, <2>1, CycleKeepsInv DEF Step
<1> QED
  BY <1>1, <1>2, EnvironmentKeepsInv DEF Next

\* The host lock serialises the GPU, for any number of workers and lock files: two
\* workers of one file are never both past the probe, and a quarantined file keeps
\* everybody from executing until its process has exited (GpuFileLock).
THEOREM HostLockSerialises == Spec => []GpuExclusive
<1>1. Spec => []QueueInv
  BY QueueInitInv, QueueStep, PTL DEF Spec
<1> QED
  BY <1>1, GpuExclusiveFollows, PTL

\* Every reachable state has its types: whatever is left of a cycle, its worker's
\* lease, lock and run are of the kinds its next statement expects.
THEOREM QueueTypes == Spec => []TypeOK
<1>1. Spec => []QueueInv
  BY QueueInitInv, QueueStep, PTL DEF Spec
<1>2. QueueInv => TypeOK
  BY DEF QueueInv
<1> QED
  BY <1>1, <1>2, PTL

-----------------------------------------------------------------------------
(* Deadlines: while no process is suspended, a lease covers the execution.   *)

\* No cycle and no execution begins in the future.
CyclesBegan == \A w \in Workers : cycle[w] <= now /\ execStart[w] <= now

\* A timely worker is within its deadlines, and the sign of life its lease was
\* claimed with, or a later one, still stands in its row.
DeadlinesHold ==
    Timely => \A w \in Workers :
        /\ pc[w] \in Preparing => now <= cycle[w] + PrepLimit
        /\ pc[w] \in Executing =>
              /\ Current(w)
              /\ execStart[w] <= cycle[w] + PrepLimit /\ now <= execStart[w] + RunLimit
              /\ heartbeat[leaseItem[w]] \in Nat /\ cycle[w] <= heartbeat[leaseItem[w]]

TimeInv == QueueInv /\ CyclesBegan /\ DeadlinesHold

LEMMA TimeInitInv == Init => TimeInv
<1> SUFFICES ASSUME Init PROVE TimeInv
  OBVIOUS
<1>1. "idle" \notin Preparing \cup Executing
  BY DEF Preparing, Executing
<1> QED
  BY <1>1, QueueInitInv DEF Init, TimeInv, CyclesBegan, DeadlinesHold

LEMMA QueueNumbers ==
    /\ Gap \in Nat \ {0} /\ Stale \in Nat /\ Takeover \in Nat /\ RunLimit \in Nat /\ PrepLimit \in Nat
    /\ RunLimit + PrepLimit < Stale /\ RunLimit < Takeover
BY QueueAssumption

\* A lease whose work executes in time cannot be claimed.
LEMMA NoTakeover ==
    ASSUME TimeInv, Timely, NEW v \in Workers, NEW w \in Workers, pc[v] \in Executing,
           Claimable(w, leaseItem[v])
    PROVE  FALSE
<1>1. /\ Current(v) /\ execStart[v] <= cycle[v] + PrepLimit /\ now <= execStart[v] + RunLimit
      /\ heartbeat[leaseItem[v]] \in Nat /\ cycle[v] <= heartbeat[leaseItem[v]]
  BY DEF TimeInv, DeadlinesHold
<1>2. /\ cycle[v] \in Nat /\ cycle[w] \in Nat /\ now \in Nat /\ execStart[v] \in Nat /\ cycle[w] <= now
      /\ leaseItem[v] \in Items /\ leaseTok[v] \in 1..claims /\ claims \in Nat
  BY <1>1 DEF TimeInv, QueueInv, TypeOK, CyclesBegan, LeasesAreNumbered, Current, Leased
<1>3. leaseToken[leaseItem[v]] # NoToken
  BY <1>1, <1>2 DEF Current, NoToken
<1>4. heartbeat[leaseItem[v]] > cycle[w] - Stale
  BY <1>1, <1>2, QueueNumbers
<1> QED
  BY <1>1, <1>2, <1>3, <1>4, QueueNumbers DEF Claimable, Null

\* A worker that leaves its cycle, with the rows as they are or its own row released.
LEMMA EndCycleInTime ==
    ASSUME TimeInv, NEW w \in Workers, EndCycle(w), now' = now,
           \A v \in Workers \ {w} : pc[v] \in Executing =>
              /\ leaseToken'[leaseItem[v]] = leaseToken[leaseItem[v]]
              /\ heartbeat'[leaseItem[v]] = heartbeat[leaseItem[v]]
    PROVE  CyclesBegan' /\ DeadlinesHold'
<1>1. /\ pc' = [pc EXCEPT ![w] = "idle"] /\ "idle" \notin Preparing \cup Executing
      /\ leaseItem' = [leaseItem EXCEPT ![w] = NoItem] /\ leaseTok' = [leaseTok EXCEPT ![w] = NoToken]
      /\ cycle' = [cycle EXCEPT ![w] = 0] /\ execStart' = [execStart EXCEPT ![w] = 0]
  BY DEF EndCycle, Go, Preparing, Executing
<1>2. CyclesBegan'
  BY <1>1 DEF TimeInv, QueueInv, TypeOK, CyclesBegan
<1>3. DeadlinesHold'
  BY <1>1 DEF TimeInv, QueueInv, TypeOK, DeadlinesHold, Current
<1> QED
  BY <1>2, <1>3

LEMMA EnvironmentInTime ==
    ASSUME TimeInv,
           Tick \/ (\E i \in Admin : RequestJob(i)) \/ (\E l \in Locks : OtherStack(l))
           \/ (\E w \in Workers : Crash(w) \/ Begin(w) \/ HeartbeatWork(w))
    PROVE  CyclesBegan' /\ DeadlinesHold'
<1>1. CASE Tick
  <2>1. now' = now + 1 /\ UNCHANGED <<rowVars, workerVars>>
    BY <1>1 DEF Tick
  <2>2. CyclesBegan'
    BY <2>1 DEF TimeInv, QueueInv, TypeOK, CyclesBegan, workerVars
  <2>3. DeadlinesHold'
    BY <1>1, <2>1, QueueNumbers
       DEF Tick, TimeInv, QueueInv, TypeOK, DeadlinesHold, Current, workerVars, rowVars
  <2> QED
    BY <2>2, <2>3
<1>2. CASE (\E i \in Admin : RequestJob(i)) \/ (\E l \in Locks : OtherStack(l))
  <2>1. UNCHANGED <<now, rowVars, workerVars>>
    BY <1>2 DEF RequestJob, OtherStack
  <2> QED
    BY <2>1 DEF TimeInv, CyclesBegan, DeadlinesHold, Current, workerVars, rowVars
<1>3. ASSUME NEW w \in Workers, Crash(w) PROVE CyclesBegan' /\ DeadlinesHold'
  <2>1. /\ pc' = [pc EXCEPT ![w] = "idle"] /\ "idle" \notin Preparing \cup Executing
        /\ leaseItem' = [leaseItem EXCEPT ![w] = NoItem] /\ leaseTok' = [leaseTok EXCEPT ![w] = NoToken]
        /\ cycle' = [cycle EXCEPT ![w] = 0] /\ execStart' = [execStart EXCEPT ![w] = 0]
        /\ UNCHANGED <<now, leaseToken, heartbeat>>
    BY <1>3 DEF Crash, Preparing, Executing, rowVars
  <2>2. CyclesBegan'
    BY <2>1 DEF TimeInv, QueueInv, TypeOK, CyclesBegan
  <2>3. DeadlinesHold'
    BY <2>1 DEF TimeInv, QueueInv, TypeOK, DeadlinesHold, Current
  <2> QED
    BY <2>2, <2>3
<1>4. ASSUME NEW w \in Workers, Begin(w) PROVE CyclesBegan' /\ DeadlinesHold'
  <2>1. /\ pc' = [pc EXCEPT ![w] = "weekly"] /\ "weekly" \notin Executing
        /\ cycle' = [cycle EXCEPT ![w] = now]
        /\ UNCHANGED <<now, leaseToken, heartbeat, leaseItem, leaseTok, execStart>>
    BY <1>4 DEF Begin, Go, Executing, rowVars
  <2>2. CyclesBegan'
    BY <2>1 DEF TimeInv, QueueInv, TypeOK, CyclesBegan
  <2>3. DeadlinesHold'
    BY <2>1, QueueNumbers DEF TimeInv, QueueInv, TypeOK, DeadlinesHold, Current
  <2> QED
    BY <2>2, <2>3
<1>5. ASSUME NEW w \in Workers, HeartbeatWork(w) PROVE CyclesBegan' /\ DeadlinesHold'
  <2>1. heartbeat' = [heartbeat EXCEPT ![leaseItem[w]] = now]
        /\ UNCHANGED <<now, leaseToken, workerVars>>
    BY <1>5 DEF HeartbeatWork
  <2>2. CyclesBegan'
    BY <2>1 DEF TimeInv, CyclesBegan, workerVars
  <2>3. DeadlinesHold'
    BY <2>1 DEF TimeInv, QueueInv, TypeOK, DeadlinesHold, CyclesBegan, Current, workerVars
  <2> QED
    BY <2>2, <2>3
<1> QED
  BY <1>1, <1>2, <1>3, <1>4, <1>5

\* A worker that stays in its cycle, with its times, its lease and all rows.
LEMMA MovesInTime ==
    ASSUME TimeInv, NEW w \in Workers, NEW next, Go(w, next),
           UNCHANGED <<now, leaseToken, heartbeat, cycle, leaseItem, leaseTok, execStart>>,
           next \in Preparing => pc[w] \in Preparing,
           next \in Executing => pc[w] \in Executing
    PROVE  CyclesBegan' /\ DeadlinesHold'
BY DEF Go, TimeInv, QueueInv, TypeOK, CyclesBegan, DeadlinesHold, Current

LEMMA StepInTime == ASSUME TimeInv, NEW w \in Workers, Step(w) PROVE CyclesBegan' /\ DeadlinesHold'
<1>1. CASE \/ StartExecution(w) \/ ClaimQuizJob(w) \/ ClaimAiRun(w)
           \/ WorkSucceeds(w) \/ WorkRaises(w) \/ FinishAiRun(w) \/ PlanWeeks(w)
           \/ FinishJob(w) \/ FailJob(w) \/ Abort(w) \/ CompletionRefused(w)
  <2>1. StayLeased /\ pc[w] \in Executing \cup {"complete"}
    BY <1>1, LeaseIsKept DEF TimeInv, QueueInv
  <2>2. PICK next \in (Executing \ {"start"}) \cup {"release", "cleanup", "retry"} : Go(w, next)
    BY <1>1, LeaseIsKept DEF TimeInv, QueueInv
  <2>3. next \notin Preparing
    BY DEF Preparing, Executing
  <2>4. next \in Executing => pc[w] \in Executing
    BY <1>1, <2>1, <2>2 DEF StartExecution, ClaimQuizJob, ClaimAiRun, WorkSucceeds, WorkRaises, FinishAiRun,
       PlanWeeks, FinishJob, FailJob, Abort, CompletionRefused, Go, Executing, TimeInv, QueueInv, TypeOK
  <2> QED
    BY <2>1, <2>2, <2>3, <2>4, MovesInTime DEF StayLeased, rowVars
<1>2. CASE EnqueueDueWeeklyWork(w) \/ EnqueuePendingAdminWork(w) \/ TryAcquireGpuLock(w) \/ PrepareIdleGpu(w)
           \/ (CheckRecentActivity(w) /\ ~EndCycle(w)) \/ ReleaseGpu(w) \/ CleanupFailedWork(w)
  <2>1. PICK next \in {"admin", "lock", "probe", "claim", "select", "complete", "retry"} :
           /\ Go(w, next)
           /\ next \in Preparing => pc[w] \in Preparing
    BY <1>2 DEF EnqueueDueWeeklyWork, EnqueuePendingAdminWork, TryAcquireGpuLock, PrepareIdleGpu,
                CheckRecentActivity, ReleaseGpu, CleanupFailedWork, Preparing
  <2>2. next \notin Executing
    BY DEF Executing
  <2>3. UNCHANGED <<now, leaseToken, heartbeat, cycle, leaseItem, leaseTok, execStart>>
    BY <1>2 DEF EnqueueDueWeeklyWork, EnqueuePendingAdminWork, TryAcquireGpuLock, PrepareIdleGpu,
                CheckRecentActivity, ReleaseGpu, CleanupFailedWork, rowVars
  <2> QED
    BY <2>1, <2>2, <2>3, MovesInTime
<1>3. CASE DeferDueWork(w) \/ ClaimNothing(w) \/ (CheckRecentActivity(w) /\ EndCycle(w))
  <2>1. EndCycle(w) /\ UNCHANGED <<now, leaseToken, heartbeat>>
    BY <1>3 DEF DeferDueWork, ClaimNothing, CheckRecentActivity, rowVars
  <2> QED
    BY <2>1, EndCycleInTime
<1>4. CASE CompleteWork(w) \/ RetryWork(w)
  <2>1. EndCycle(w) /\ now' = now /\ pc[w] \notin Executing
    BY <1>4 DEF CompleteWork, RetryWork, Executing
  <2>2. \/ UNCHANGED <<leaseToken, heartbeat>>
        \/ /\ Current(w) /\ leaseToken' = [leaseToken EXCEPT ![leaseItem[w]] = NoToken]
           /\ heartbeat' = [heartbeat EXCEPT ![leaseItem[w]] = now]
    BY <1>4 DEF CompleteWork, RetryWork, FencedUpdate
  <2>3. ASSUME NEW v \in Workers \ {w}, pc[v] \in Executing, Timely
        PROVE  /\ leaseToken'[leaseItem[v]] = leaseToken[leaseItem[v]]
               /\ heartbeat'[leaseItem[v]] = heartbeat[leaseItem[v]]
    <3>1. Current(v)
      BY <2>3 DEF TimeInv, DeadlinesHold
    <3>2. Current(w) => leaseItem[v] # leaseItem[w]
      BY <2>3, <3>1, OneHolderPerRow DEF TimeInv, QueueInv
    <3> QED
      BY <2>2, <3>1, <3>2 DEF TimeInv, QueueInv, TypeOK, Current
  <2>4. CASE Timely
    BY <2>1, <2>3, <2>4, EndCycleInTime
  <2>5. CASE ~Timely
    BY <2>1, <2>5 DEF EndCycle, TimeInv, QueueInv, TypeOK, CyclesBegan, DeadlinesHold
  <2> QED
    BY <2>4, <2>5
<1>5. CASE ClaimDueWork(w)
  <2>1. PICK i \in Pending : /\ Claimable(w, i)
                             /\ leaseToken' = [leaseToken EXCEPT ![i] = claims + 1]
                             /\ heartbeat' = [heartbeat EXCEPT ![i] = cycle[w]]
                             /\ leaseItem' = [leaseItem EXCEPT ![w] = i]
    BY <1>5 DEF ClaimDueWork
  <2>2. /\ pc' = [pc EXCEPT ![w] = "start"] /\ leaseTok' = [leaseTok EXCEPT ![w] = claims + 1]
        /\ execStart' = [execStart EXCEPT ![w] = now] /\ cycle' = cycle /\ now' = now
    BY <1>5 DEF ClaimDueWork, Go
  <2>3. i \in Items /\ pc[w] \in Preparing /\ "start" \notin Preparing
    BY <1>5 DEF Pending, TimeInv, QueueInv, TypeOK, ClaimDueWork, Preparing
  <2>4. CyclesBegan'
    BY <2>2 DEF TimeInv, QueueInv, TypeOK, CyclesBegan
  <2>5. Timely => \A v \in Workers : pc[v] \in Executing => leaseItem[v] # i
    BY <2>1, NoTakeover
  <2>6. DeadlinesHold'
    <3> SUFFICES ASSUME Timely, NEW v \in Workers
                 PROVE  /\ pc'[v] \in Preparing => now' <= cycle'[v] + PrepLimit
                        /\ pc'[v] \in Executing =>
                              /\ Current(v)'
                              /\ execStart'[v] <= cycle'[v] + PrepLimit
                              /\ now' <= execStart'[v] + RunLimit
                              /\ heartbeat'[leaseItem'[v]] \in Nat
                              /\ cycle'[v] <= heartbeat'[leaseItem'[v]]
      BY DEF DeadlinesHold
    <3>1. CASE v = w
      BY <2>1, <2>2, <2>3, <3>1, QueueNumbers DEF TimeInv, QueueInv, TypeOK, DeadlinesHold, Current
    <3>2. CASE v # w
      <4>1. UNCHANGED <<pc[v], leaseItem[v], leaseTok[v], execStart[v], cycle[v]>>
        BY <2>1, <2>2, <3>2 DEF TimeInv, QueueInv, TypeOK
      <4>2. pc[v] \in Executing =>
               /\ heartbeat'[leaseItem[v]] = heartbeat[leaseItem[v]]
               /\ leaseToken'[leaseItem[v]] = leaseToken[leaseItem[v]]
        BY <2>1, <2>5 DEF TimeInv, QueueInv, TypeOK
      <4> QED
        BY <2>2, <4>1, <4>2 DEF TimeInv, DeadlinesHold, Current
    <3> QED
      BY <3>1, <3>2
  <2> QED
    BY <2>4, <2>6
<1> QED
  BY <1>1, <1>2, <1>3, <1>4, <1>5 DEF Step

LEMMA TimeStep == ASSUME TimeInv, [Next]_vars PROVE TimeInv'
<1>1. QueueInv'
  BY QueueStep DEF TimeInv
<1>2. CASE UNCHANGED vars
  BY <1>1, <1>2 DEF vars, rowVars, workerVars, TimeInv, CyclesBegan, DeadlinesHold, Current
<1> QED
  BY <1>1, <1>2, StepInTime, EnvironmentInTime DEF Next, TimeInv

\* While no process is suspended beyond its deadline, nobody takes over a lease whose
\* work is still executing, for any number of workers, hosts and rows and any limits
\* that leave the margin of _runtime_limit_seconds.
THEOREM LeaseCovers == Spec => []LeaseCoversExecution
<1>1. Spec => []TimeInv
  BY TimeInitInv, TimeStep, PTL DEF Spec
<1>2. TimeInv => LeaseCoversExecution
  BY DEF TimeInv, DeadlinesHold, LeaseCoversExecution
<1> QED
  BY <1>1, <1>2, PTL

-----------------------------------------------------------------------------
(* Work: a row is complete only when its work is done, and done for good.    *)

\* Rows that share an AiRun do not execute at the same time: because no process is
\* suspended, because all workers share one lock file, or because no two rows
\* share a run at all.
RunsApart ==
    \/ Timely
    \/ \A v, w \in Workers : LockOf[v] = LockOf[w]
    \/ \A i, j \in Items : RunOf[i] = RunOf[j] /\ RunOf[i] # NoRun => i = j

\* What the work of a row has to leave behind.
Done(i) == IF i \in Admin THEN jobStatus[i] = "passed" ELSE runStatus[RunOf[i]] \in Terminal

\* Each step belongs to the kinds of work that take it.
StepsFitKinds ==
    \A w \in Workers :
        /\ pc[w] \in {"job", "finish_job", "fail_job"} => leaseItem[w] \in Admin
        /\ pc[w] \in {"run", "finish", "plan"} => ClaimsRun(w)
        /\ pc[w] = "work" => ClaimsRun(w) \/ leaseItem[w] \in Admin
        /\ pc[w] = "plan" => Kind[leaseItem[w]] = "weekly_learning"

\* A worker that has claimed the run of its row and still holds its lease.
RunInHand(w) == pc[w] \in {"work", "finish"} /\ ClaimsRun(w) /\ Current(w)

\* Its run is open, since no earlier than its execution, and in no other hands.
RunsInHand ==
    /\ \A w \in Workers : RunInHand(w) => /\ runStatus[Run(w)] = "running"
                                          /\ execStart[w] <= runStarted[Run(w)]
    /\ \A v, w \in Workers : RunInHand(v) /\ RunInHand(w) /\ Run(v) = Run(w) => v = w

\* A worker that has claimed its admin job and still holds its lease.
JobInHand(w) ==
    /\ pc[w] \in {"run", "work", "finish", "finish_job", "fail_job"}
    /\ leaseItem[w] \in Admin /\ Current(w)
JobsInHand == \A w \in Workers : JobInHand(w) => jobStatus[leaseItem[w]] = "running"

\* A worker about to complete its row has done the work, or lost its lease.
DoneInHand ==
    \A w \in Workers : pc[w] \in {"plan", "release", "complete"} /\ Current(w) => Done(leaseItem[w])

RowsDone == \A i \in Items : Complete(i) => Done(i)

WorkInv == TimeInv /\ StepsFitKinds /\ RunsInHand /\ JobsInHand /\ DoneInHand /\ RowsDone

\* The kinds of the rows.
LEMMA KindsNamed ==
    /\ Admin \subseteq Items /\ Admin \cap Weekly = {} /\ Items = Admin \cup Weekly
    /\ \A i \in Items : /\ RunOf[i] \in Runs \cup {NoRun}
                        /\ RunOf[i] = NoRun => i \in Admin
                        /\ i \in Admin <=> Kind[i] \in AdminKinds
                        /\ Kind[i] \in WeeklyKinds \cup AdminKinds
    /\ NoRun \notin Runs /\ "weekly_learning" \notin AdminKinds /\ "weekly_generation" \notin AdminKinds
    /\ WeeklyKinds = {"weekly_learning", "weekly_generation"}
BY QueueAssumption DEF Admin, Weekly, WeeklyKinds, AdminKinds

LEMMA WorkInitInv == Init => WorkInv
<1> SUFFICES ASSUME Init PROVE WorkInv
  OBVIOUS
<1>1. StepsFitKinds /\ RunsInHand /\ JobsInHand /\ DoneInHand
  BY DEF Init, StepsFitKinds, RunsInHand, RunInHand, JobsInHand, JobInHand, DoneInHand
<1>2. RowsDone
  BY DEF Init, RowsDone, Complete
<1> QED
  BY <1>1, <1>2, TimeInitInv DEF WorkInv

\* Two rows of one run are not claimed into two hands.
LEMMA RunIsFree ==
    ASSUME RunsApart, WorkInv, NEW v \in Workers, NEW w \in Workers, RunInHand(v),
           pc[w] = "run", Current(w), ~RunIsActive(Run(w)), Run(w) = Run(v)
    PROVE  FALSE
<1>1. pc[v] \in Executing /\ pc[w] \in Executing /\ v # w /\ Current(v)
  BY DEF RunInHand, Executing
<1>2. CASE Timely
  <2>1. now <= execStart[v] + RunLimit /\ execStart[v] <= runStarted[Run(v)]
        /\ runStatus[Run(v)] = "running"
    BY <1>1, <1>2 DEF WorkInv, TimeInv, DeadlinesHold, RunsInHand
  <2>2. now \in Nat /\ execStart[v] \in Nat
    BY DEF WorkInv, TimeInv, QueueInv, TypeOK
  <2>3. runStarted[Run(v)] \in Nat
    <3>1. leaseItem[v] \in Items
      BY <1>1 DEF Current
    <3>2. Run(v) \in Runs
      BY <3>1, KindsNamed DEF RunInHand, ClaimsRun, Run
    <3> QED
      BY <2>1, <2>2, <3>2 DEF WorkInv, TimeInv, QueueInv, TypeOK, Null
  <2> QED
    BY <2>1, <2>2, <2>3, QueueNumbers DEF RunIsActive
<1>3. CASE LockOf[v] = LockOf[w]
  BY <1>1, <1>3, OneWorkerPerLock DEF WorkInv, TimeInv, QueueInv, Locking, Leased
<1>4. CASE \A i, j \in Items : RunOf[i] = RunOf[j] /\ RunOf[i] # NoRun => i = j
  <2>1. leaseItem[v] = leaseItem[w]
    BY <1>1, <1>4 DEF RunInHand, Current, ClaimsRun, Run
  <2> QED
    BY <1>1, <2>1, OneHolderPerRow DEF WorkInv, TimeInv, QueueInv
<1> QED
  BY <1>2, <1>3, <1>4 DEF RunsApart

\* A finished run stays finished, and a passed job passed.
Final ==
    /\ \A r \in DOMAIN runStatus : runStatus[r] \in Terminal => runStatus'[r] = runStatus[r]
    /\ \A i \in DOMAIN jobStatus : jobStatus[i] = "passed" => jobStatus'[i] = "passed"

LEMMA StepIsFinal == ASSUME WorkInv, NEW w \in Workers, Step(w) PROVE Final
<1> USE DEF Final, Terminal
<1>1. CASE \/ EnqueueDueWeeklyWork(w) \/ EnqueuePendingAdminWork(w)
           \/ TryAcquireGpuLock(w) \/ PrepareIdleGpu(w) \/ DeferDueWork(w)
           \/ CheckRecentActivity(w) \/ ClaimNothing(w) \/ ClaimDueWork(w)
           \/ ReleaseGpu(w) \/ CleanupFailedWork(w) \/ CompleteWork(w) \/ RetryWork(w)
  <2>1. UNCHANGED <<runStatus, jobStatus>>
    BY <1>1 DEF EnqueueDueWeeklyWork, EnqueuePendingAdminWork, TryAcquireGpuLock, PrepareIdleGpu,
                DeferDueWork, CheckRecentActivity, ClaimNothing, ClaimDueWork, ReleaseGpu,
                CleanupFailedWork, CompleteWork, RetryWork, runVars
  <2> QED
    BY <2>1
<1>2. CASE \/ StartExecution(w) \/ WorkSucceeds(w) \/ PlanWeeks(w) \/ Abort(w) \/ CompletionRefused(w)
  BY <1>2 DEF StartExecution, WorkSucceeds, PlanWeeks, Abort, CompletionRefused, runVars
<1>3. CASE ClaimQuizJob(w) \/ FinishJob(w)
  BY <1>3 DEF ClaimQuizJob, FinishJob, runVars, WorkInv, TimeInv, QueueInv, TypeOK
<1>4. CASE ClaimAiRun(w)
  BY <1>4 DEF ClaimAiRun, runVars, WorkInv, TimeInv, QueueInv, TypeOK
<1>5. CASE WorkRaises(w) \/ FinishAiRun(w)
  <2>1. pc[w] \in {"work", "finish"} /\ jobStatus' = jobStatus
    BY <1>5 DEF WorkRaises, FinishAiRun
  <2>2. runStatus' = runStatus \/ RunInHand(w)
    BY <1>5, <2>1 DEF WorkRaises, FinishAiRun, RunInHand, WorkInv, StepsFitKinds
  <2>3. RunInHand(w) => runStatus[Run(w)] = "running"
    BY DEF WorkInv, RunsInHand
  <2>4. \A r \in DOMAIN runStatus : r # Run(w) => runStatus'[r] = runStatus[r]
    BY <1>5 DEF WorkRaises, FinishAiRun, WorkInv, TimeInv, QueueInv, TypeOK
  <2> QED
    BY <2>1, <2>2, <2>3, <2>4
<1>6. CASE FailJob(w)
  <2>1. Current(w) => jobStatus[leaseItem[w]] = "running"
    BY <1>6 DEF FailJob, WorkInv, JobsInHand, JobInHand, StepsFitKinds
  <2> QED
    BY <1>6, <2>1 DEF FailJob, runVars, WorkInv, TimeInv, QueueInv, TypeOK
<1> QED
  BY <1>1, <1>2, <1>3, <1>4, <1>5, <1>6 DEF Step

LEMMA EveryStepIsFinal == ASSUME WorkInv, [Next]_vars PROVE Final
<1>1. ASSUME NEW i \in Admin, RequestJob(i) PROVE Final
  BY <1>1 DEF RequestJob, runVars, Final, WorkInv, TimeInv, QueueInv, TypeOK
<1>2. CASE UNCHANGED vars \/ Tick \/ (\E l \in Locks : OtherStack(l))
           \/ (\E w \in Workers : Crash(w) \/ Begin(w) \/ HeartbeatWork(w))
  <2>1. UNCHANGED <<runStatus, jobStatus>>
    BY <1>2 DEF vars, Tick, OtherStack, Crash, Begin, HeartbeatWork, runVars
  <2> QED
    BY <2>1 DEF Final
<1> QED
  BY <1>1, <1>2, StepIsFinal DEF Next

\* What is done stays done.
LEMMA DoneStays ==
    ASSUME WorkInv, Final, NEW i \in Items, Done(i)
    PROVE  Done(i)'
<1>1. DOMAIN runStatus = Runs /\ DOMAIN jobStatus = Admin
  BY DEF WorkInv, TimeInv, QueueInv, TypeOK
<1>2. i \notin Admin => RunOf[i] \in Runs
  BY KindsNamed
<1> QED
  BY <1>1, <1>2 DEF Done, Final

\* Rows complete only with their work done.
LEMMA RowsStayDone ==
    ASSUME WorkInv, Final, \A i \in Items : Complete(i)' => Complete(i) \/ Done(i)
    PROVE  RowsDone'
BY DoneStays DEF WorkInv, RowsDone

WorkSteps == {"job", "run", "work", "finish", "plan", "finish_job", "fail_job", "release", "complete"}

\* A step that leaves runs and jobs alone, and the workers at work where they are.
LEMMA WorkUndisturbed ==
    ASSUME WorkInv, UNCHANGED <<runVars, jobStatus>>,
           \A v \in Workers : pc'[v] \in WorkSteps =>
              /\ pc'[v] = pc[v] \/ (pc[v] = "release" /\ pc'[v] = "complete")
              /\ leaseItem'[v] = leaseItem[v] /\ execStart'[v] = execStart[v]
              /\ Current(v)' => Current(v)
    PROVE  StepsFitKinds' /\ RunsInHand' /\ JobsInHand' /\ DoneInHand'
<1> USE DEF WorkSteps
<1>1. StepsFitKinds'
  BY DEF WorkInv, StepsFitKinds, ClaimsRun
<1>2. \A v \in Workers : RunInHand(v)' => RunInHand(v) /\ Run(v)' = Run(v)
  BY DEF RunInHand, ClaimsRun, Run
<1>3. RunsInHand'
  BY <1>2 DEF WorkInv, RunsInHand, runVars, RunInHand
<1>4. JobsInHand'
  BY DEF WorkInv, JobsInHand, JobInHand
<1>5. DoneInHand'
  BY DEF WorkInv, DoneInHand, Done, runVars
<1> QED
  BY <1>1, <1>3, <1>4, <1>5

LEMMA EnvironmentKeepsWork ==
    ASSUME WorkInv, Final,
           Tick \/ (\E i \in Admin : RequestJob(i)) \/ (\E l \in Locks : OtherStack(l))
           \/ (\E w \in Workers : Crash(w) \/ Begin(w) \/ HeartbeatWork(w))
    PROVE  StepsFitKinds' /\ RunsInHand' /\ JobsInHand' /\ DoneInHand' /\ RowsDone'
<1>1. RowsDone'
  <2>1. UNCHANGED <<present, nextAttempt>>
    BY DEF Tick, RequestJob, OtherStack, Crash, Begin, HeartbeatWork, rowVars
  <2> QED
    BY <2>1, RowsStayDone DEF Complete
<1>2. CASE Tick \/ (\E l \in Locks : OtherStack(l)) \/ (\E w \in Workers : HeartbeatWork(w))
  <2>1. UNCHANGED <<runVars, jobStatus, workerVars, leaseToken>>
    BY <1>2 DEF Tick, OtherStack, HeartbeatWork, rowVars
  <2>2. \A v \in Workers : pc'[v] \in WorkSteps =>
           /\ pc'[v] = pc[v] \/ (pc[v] = "release" /\ pc'[v] = "complete")
           /\ leaseItem'[v] = leaseItem[v] /\ execStart'[v] = execStart[v]
           /\ Current(v)' => Current(v)
    BY <2>1 DEF workerVars, Current
  <2> QED
    BY <1>1, <2>1, <2>2, WorkUndisturbed
<1>3. ASSUME NEW w \in Workers, Crash(w) \/ Begin(w)
      PROVE  StepsFitKinds' /\ RunsInHand' /\ JobsInHand' /\ DoneInHand'
  <2>1. PICK next \in {"idle", "weekly"} : pc' = [pc EXCEPT ![w] = next]
    BY <1>3 DEF Crash, Begin, Go
  <2>2. UNCHANGED <<runVars, jobStatus, leaseToken>>
    BY <1>3 DEF Crash, Begin, rowVars
  <2>3. \A v \in Workers \ {w} : /\ leaseItem'[v] = leaseItem[v] /\ leaseTok'[v] = leaseTok[v]
                                 /\ execStart'[v] = execStart[v] /\ pc'[v] = pc[v]
    BY <1>3, <2>1 DEF Crash, Begin, WorkInv, TimeInv, QueueInv, TypeOK
  <2>4. pc'[w] \notin WorkSteps
    BY <2>1 DEF WorkSteps, WorkInv, TimeInv, QueueInv, TypeOK
  <2>5. \A v \in Workers : pc'[v] \in WorkSteps =>
           /\ pc'[v] = pc[v] \/ (pc[v] = "release" /\ pc'[v] = "complete")
           /\ leaseItem'[v] = leaseItem[v] /\ execStart'[v] = execStart[v]
           /\ Current(v)' => Current(v)
    BY <2>2, <2>3, <2>4 DEF Current
  <2> QED
    BY <2>2, <2>5, WorkUndisturbed
<1>4. ASSUME NEW i \in Admin, RequestJob(i)
      PROVE  StepsFitKinds' /\ RunsInHand' /\ JobsInHand' /\ DoneInHand'
  <2>1. UNCHANGED <<runStatus, runStarted, leaseToken, workerVars>>
    BY <1>4 DEF RequestJob, rowVars, runVars
  <2>2. StepsFitKinds' /\ RunsInHand'
    BY <2>1 DEF WorkInv, StepsFitKinds, RunsInHand, RunInHand, ClaimsRun, Run, Current, workerVars
  <2>3. \A j \in Admin : jobStatus[j] # "absent" => jobStatus'[j] = jobStatus[j]
    BY <1>4 DEF RequestJob, WorkInv, TimeInv, QueueInv, TypeOK
  <2>4. JobsInHand'
    BY <2>1, <2>3 DEF WorkInv, JobsInHand, JobInHand, Current, workerVars
  <2>5. DoneInHand'
    BY <2>1, <2>3 DEF WorkInv, DoneInHand, Done, Current, workerVars
  <2> QED
    BY <2>2, <2>4, <2>5
<1> QED
  BY <1>1, <1>2, <1>3, <1>4

\* The other workers' leases are not made current by a worker's step.
LEMMA CycleKeepsWork ==
    ASSUME WorkInv, Final, NEW w \in Workers,
           \/ EnqueueDueWeeklyWork(w) \/ EnqueuePendingAdminWork(w)
           \/ TryAcquireGpuLock(w) \/ PrepareIdleGpu(w) \/ DeferDueWork(w)
           \/ CheckRecentActivity(w) \/ ClaimNothing(w) \/ ClaimDueWork(w)
           \/ ReleaseGpu(w) \/ CleanupFailedWork(w) \/ CompleteWork(w) \/ RetryWork(w)
    PROVE  StepsFitKinds' /\ RunsInHand' /\ JobsInHand' /\ DoneInHand' /\ RowsDone'
<1>1. UNCHANGED <<runVars, jobStatus>>
  BY DEF EnqueueDueWeeklyWork, EnqueuePendingAdminWork, TryAcquireGpuLock, PrepareIdleGpu,
         DeferDueWork, CheckRecentActivity, ClaimNothing, ClaimDueWork, ReleaseGpu,
         CleanupFailedWork, CompleteWork, RetryWork
<1>2. PICK next \in {"admin", "lock", "probe", "claim", "select", "start", "complete", "retry", "idle"} :
         /\ pc' = [pc EXCEPT ![w] = next]
         /\ next = "complete" => pc[w] = "release"
  BY DEF EnqueueDueWeeklyWork, EnqueuePendingAdminWork, TryAcquireGpuLock, PrepareIdleGpu,
         DeferDueWork, CheckRecentActivity, ClaimNothing, ClaimDueWork, ReleaseGpu,
         CleanupFailedWork, CompleteWork, RetryWork, EndCycle, Go
<1>3. next = "complete" => UNCHANGED <<leaseItem, leaseTok, execStart, leaseToken>>
  BY <1>2 DEF EnqueueDueWeeklyWork, EnqueuePendingAdminWork, TryAcquireGpuLock, PrepareIdleGpu,
         DeferDueWork, CheckRecentActivity, ClaimNothing, ClaimDueWork, ReleaseGpu,
         CleanupFailedWork, CompleteWork, RetryWork, EndCycle, Go, rowVars, WorkInv, TimeInv, QueueInv, TypeOK
<1>4. \A v \in Workers \ {w} : /\ leaseItem'[v] = leaseItem[v] /\ leaseTok'[v] = leaseTok[v]
                               /\ execStart'[v] = execStart[v] /\ pc'[v] = pc[v]
  BY <1>2 DEF EnqueueDueWeeklyWork, EnqueuePendingAdminWork, TryAcquireGpuLock, PrepareIdleGpu,
         DeferDueWork, CheckRecentActivity, ClaimNothing, ClaimDueWork, ReleaseGpu,
         CleanupFailedWork, CompleteWork, RetryWork, EndCycle, WorkInv, TimeInv, QueueInv, TypeOK
<1>5. \A i \in Items : leaseToken'[i] \in {leaseToken[i], NoToken, claims + 1}
  BY DEF EnqueueDueWeeklyWork, EnqueuePendingAdminWork, TryAcquireGpuLock, PrepareIdleGpu,
         DeferDueWork, CheckRecentActivity, ClaimNothing, ClaimDueWork, ReleaseGpu,
         CleanupFailedWork, CompleteWork, RetryWork, FencedUpdate, rowVars,
         WorkInv, TimeInv, QueueInv, TypeOK
<1>6. \A v \in Workers \ {w} : pc[v] \in WorkSteps /\ Current(v)' => Current(v)
  <2> SUFFICES ASSUME NEW v \in Workers \ {w}, pc[v] \in WorkSteps, Current(v)' PROVE Current(v)
    OBVIOUS
  <2>1. leaseTok[v] \in 1..claims /\ claims \in Nat
    BY DEF WorkInv, TimeInv, QueueInv, TypeOK, LeasesAreNumbered, WorkSteps, Leased, Executing, Ending
  <2> QED
    BY <1>4, <1>5, <2>1 DEF Current, NoToken
<1>7. \A v \in Workers : pc'[v] \in WorkSteps =>
         /\ pc'[v] = pc[v] \/ (pc[v] = "release" /\ pc'[v] = "complete")
         /\ leaseItem'[v] = leaseItem[v] /\ execStart'[v] = execStart[v]
         /\ Current(v)' => Current(v)
  <2> SUFFICES ASSUME NEW v \in Workers, pc'[v] \in WorkSteps
               PROVE  /\ pc'[v] = pc[v] \/ (pc[v] = "release" /\ pc'[v] = "complete")
                      /\ leaseItem'[v] = leaseItem[v] /\ execStart'[v] = execStart[v]
                      /\ Current(v)' => Current(v)
    OBVIOUS
  <2>1. CASE v = w
    <3>1. pc'[w] = next /\ next = "complete"
      BY <1>2, <2>1 DEF WorkSteps, WorkInv, TimeInv, QueueInv, TypeOK
    <3> QED
      BY <1>2, <1>3, <2>1, <3>1 DEF Current
  <2>2. CASE v # w
    BY <1>4, <1>6, <2>2 DEF Current
  <2> QED
    BY <2>1, <2>2
<1>8. \A i \in Items : Complete(i)' => Complete(i) \/ Done(i)
  <2>1. CASE EnqueueDueWeeklyWork(w)
    <3>1. \A i \in Items : AlreadyGenerated(i) => Done(i)
      BY KindsNamed DEF AlreadyGenerated, Done
    <3>2. \A i \in Items : i \notin Weekly => i \notin LatestDue(w)
      BY DEF LatestDue
    <3>3. \A i \in LatestDue(w) : ScheduledAt[i] # Null
      BY QueueAssumption DEF LatestDue, Weekly, Null
    <3> QED
      BY <2>1, <3>1, <3>2, <3>3 DEF EnqueueDueWeeklyWork, Complete, WorkInv, TimeInv, QueueInv, TypeOK
  <2>2. CASE EnqueuePendingAdminWork(w)
    <3>1. \A i \in Items : ScheduledAt[i] # Null
      BY QueueAssumption DEF Null
    <3> QED
      BY <2>2, <3>1 DEF EnqueuePendingAdminWork, Complete, WorkInv, TimeInv, QueueInv, TypeOK
  <2>3. CASE DeferDueWork(w)
    <3>1. cycle[w] + Gap # Null
      BY QueueNumbers DEF WorkInv, TimeInv, QueueInv, TypeOK, Null
    <3> QED
      BY <2>3, <3>1 DEF DeferDueWork, Complete, WorkInv, TimeInv, QueueInv, TypeOK
  <2>4. CASE CompleteWork(w)
    <3>1. Current(w) => Done(leaseItem[w])
      BY <2>4 DEF CompleteWork, WorkInv, DoneInHand
    <3> QED
      BY <2>4, <3>1 DEF CompleteWork, FencedUpdate, Complete, WorkInv, TimeInv, QueueInv, TypeOK
  <2>5. CASE RetryWork(w)
    <3>1. now + Gap # Null
      BY QueueNumbers DEF WorkInv, TimeInv, QueueInv, TypeOK, Null
    <3> QED
      BY <2>5, <3>1 DEF RetryWork, FencedUpdate, Complete, WorkInv, TimeInv, QueueInv, TypeOK
  <2>6. CASE \/ TryAcquireGpuLock(w) \/ PrepareIdleGpu(w)
             \/ CheckRecentActivity(w) \/ ClaimNothing(w) \/ ClaimDueWork(w)
             \/ ReleaseGpu(w) \/ CleanupFailedWork(w)
    <3>1. UNCHANGED <<present, nextAttempt>>
      BY <2>6 DEF TryAcquireGpuLock, PrepareIdleGpu, CheckRecentActivity, ClaimNothing, ClaimDueWork,
                  ReleaseGpu, CleanupFailedWork, rowVars
    <3> QED
      BY <3>1 DEF Complete
  <2> QED
    BY <2>1, <2>2, <2>3, <2>4, <2>5, <2>6
<1> QED
  BY <1>1, <1>7, <1>8, WorkUndisturbed, RowsStayDone

\* The steps of an execution.
LEMMA ExecutionKeepsWork ==
    ASSUME RunsApart, WorkInv, Final, NEW w \in Workers,
           \/ StartExecution(w) \/ ClaimQuizJob(w) \/ ClaimAiRun(w)
           \/ WorkSucceeds(w) \/ WorkRaises(w) \/ FinishAiRun(w) \/ PlanWeeks(w)
           \/ FinishJob(w) \/ FailJob(w) \/ Abort(w) \/ CompletionRefused(w)
    PROVE  StepsFitKinds' /\ RunsInHand' /\ JobsInHand' /\ DoneInHand' /\ RowsDone'
<1>1. StayLeased /\ pc[w] \in Executing \cup {"complete"}
  BY LeaseIsKept DEF WorkInv, TimeInv, QueueInv
<1>2. PICK next \in (Executing \ {"start"}) \cup {"release", "cleanup", "retry"} :
         pc' = [pc EXCEPT ![w] = next]
  BY LeaseIsKept DEF Go, WorkInv, TimeInv, QueueInv
<1>3. RowsDone'
  <2>1. UNCHANGED <<present, nextAttempt>>
    BY <1>1 DEF StayLeased, rowVars
  <2> QED
    BY <2>1, RowsStayDone DEF Complete
<1>4. UNCHANGED <<now, leaseItem, leaseTok, execStart, leaseToken>>
  BY <1>1 DEF StayLeased, rowVars
<1>5. \A v \in Workers : (Current(v)' <=> Current(v)) /\ (ClaimsRun(v)' <=> ClaimsRun(v))
                         /\ Run(v)' = Run(v)
  BY <1>4 DEF Current, ClaimsRun, Run
<1>6. /\ pc'[w] = next /\ \A v \in Workers \ {w} : pc'[v] = pc[v]
      /\ leaseItem[w] \in Items
  <2>1. pc[w] \in Leased
    BY <1>1 DEF Leased, Ending
  <2> QED
    BY <1>2, <2>1 DEF WorkInv, TimeInv, QueueInv, TypeOK, LeasesAreNumbered
<1>7. StepsFitKinds'
  <2>1. /\ pc'[w] \in {"job", "finish_job", "fail_job"} => leaseItem[w] \in Admin
        /\ pc'[w] \in {"run", "finish", "plan"} => ClaimsRun(w)
        /\ pc'[w] = "work" => ClaimsRun(w) \/ leaseItem[w] \in Admin
        /\ pc'[w] = "plan" => Kind[leaseItem[w]] = "weekly_learning"
    BY <1>2, <1>6, KindsNamed
       DEF StartExecution, ClaimQuizJob, ClaimAiRun, WorkSucceeds, WorkRaises, FinishAiRun, PlanWeeks,
           FinishJob, FailJob, Abort, CompletionRefused, Go, Raised, AfterRun, ClaimsRun,
           WorkInv, StepsFitKinds, TimeInv, QueueInv, TypeOK
  <2> QED
    BY <1>4, <1>5, <1>6, <2>1 DEF WorkInv, StepsFitKinds
<1>8. RunsInHand'
  <2>1. CASE ~ClaimAiRun(w) /\ ~WorkRaises(w) /\ ~FinishAiRun(w)
    <3>1. UNCHANGED runVars
      BY <2>1 DEF StartExecution, ClaimQuizJob, WorkSucceeds, PlanWeeks, FinishJob, FailJob, Abort,
                  CompletionRefused
    <3>2. pc'[w] \in {"work", "finish"} => pc[w] \in {"work"} \/ ~ClaimsRun(w)
      BY <2>1, <1>2, <1>6
         DEF StartExecution, ClaimQuizJob, WorkSucceeds, PlanWeeks, FinishJob, FailJob, Abort,
             CompletionRefused, Go, WorkInv, TimeInv, QueueInv, TypeOK
    <3>3. \A v \in Workers : RunInHand(v)' => RunInHand(v)
      BY <1>5, <1>6, <3>2 DEF RunInHand
    <3> QED
      BY <1>4, <1>5, <3>1, <3>3 DEF WorkInv, RunsInHand, runVars
  <2>2. CASE WorkRaises(w) \/ FinishAiRun(w)
    <3>1. pc'[w] \notin {"work", "finish"} /\ runStarted' = runStarted
      BY <2>2, <1>2, <1>6 DEF WorkRaises, FinishAiRun, Go, Raised, AfterRun, WorkInv, TimeInv, QueueInv, TypeOK
    <3>2. runStatus' = runStatus \/ RunInHand(w)
      BY <2>2 DEF WorkRaises, FinishAiRun, RunInHand, WorkInv, StepsFitKinds
    <3>3. \A r \in Runs : r # Run(w) => runStatus'[r] = runStatus[r]
      BY <2>2 DEF WorkRaises, FinishAiRun, WorkInv, TimeInv, QueueInv, TypeOK
    <3>4. \A v \in Workers : RunInHand(v)' => v # w /\ RunInHand(v)
      BY <1>5, <1>6, <3>1 DEF RunInHand
    <3>5. \A v \in Workers : RunInHand(v) => Run(v) \in Runs
      BY KindsNamed DEF RunInHand, ClaimsRun, Run, Current
    <3>6. \A v \in Workers : RunInHand(v)' => runStatus'[Run(v)] = runStatus[Run(v)]
      BY <3>2, <3>3, <3>4, <3>5 DEF WorkInv, RunsInHand
    <3> QED
      BY <1>4, <1>5, <3>1, <3>4, <3>6 DEF WorkInv, RunsInHand
  <2>3. CASE ClaimAiRun(w) /\ next # "work"
    <3>1. UNCHANGED runVars
      BY <2>3, <1>6 DEF ClaimAiRun, Go, WorkInv, TimeInv, QueueInv, TypeOK
    <3>2. next # "finish"
      BY <2>3, <1>6 DEF ClaimAiRun, Go, Raised, AfterRun, WorkInv, TimeInv, QueueInv, TypeOK
    <3>3. \A v \in Workers : RunInHand(v)' => RunInHand(v)
      BY <1>5, <1>6, <2>3, <3>2 DEF RunInHand
    <3> QED
      BY <1>4, <1>5, <3>1, <3>3 DEF WorkInv, RunsInHand, runVars
  <2>4. CASE ClaimAiRun(w) /\ next = "work"
    <3>1. /\ pc[w] = "run" /\ Current(w) /\ ~RunIsActive(Run(w))
          /\ runStatus' = [runStatus EXCEPT ![Run(w)] = "running"]
          /\ runStarted' = [runStarted EXCEPT ![Run(w)] = now]
      BY <2>4, <1>6 DEF ClaimAiRun, Go, Raised, AfterRun, WorkInv, TimeInv, QueueInv, TypeOK
    <3>2. Run(w) \in Runs
      BY <3>1, <1>6, KindsNamed DEF WorkInv, StepsFitKinds, ClaimsRun, Run
    <3>3. runStatus'[Run(w)] = "running" /\ runStarted'[Run(w)] = now
          /\ \A r \in Runs \ {Run(w)} : runStatus'[r] = runStatus[r] /\ runStarted'[r] = runStarted[r]
      BY <3>1, <3>2 DEF WorkInv, TimeInv, QueueInv, TypeOK
    <3>4. \A v \in Workers : RunInHand(v) => Run(v) # Run(w)
      BY <3>1, RunIsFree
    <3>5. \A v \in Workers \ {w} : RunInHand(v)' => RunInHand(v)
      BY <1>5, <1>6 DEF RunInHand
    <3>6. \A v \in Workers : RunInHand(v) => Run(v) \in Runs
      BY KindsNamed DEF RunInHand, ClaimsRun, Run, Current
    <3>7. execStart[w] <= now
      BY DEF WorkInv, TimeInv, CyclesBegan
    <3> QED
      BY <1>4, <1>5, <3>3, <3>4, <3>5, <3>6, <3>7 DEF WorkInv, RunsInHand
  <2> QED
    BY <2>1, <2>2, <2>3, <2>4
<1>9. JobsInHand'
  <2>1. CASE ~ClaimQuizJob(w) /\ ~FinishJob(w) /\ ~FailJob(w)
    <3>1. jobStatus' = jobStatus
      BY <2>1 DEF StartExecution, ClaimAiRun, WorkSucceeds, WorkRaises, FinishAiRun, PlanWeeks, Abort,
                  CompletionRefused
    <3>2. pc'[w] \in {"run", "work", "finish", "finish_job", "fail_job"} /\ leaseItem[w] \in Admin =>
             pc[w] \in {"run", "work", "finish", "finish_job", "fail_job"}
      BY <2>1, <1>2, <1>6, KindsNamed
         DEF StartExecution, ClaimAiRun, WorkSucceeds, WorkRaises, FinishAiRun, PlanWeeks, Abort,
             CompletionRefused, Go, WorkInv, TimeInv, QueueInv, TypeOK
    <3>3. \A v \in Workers : JobInHand(v)' => JobInHand(v)
      BY <1>4, <1>5, <1>6, <3>2 DEF JobInHand
    <3> QED
      BY <1>4, <3>1, <3>3 DEF WorkInv, JobsInHand
  <2>2. CASE ClaimQuizJob(w) \/ FinishJob(w) \/ FailJob(w)
    <3>1. \A i \in Admin : i # leaseItem[w] \/ ~Current(w) => jobStatus'[i] = jobStatus[i]
      BY <2>2 DEF ClaimQuizJob, FinishJob, FailJob, WorkInv, TimeInv, QueueInv, TypeOK
    <3>2. JobInHand(w)' => jobStatus'[leaseItem[w]] = "running"
      BY <2>2, <1>4, <1>5, <1>6
         DEF ClaimQuizJob, FinishJob, FailJob, Go, JobInHand, WorkInv, TimeInv, QueueInv, TypeOK
    <3>3. \A v \in Workers \ {w} : JobInHand(v)' => JobInHand(v)
      BY <1>4, <1>5, <1>6 DEF JobInHand
    <3>4. \A v \in Workers \ {w} : JobInHand(v) /\ Current(w) => leaseItem[v] # leaseItem[w]
      BY OneHolderPerRow DEF JobInHand, WorkInv, TimeInv, QueueInv
    <3>5. \A v \in Workers \ {w} : JobInHand(v)' => jobStatus'[leaseItem[v]] = "running"
      BY <3>1, <3>3, <3>4 DEF WorkInv, JobsInHand, JobInHand
    <3> QED
      BY <1>4, <3>2, <3>5 DEF JobsInHand
  <2> QED
    BY <2>1, <2>2
<1>10. DoneInHand'
  <2>1. \A v \in Workers : Current(v) /\ Done(leaseItem[v]) => Done(leaseItem[v])'
    BY <1>4, DoneStays DEF Current, Done
  <2>2. pc'[w] \in {"plan", "release", "complete"} /\ Current(w) => Done(leaseItem[w])'
    <3> SUFFICES ASSUME pc'[w] \in {"plan", "release", "complete"}, Current(w)
                 PROVE  Done(leaseItem[w])'
      OBVIOUS
    <3>1. CASE ClaimQuizJob(w)
      <4>1. leaseItem[w] \in Admin /\ jobStatus[leaseItem[w]] = "passed"
        BY <1>6, <3>1 DEF ClaimQuizJob, Go, WorkInv, StepsFitKinds, TimeInv, QueueInv, TypeOK
      <4> QED
        BY <4>1, <2>1 DEF Done
    <3>2. CASE ClaimAiRun(w) \/ FinishAiRun(w)
      <4>1. runStatus'[Run(w)] \in Terminal /\ next = AfterRun(w)
        <5>1. Run(w) \in Runs
          BY <3>2, <1>6, KindsNamed DEF ClaimAiRun, FinishAiRun, WorkInv, StepsFitKinds, ClaimsRun, Run
        <5>2. CASE ClaimAiRun(w)
          BY <5>1, <5>2, <1>6
             DEF ClaimAiRun, Go, Raised, runVars, WorkInv, TimeInv, QueueInv, TypeOK
        <5>3. CASE FinishAiRun(w)
          BY <5>1, <5>3, <1>6 DEF FinishAiRun, Go, WorkInv, TimeInv, QueueInv, TypeOK
        <5> QED
          BY <3>2, <5>2, <5>3
      <4>2. leaseItem[w] \notin Admin
        BY <4>1, <1>6, KindsNamed DEF AfterRun
      <4> QED
        BY <1>4, <4>1, <4>2 DEF Done, Run
    <3>3. CASE PlanWeeks(w)
      <4>1. Done(leaseItem[w])
        BY <3>3 DEF PlanWeeks, WorkInv, DoneInHand
      <4> QED
        BY <4>1, <2>1
    <3>4. CASE FinishJob(w)
      <4>1. leaseItem[w] \in Admin
        BY <3>4 DEF FinishJob, WorkInv, StepsFitKinds
      <4>2. jobStatus'[leaseItem[w]] = "passed"
        BY <3>4, <4>1 DEF FinishJob, WorkInv, TimeInv, QueueInv, TypeOK
      <4> QED
        BY <1>4, <4>1, <4>2 DEF Done
    <3>5. CASE \/ StartExecution(w) \/ WorkSucceeds(w) \/ WorkRaises(w) \/ FailJob(w) \/ Abort(w)
               \/ CompletionRefused(w)
      BY <3>5, <1>6 DEF StartExecution, WorkSucceeds, WorkRaises, FailJob, Abort, CompletionRefused, Go,
                        Raised, WorkInv, TimeInv, QueueInv, TypeOK
    <3> QED
      BY <3>1, <3>2, <3>3, <3>4, <3>5
  <2>3. \A v \in Workers \ {w} : pc'[v] \in {"plan", "release", "complete"} /\ Current(v) =>
           Done(leaseItem[v])
    BY <1>6 DEF WorkInv, DoneInHand
  <2> QED
    BY <1>4, <1>5, <2>1, <2>2, <2>3 DEF DoneInHand, Done
<1> QED
  BY <1>3, <1>7, <1>8, <1>9, <1>10

LEMMA WorkStep == ASSUME RunsApart, WorkInv, [Next]_vars PROVE WorkInv'
<1>1. TimeInv' /\ Final
  BY TimeStep, EveryStepIsFinal DEF WorkInv
<1>2. CASE UNCHANGED vars
  <2>1. UNCHANGED <<runVars, jobStatus, workerVars, leaseToken, present, nextAttempt>>
    BY <1>2 DEF vars, rowVars
  <2>2. \A v \in Workers : pc'[v] \in WorkSteps =>
           /\ pc'[v] = pc[v] \/ (pc[v] = "release" /\ pc'[v] = "complete")
           /\ leaseItem'[v] = leaseItem[v] /\ execStart'[v] = execStart[v]
           /\ Current(v)' => Current(v)
    BY <2>1 DEF workerVars, Current
  <2>3. \A i \in Items : Complete(i)' => Complete(i)
    BY <2>1 DEF Complete
  <2> QED
    BY <1>1, <2>1, <2>2, <2>3, WorkUndisturbed, RowsStayDone DEF WorkInv
<1> QED
  BY <1>1, <1>2, EnvironmentKeepsWork, CycleKeepsWork, ExecutionKeepsWork DEF Next, Step, WorkInv

\* A row is marked complete only when its work is done, although workers that lost
\* their lease leave through normal exits: on one host, or without suspended
\* processes, or when no two rows share a run (complete_work, require_current_lease).
THEOREM CompleteRowsAreDone == ASSUME RunsApart PROVE Spec => []CompleteMeansDone
<1>1. Spec => []WorkInv
  BY WorkInitInv, WorkStep, PTL DEF Spec
<1>2. WorkInv => CompleteMeansDone
  BY DEF WorkInv, RowsDone, Done, CompleteMeansDone
<1> QED
  BY <1>1, <1>2, PTL

\* Under the same condition a finished run stays finished and a passed job passed,
\* whichever worker comes late (finish_ai_run, _finish_job).
THEOREM FinishedForGood == ASSUME RunsApart PROVE Spec => FinishedStaysFinished
<1>1. Spec => []WorkInv
  BY WorkInitInv, WorkStep, PTL DEF Spec
<1>2. WorkInv /\ [Next]_vars =>
         [/\ \A r \in DOMAIN runStatus :
                runStatus[r] \in Terminal => runStatus'[r] = runStatus[r]
          /\ \A i \in DOMAIN jobStatus :
                jobStatus[i] = "passed" => jobStatus'[i] = "passed"]_vars
  BY EveryStepIsFinal DEF Final
<1> QED
  BY <1>1, <1>2, PTL DEF Spec, FinishedStaysFinished

-----------------------------------------------------------------------------
(* The cadence, on one host.                                                *)

OneHost == \A v, w \in Workers : LockOf[v] = LockOf[w]

\* What the first statement of claim_due_work has read is still so at the second.
ActivityStillOld ==
    \A w \in Workers : pc[w] = "select" =>
        \A i \in present : heartbeat[i] # Null => heartbeat[i] <= cycle[w] - Gap

GapInv == QueueInv /\ ActivityStillOld

\* While a worker is between the two statements, nobody of its host is Leased.
LEMMA NobodyElseLeased ==
    ASSUME OneHost, QueueInv, NEW v \in Workers, NEW w \in Workers,
           pc[v] = "select", pc[w] \in Locking
    PROVE  w = v
BY OneWorkerPerLock DEF OneHost, QueueInv, Locking

LEMMA GapStep == ASSUME OneHost, GapInv, [Next]_vars PROVE GapInv'
<1>1. QueueInv'
  BY QueueStep DEF GapInv
<1> SUFFICES ASSUME NEW v \in Workers, pc'[v] = "select", NEW i \in present', heartbeat'[i] # Null
             PROVE  heartbeat'[i] <= cycle'[v] - Gap
  BY <1>1 DEF GapInv, ActivityStillOld
<1>2. CASE UNCHANGED vars \/ Tick \/ (\E j \in Admin : RequestJob(j)) \/ (\E l \in Locks : OtherStack(l))
  <2>1. UNCHANGED <<present, heartbeat, pc, cycle>>
    BY <1>2 DEF vars, Tick, RequestJob, OtherStack, rowVars, workerVars
  <2> QED
    BY <2>1 DEF GapInv, ActivityStillOld
<1>3. ASSUME NEW w \in Workers, Crash(w) \/ Begin(w) PROVE heartbeat'[i] <= cycle'[v] - Gap
  <2>1. v # w /\ pc'[v] = pc[v] /\ cycle'[v] = cycle[v] /\ present' = present /\ heartbeat' = heartbeat
    BY <1>3 DEF Crash, Begin, Go, rowVars, GapInv, QueueInv, TypeOK
  <2> QED
    BY <2>1 DEF GapInv, ActivityStillOld
<1>4. ASSUME NEW w \in Workers, HeartbeatWork(w) PROVE heartbeat'[i] <= cycle'[v] - Gap
  <2>1. pc[w] \in Locking /\ pc[w] # "select" /\ pc[v] = "select"
    BY <1>4 DEF HeartbeatWork, workerVars, Locking, Leased, Executing, Ending
  <2> QED
    BY <2>1, NobodyElseLeased DEF GapInv
<1>5. ASSUME NEW w \in Workers, Step(w) PROVE heartbeat'[i] <= cycle'[v] - Gap
  <2>1. CASE \/ StartExecution(w) \/ ClaimQuizJob(w) \/ ClaimAiRun(w)
             \/ WorkSucceeds(w) \/ WorkRaises(w) \/ FinishAiRun(w) \/ PlanWeeks(w)
             \/ FinishJob(w) \/ FailJob(w) \/ Abort(w) \/ CompletionRefused(w)
    <3>1. UNCHANGED <<present, heartbeat, cycle>>
      BY <2>1, LeaseIsKept DEF GapInv, QueueInv, StayLeased, rowVars
    <3>2. PICK next \in (Executing \ {"start"}) \cup {"release", "cleanup", "retry"} :
             pc' = [pc EXCEPT ![w] = next]
      BY <2>1, LeaseIsKept DEF GapInv, QueueInv, Go
    <3>3. pc[v] = "select"
      BY <3>2 DEF Executing, GapInv, QueueInv, TypeOK
    <3> QED
      BY <3>1, <3>3 DEF GapInv, ActivityStillOld
  <2>2. CASE \/ EnqueueDueWeeklyWork(w) \/ EnqueuePendingAdminWork(w)
    <3>1. v # w /\ pc'[v] = pc[v] /\ cycle' = cycle /\ heartbeat' = heartbeat
      BY <2>2 DEF EnqueueDueWeeklyWork, EnqueuePendingAdminWork, Go, GapInv, QueueInv, TypeOK
    <3>2. i \in present
      BY <1>1, <3>1 DEF GapInv, QueueInv, TypeOK, LeasesAreNumbered
    <3> QED
      BY <3>1, <3>2 DEF GapInv, ActivityStillOld
  <2>3. CASE TryAcquireGpuLock(w) \/ PrepareIdleGpu(w) \/ ReleaseGpu(w) \/ CleanupFailedWork(w)
    <3>1. UNCHANGED <<present, heartbeat, cycle>>
      BY <2>3 DEF TryAcquireGpuLock, PrepareIdleGpu, ReleaseGpu, CleanupFailedWork, rowVars
    <3>2. pc[v] = "select"
      BY <2>3 DEF TryAcquireGpuLock, PrepareIdleGpu, ReleaseGpu, CleanupFailedWork, Go,
                  GapInv, QueueInv, TypeOK
    <3> QED
      BY <3>1, <3>2 DEF GapInv, ActivityStillOld
  <2>4. CASE CheckRecentActivity(w)
    <3>1. UNCHANGED <<present, heartbeat>>
      BY <2>4 DEF CheckRecentActivity, rowVars
    <3>2. CASE v = w
      <4>1. ~RecentActivity(w) /\ cycle' = cycle
        BY <2>4, <3>2 DEF CheckRecentActivity, EndCycle, Go, GapInv, QueueInv, TypeOK
      <4>2. heartbeat[i] \in Nat /\ cycle[w] \in Nat /\ Gap \in Nat
        BY <3>1, QueueNumbers DEF GapInv, QueueInv, TypeOK
      <4> QED
        BY <3>1, <3>2, <4>1, <4>2 DEF RecentActivity
    <3>3. CASE v # w
      <4>1. pc[v] = "select" /\ cycle'[v] = cycle[v]
        BY <2>4, <3>3 DEF CheckRecentActivity, EndCycle, Go, GapInv, QueueInv, TypeOK
      <4> QED
        BY <3>1, <4>1 DEF GapInv, ActivityStillOld
    <3> QED
      BY <3>2, <3>3
  <2>5. CASE DeferDueWork(w) \/ ClaimNothing(w)
    <3>1. EndCycle(w) /\ UNCHANGED <<present, heartbeat>>
      BY <2>5 DEF DeferDueWork, ClaimNothing, rowVars
    <3>2. v # w /\ pc[v] = "select" /\ cycle'[v] = cycle[v]
      BY <3>1 DEF EndCycle, Go, GapInv, QueueInv, TypeOK
    <3> QED
      BY <3>1, <3>2 DEF GapInv, ActivityStillOld
  <2>6. CASE CompleteWork(w) \/ RetryWork(w) \/ ClaimDueWork(w)
    <3>1. v # w /\ pc[v] = "select"
      BY <2>6 DEF CompleteWork, RetryWork, ClaimDueWork, EndCycle, Go, GapInv, QueueInv, TypeOK
    <3>2. pc[w] \in Locking
      BY <2>6 DEF CompleteWork, RetryWork, ClaimDueWork, Locking, Leased, Ending
    <3> QED
      BY <3>1, <3>2, NobodyElseLeased DEF GapInv
  <2> QED
    BY <1>5, <2>1, <2>2, <2>3, <2>4, <2>5, <2>6 DEF Step
<1> QED
  BY <1>2, <1>3, <1>4, <1>5 DEF Next

\* "Run at most one item inside the six-hour cadence": the workers of one host, any
\* number of them, hand out a lease only Gap after the last sign of life of any row
\* (claim_due_work).
THEOREM GapRespected == ASSUME OneHost PROVE Spec => [][ClaimsRespectTheGap]_vars
<1>1. Init => GapInv
  BY QueueInitInv DEF Init, GapInv, ActivityStillOld
<1>2. GapInv => ClaimsRespectTheGap
  BY DEF GapInv, ActivityStillOld, ClaimsRespectTheGap
<1> QED
  BY <1>1, <1>2, GapStep, PTL DEF Spec
=============================================================================
