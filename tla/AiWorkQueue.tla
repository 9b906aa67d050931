---------------------------- MODULE AiWorkQueue ----------------------------
(***************************************************************************)
(* The persistent queue of shared-GPU work: ai_work_queue.py (scheduling   *)
(* and lease fencing), ai_work_runner.py (one worker cycle),               *)
(* gpu_coordination.py (the host file lock), the AiRun claims of           *)
(* quiz_learning_service.py and the AdminJobRequest claims of              *)
(* admin_operations.py.                                                    *)
(*                                                                         *)
(* Every action is one database transaction, one lock operation or one     *)
(* asyncio outcome of one worker; the heartbeat task interleaves with the  *)
(* execution task, and a worker process may die between any two of them.   *)
(* Items are numbered in the ORDER BY of the queue (scheduled_at, kind,    *)
(* id). Prompts, policies and pools are abstracted to the success or the   *)
(* failure of the work.                                                    *)
(***************************************************************************)
EXTENDS Integers, FiniteSets

CONSTANTS
    Workers,     \* worker processes that share the database
    Locks,       \* GPU lock files (settings.gpu_lock_path, one per host)
    LockOf,      \* LockOf[w]: the lock file worker w is configured with
    Items,       \* queue rows that can exist, numbered in queue order
    Kind,        \* Kind[i]: the kind column of row i
    ScheduledAt, \* ScheduledAt[i]: its scheduled_at (an admin row's created_at)
    Runs,        \* AiRun run keys
    RunOf,       \* RunOf[i]: the run key the work of row i claims, or NoRun
    NoRun,
    Gap,         \* ai_work_retry_hours: retry_after and minimum_gap
    Stale,       \* ai_lease_stale_minutes: stale_after
    Takeover,    \* RUN_TAKEOVER_AFTER
    RunLimit,    \* _runtime_limit_seconds
    PrepLimit,   \* longest time from the start of a cycle to its claim
    AmdBackend,  \* gpu_probe_backend = "amd-vulkan"
    Timely,      \* TRUE: no process is suspended beyond its asyncio deadline
    MaxTime,     \* bound of the model: last instant
    MaxCrashes   \* bound of the model: worker process deaths

WeeklyKinds == {"weekly_learning", "weekly_generation"}
AdminKinds  == {"admin_learning", "admin_generation", "admin_regeneration"}
Weekly == {i \in Items : Kind[i] \in WeeklyKinds}
Admin  == {i \in Items : Kind[i] \in AdminKinds}

Null    == -1  \* an SQL NULL in a time column
NoToken == 0   \* an SQL NULL lease_token
NoItem  == 0   \* no lease in this worker's hands
NoOne    == "no one"
External == "another stack"

\* _runtime_limit_seconds subtracts a margin of at least the preparation time
\* from the shorter of the stale window and RUN_TAKEOVER_AFTER.
ASSUME QueueAssumption ==
    /\ Items \subseteq Nat \ {0}
    /\ Locks # {} /\ LockOf \in [Workers -> Locks]
    /\ NoOne \notin Workers /\ External \notin Workers
    /\ Kind \in [Items -> WeeklyKinds \cup AdminKinds]
    /\ ScheduledAt \in [Items -> Nat]
    /\ NoRun \notin Runs
    /\ RunOf \in [Items -> Runs \cup {NoRun}]
    /\ \A i \in Items :
          RunOf[i] = NoRun <=> Kind[i] \in {"admin_generation",
                                            "admin_regeneration"}
    /\ Gap \in Nat \ {0} /\ Stale \in Nat \ {0} /\ Takeover \in Nat \ {0}
    /\ RunLimit \in Nat \ {0} /\ PrepLimit \in Nat
    /\ RunLimit + PrepLimit < Stale /\ RunLimit < Takeover
    /\ AmdBackend \in BOOLEAN /\ Timely \in BOOLEAN
    /\ MaxTime \in Nat /\ MaxCrashes \in Nat

VARIABLES
    now,          \* wall clock
    present,      \* rows inserted in ai_work_queue
    nextAttempt,  \* next_attempt_at; Null once complete
    leaseToken,   \* lease_token
    heartbeat,    \* heartbeat_at
    runStatus,    \* AiRun.status, "absent" before the insert
    runStarted,   \* AiRun.started_at
    jobStatus,    \* AdminJobRequest.status, "absent" before the request
    holder,       \* holder[l]: the process whose descriptor locks file l
    quarantined,  \* lock files retained after an unverified AMD cleanup
    pc,           \* where each worker is in run_ai_work_cycle
    cycle,        \* the "now" each worker's cycle was started with
    leaseItem,    \* AiWorkLease.id held by the worker
    leaseTok,     \* AiWorkLease.token held by the worker
    execStart,    \* when asyncio.wait began
    claims,       \* tokens issued so far (uuid4 never repeats)
    crashes       \* worker deaths so far

rowVars    == <<present, nextAttempt, leaseToken, heartbeat>>
runVars    == <<runStatus, runStarted>>
lockVars   == <<holder, quarantined>>
workerVars == <<pc, cycle, leaseItem, leaseTok, execStart>>
boundVars  == <<claims, crashes>>
vars == <<now, rowVars, runVars, jobStatus, lockVars, workerVars, boundVars>>

\* Before the claim; inside the execution task; holding a lease at all.
Preparing == {"weekly", "admin", "lock", "probe", "claim", "select"}
Executing == {"start", "job", "run", "work", "finish", "plan", "finish_job",
              "fail_job"}
Ending    == {"release", "complete", "cleanup", "retry"}
Leased    == Executing \cup Ending
Terminal  == {"passed", "fallback"}

TypeOK ==
    /\ now \in Nat
    /\ present \in SUBSET Items
    /\ nextAttempt \in [Items -> Nat \cup {Null}]
    /\ leaseToken \in [Items -> Nat]
    /\ heartbeat \in [Items -> Nat \cup {Null}]
    /\ runStatus \in [Runs -> {"absent", "running", "failed"} \cup Terminal]
    /\ runStarted \in [Runs -> Nat \cup {Null}]
    /\ jobStatus \in [Admin -> {"absent", "pending", "running", "passed"}]
    /\ holder \in [Locks -> Workers \cup {NoOne, External}]
    /\ quarantined \in SUBSET Locks
    /\ pc \in [Workers -> {"idle"} \cup Preparing \cup Leased]
    /\ cycle \in [Workers -> Nat]
    /\ leaseItem \in [Workers -> Items \cup {NoItem}]
    /\ leaseTok \in [Workers -> Nat]
    /\ execStart \in [Workers -> Nat]
    /\ claims \in Nat /\ crashes \in Nat

Init ==
    /\ now = 0
    /\ present = {}
    /\ nextAttempt = [i \in Items |-> Null]
    /\ leaseToken = [i \in Items |-> NoToken]
    /\ heartbeat = [i \in Items |-> Null]
    /\ runStatus = [r \in Runs |-> "absent"]
    /\ runStarted = [r \in Runs |-> Null]
    /\ jobStatus = [i \in Admin |-> "absent"]
    /\ holder = [l \in Locks |-> NoOne]
    /\ quarantined = {}
    /\ pc = [w \in Workers |-> "idle"]
    /\ cycle = [w \in Workers |-> 0]
    /\ leaseItem = [w \in Workers |-> NoItem]
    /\ leaseTok = [w \in Workers |-> NoToken]
    /\ execStart = [w \in Workers |-> 0]
    /\ claims = 0 /\ crashes = 0

-----------------------------------------------------------------------------
(* Helpers                                                                 *)

\* Rows the claim and the deferral select from: next_attempt_at IS NOT NULL.
Pending == {i \in present : nextAttempt[i] # Null}

\* The row is complete: its tombstone stays so that it is never queued again.
Complete(i) == i \in present /\ nextAttempt[i] = Null

\* require_current_lease, lease_is_current and _fenced_update all compare the
\* row's token with the one the worker was given.
Current(w) == /\ leaseItem[w] \in Items
              /\ leaseToken[leaseItem[w]] = leaseTok[w]

\* The row another worker's transaction may hold at this instant: the one of
\* its lease, or the queue head its own claim or deferral has selected.
MayLock(v, i) == \/ pc[v] \in Leased /\ leaseItem[v] = i
                 \/ pc[v] \in {"lock", "probe", "select"}

\* The rows FOR UPDATE SKIP LOCKED passes over in w's transaction.
Skippable(w) == {S \in SUBSET Pending :
                    /\ Cardinality(S) < Cardinality(Workers)
                    /\ \A i \in S : \E v \in Workers \ {w} : MayLock(v, i)}

\* The row "ORDER BY ... LIMIT 1 FOR UPDATE SKIP LOCKED" returns, if any.
IsHead(w, i) == \E S \in Skippable(w) :
                   i \in Pending \ S /\ \A j \in Pending \ S : i <= j

NoHead(w) == Pending \in Skippable(w)

Go(w, label) == pc' = [pc EXCEPT ![w] = label]

\* Mutant: release() forgets to look at _quarantined.
ReleaseLockAlways(w) ==
    holder' = [l \in Locks |-> IF holder[l] = w THEN NoOne ELSE holder[l]]

\* GpuFileLock.release: a quarantined descriptor stays locked.
ReleaseLock(w) ==
    holder' = [l \in Locks |-> IF holder[l] = w /\ l \notin quarantined
                               THEN NoOne ELSE holder[l]]

\* The cycle is over: __exit__ releases the lock, the lease object is dropped.
EndCycle(w) ==
    /\ Go(w, "idle")
    /\ ReleaseLock(w)
    /\ leaseItem' = [leaseItem EXCEPT ![w] = NoItem]
    /\ leaseTok' = [leaseTok EXCEPT ![w] = NoToken]
    /\ cycle' = [cycle EXCEPT ![w] = 0]
    /\ execStart' = [execStart EXCEPT ![w] = 0]
    /\ UNCHANGED quarantined

-----------------------------------------------------------------------------
(* Environment: time, administrators, other stacks, process deaths         *)

\* Under Timely, asyncio.wait's timeout and the bounded preparation fire
\* before the clock passes them.
Tick ==
    /\ now < MaxTime
    /\ Timely => \A w \in Workers :
          /\ pc[w] \in Preparing => now < cycle[w] + PrepLimit
          /\ pc[w] \in Executing => now < execStart[w] + RunLimit
    /\ now' = now + 1
    /\ UNCHANGED <<rowVars, runVars, jobStatus, lockVars, workerVars, boundVars>>

\* create_job in the Big Orbit console; created_at precedes the commit.
RequestJob(i) ==
    /\ jobStatus[i] = "absent" /\ ScheduledAt[i] <= now
    /\ jobStatus' = [jobStatus EXCEPT ![i] = "pending"]
    /\ UNCHANGED <<now, rowVars, runVars, lockVars, workerVars, boundVars>>

\* Another service of the host takes or leaves the same lock file.
OtherStack(l) ==
    /\ \/ holder[l] = NoOne /\ holder' = [holder EXCEPT ![l] = External]
       \/ holder[l] = External /\ holder' = [holder EXCEPT ![l] = NoOne]
    /\ UNCHANGED <<now, rowVars, runVars, jobStatus, quarantined, workerVars,
                   boundVars>>

\* The process dies: the kernel drops its descriptors, quarantined or not, and
\* the rows stay as they are.
Crash(w) ==
    /\ crashes < MaxCrashes
    /\ pc[w] # "idle" \/ \E l \in quarantined : holder[l] = w
    /\ crashes' = crashes + 1
    /\ pc' = [pc EXCEPT ![w] = "idle"]
    /\ leaseItem' = [leaseItem EXCEPT ![w] = NoItem]
    /\ leaseTok' = [leaseTok EXCEPT ![w] = NoToken]
    /\ holder' = [l \in Locks |-> IF holder[l] = w THEN NoOne ELSE holder[l]]
    /\ quarantined' = {l \in quarantined : holder[l] # w}
    /\ cycle' = [cycle EXCEPT ![w] = 0]
    /\ execStart' = [execStart EXCEPT ![w] = 0]
    /\ UNCHANGED <<now, rowVars, runVars, jobStatus, claims>>

-----------------------------------------------------------------------------
(* run_ai_work_cycle up to the claim                                       *)

Begin(w) ==
    /\ pc[w] = "idle"
    /\ Go(w, "weekly")
    /\ cycle' = [cycle EXCEPT ![w] = now]
    /\ UNCHANGED <<now, rowVars, runVars, jobStatus, lockVars, leaseItem,
                   leaseTok, execStart, boundVars>>

\* The latest instance of each weekly schedule that is due at the cycle's now.
LatestDue(w) ==
    {i \in Weekly : /\ ScheduledAt[i] <= cycle[w]
                    /\ \A j \in Weekly : /\ Kind[j] = Kind[i]
                                         /\ ScheduledAt[j] <= cycle[w]
                                         => ScheduledAt[j] <= ScheduledAt[i]}

AlreadyGenerated(i) ==
    Kind[i] = "weekly_generation" /\ runStatus[RunOf[i]] \in Terminal

EnqueueDueWeeklyWork(w) ==
    /\ pc[w] = "weekly"
    /\ LET inserted == LatestDue(w) \ present IN
       /\ present' = present \cup inserted
       /\ nextAttempt' = [i \in Items |->
             IF i \notin inserted THEN nextAttempt[i]
             ELSE IF AlreadyGenerated(i) THEN Null ELSE ScheduledAt[i]]
    /\ Go(w, "admin")
    /\ UNCHANGED <<now, leaseToken, heartbeat, runVars, jobStatus, lockVars,
                   cycle, leaseItem, leaseTok, execStart, boundVars>>

\* ON CONFLICT DO NOTHING on the id: the tombstone of a completed row wins.
EnqueuePendingAdminWork(w) ==
    /\ pc[w] = "admin"
    /\ LET inserted == {i \in Admin : jobStatus[i] \in {"pending", "running"}}
                       \ present IN
       /\ present' = present \cup inserted
       /\ nextAttempt' = [i \in Items |->
             IF i \in inserted THEN ScheduledAt[i] ELSE nextAttempt[i]]
    /\ Go(w, "lock")
    /\ UNCHANGED <<now, leaseToken, heartbeat, runVars, jobStatus, lockVars,
                   cycle, leaseItem, leaseTok, execStart, boundVars>>

TryAcquireGpuLock(w) ==
    /\ pc[w] = "lock" /\ holder[LockOf[w]] = NoOne
    /\ holder' = [holder EXCEPT ![LockOf[w]] = w]
    /\ Go(w, "probe")
    /\ UNCHANGED <<now, rowVars, runVars, jobStatus, quarantined, cycle,
                   leaseItem, leaseTok, execStart, boundVars>>

\* _prepare_idle_gpu proves the device idle.
PrepareIdleGpu(w) ==
    /\ pc[w] = "probe"
    /\ Go(w, "claim")
    /\ UNCHANGED <<now, rowVars, runVars, jobStatus, lockVars, cycle,
                   leaseItem, leaseTok, execStart, boundVars>>

\* defer_due_work, after the lock or the idle probe was refused: only an
\* unleased head that is due moves.
DeferDueWork(w) ==
    /\ \/ pc[w] = "lock" /\ holder[LockOf[w]] # NoOne
       \/ pc[w] = "probe"
    /\ \/ NoHead(w) /\ UNCHANGED nextAttempt
       \/ \E i \in Pending :
            /\ IsHead(w, i)
            /\ nextAttempt' =
                 IF nextAttempt[i] <= cycle[w] /\ leaseToken[i] = NoToken
                 THEN [nextAttempt EXCEPT ![i] = cycle[w] + Gap]
                 ELSE nextAttempt
    /\ EndCycle(w)
    /\ UNCHANGED <<now, present, leaseToken, heartbeat, runVars, jobStatus,
                   boundVars>>

\* Mutant: only rows that still hold a lease count as activity.
LeasedActivity(w) == \E i \in present : /\ heartbeat[i] # Null
                                         /\ leaseToken[i] # NoToken
                                         /\ heartbeat[i] > cycle[w] - Gap

\* max(heartbeat_at) > now - minimum_gap
RecentActivity(w) == \E i \in present : heartbeat[i] # Null
                                        /\ heartbeat[i] > cycle[w] - Gap

\* Mutant: a lease counts as stale one unit early.
ClaimableEarly(w, i) ==
    /\ nextAttempt[i] <= cycle[w]
    /\ \/ leaseToken[i] = NoToken
       \/ heartbeat[i] = Null
       \/ heartbeat[i] <= cycle[w] - (Stale - 1)

Claimable(w, i) ==
    /\ nextAttempt[i] <= cycle[w]
    /\ \/ leaseToken[i] = NoToken
       \/ heartbeat[i] = Null
       \/ heartbeat[i] <= cycle[w] - Stale

\* claim_due_work reads the latest activity first ...
CheckRecentActivity(w) ==
    /\ pc[w] = "claim"
    /\ \/ /\ RecentActivity(w)
          /\ EndCycle(w)
       \/ /\ ~RecentActivity(w)
          /\ Go(w, "select")
          /\ UNCHANGED <<lockVars, cycle, leaseItem, leaseTok, execStart>>
    /\ UNCHANGED <<now, rowVars, runVars, jobStatus, boundVars>>

\* ... and selects the head in a second statement of the transaction.
ClaimNothing(w) ==
    /\ pc[w] = "select"
    /\ NoHead(w) \/ \E i \in Pending : IsHead(w, i) /\ ~Claimable(w, i)
    /\ EndCycle(w)
    /\ UNCHANGED <<now, rowVars, runVars, jobStatus, boundVars>>

ClaimDueWork(w) ==
    /\ pc[w] = "select"
    /\ \E i \in Pending :
          /\ IsHead(w, i) /\ Claimable(w, i)
          /\ leaseToken' = [leaseToken EXCEPT ![i] = claims + 1]
          /\ heartbeat' = [heartbeat EXCEPT ![i] = cycle[w]]
          /\ leaseItem' = [leaseItem EXCEPT ![w] = i]
    /\ leaseTok' = [leaseTok EXCEPT ![w] = claims + 1]
    /\ claims' = claims + 1
    /\ execStart' = [execStart EXCEPT ![w] = now]
    /\ Go(w, "start")
    /\ UNCHANGED <<now, present, nextAttempt, runVars, jobStatus, lockVars,
                   cycle, crashes>>

-----------------------------------------------------------------------------
(* _execute_work: every transaction of it is fenced by the lease token     *)

\* Where an exception of the work itself lands: process_quiz_admin_job has a
\* handler of its own, the weekly kinds go straight to _run_lease's.
Raised(w) == IF Kind[leaseItem[w]] \in AdminKinds THEN "fail_job" ELSE "cleanup"

ClaimsRun(w) == RunOf[leaseItem[w]] # NoRun
Run(w) == RunOf[leaseItem[w]]

\* Where learn_feedback_week and _run_generation_horizon return to.
AfterRun(w) == CASE Kind[leaseItem[w]] = "weekly_learning" -> "plan"
                 [] Kind[leaseItem[w]] = "weekly_generation" -> "release"
                 [] OTHER -> "finish_job"

StayLeased == UNCHANGED <<now, rowVars, lockVars, cycle, leaseItem, leaseTok,
                          execStart, boundVars>>

StartExecution(w) ==
    /\ pc[w] = "start"
    /\ Go(w, IF ~Current(w) THEN "cleanup"
             ELSE IF Kind[leaseItem[w]] \in WeeklyKinds THEN "run" ELSE "job")
    /\ StayLeased /\ UNCHANGED <<runVars, jobStatus>>

\* A replaced token or a finished job returns None, and
\* process_quiz_admin_job then returns normally.
ClaimQuizJob(w) ==
    /\ pc[w] = "job"
    /\ IF Current(w) /\ jobStatus[leaseItem[w]] # "passed"
       THEN /\ jobStatus' = [jobStatus EXCEPT ![leaseItem[w]] = "running"]
            /\ Go(w, IF ClaimsRun(w) THEN "run" ELSE "work")
       ELSE Go(w, "release") /\ UNCHANGED jobStatus
    /\ StayLeased /\ UNCHANGED runVars

RunIsActive(r) == runStatus[r] = "running" /\ runStarted[r] > now - Takeover

ClaimAiRun(w) ==
    /\ pc[w] = "run"
    /\ \/ /\ Current(w) /\ runStatus[Run(w)] \notin Terminal
          /\ ~RunIsActive(Run(w))
          /\ runStatus' = [runStatus EXCEPT ![Run(w)] = "running"]
          /\ runStarted' = [runStarted EXCEPT ![Run(w)] = now]
          /\ Go(w, "work")
       \/ /\ Current(w) /\ runStatus[Run(w)] \in Terminal
          /\ Go(w, AfterRun(w))
          /\ UNCHANGED runVars
       \/ /\ ~Current(w) \/ RunIsActive(Run(w))
          /\ Go(w, Raised(w))
          /\ UNCHANGED runVars
    /\ StayLeased /\ UNCHANGED jobStatus

WorkSucceeds(w) ==
    /\ pc[w] = "work"
    /\ Go(w, IF ClaimsRun(w) THEN "finish" ELSE "finish_job")
    /\ StayLeased /\ UNCHANGED <<runVars, jobStatus>>

\* An Exception inside the try: finish_ai_run("failed"), then re-raised.
WorkRaises(w) ==
    /\ pc[w] = "work"
    /\ runStatus' = IF ClaimsRun(w) /\ Current(w)
                    THEN [runStatus EXCEPT ![Run(w)] = "failed"]
                    ELSE runStatus
    /\ Go(w, Raised(w))
    /\ StayLeased /\ UNCHANGED <<runStarted, jobStatus>>

\* Mutant: finish_ai_run writes its status without require_current_lease.
FinishAiRunUnfenced(w) ==
    /\ pc[w] = "finish"
    /\ \E status \in Terminal :
          runStatus' = [runStatus EXCEPT ![Run(w)] = status]
    /\ Go(w, AfterRun(w))
    /\ StayLeased /\ UNCHANGED <<runStarted, jobStatus>>

\* finish_ai_run("passed" or "fallback"). Generation checks the lease first
\* and raises; learning ignores that finish_ai_run returned False.
FinishAiRun(w) ==
    /\ pc[w] = "finish"
    /\ \/ /\ Current(w)
          /\ \E status \in Terminal :
                runStatus' = [runStatus EXCEPT ![Run(w)] = status]
          /\ Go(w, AfterRun(w))
       \/ /\ ~Current(w)
          /\ Go(w, IF Kind[leaseItem[w]] = "weekly_generation"
                   THEN "cleanup" ELSE AfterRun(w))
          /\ UNCHANGED runStatus
    /\ StayLeased /\ UNCHANGED <<runStarted, jobStatus>>

\* prepare_week for the two weeks after weekly learning, done or raised.
PlanWeeks(w) ==
    /\ pc[w] = "plan"
    /\ \E next \in {"release", "cleanup"} : Go(w, next)
    /\ StayLeased /\ UNCHANGED <<runVars, jobStatus>>

\* _finish_job("passed"), or its failure.
FinishJob(w) ==
    /\ pc[w] = "finish_job"
    /\ IF Current(w)
       THEN /\ jobStatus' = [jobStatus EXCEPT ![leaseItem[w]] = "passed"]
            /\ Go(w, "release")
       ELSE Go(w, "fail_job") /\ UNCHANGED jobStatus
    /\ StayLeased /\ UNCHANGED runVars

\* Mutant: the handler of process_quiz_admin_job swallows the exception.
FailJobSwallowed(w) ==
    /\ pc[w] = "fail_job"
    /\ jobStatus' = IF Current(w)
                    THEN [jobStatus EXCEPT ![leaseItem[w]] = "pending"]
                    ELSE jobStatus
    /\ Go(w, "release")
    /\ StayLeased /\ UNCHANGED runVars

\* _finish_job("pending"), then the exception goes on.
FailJob(w) ==
    /\ pc[w] = "fail_job"
    /\ jobStatus' = IF Current(w)
                    THEN [jobStatus EXCEPT ![leaseItem[w]] = "pending"]
                    ELSE jobStatus
    /\ Go(w, "cleanup")
    /\ StayLeased /\ UNCHANGED runVars

\* asyncio.wait times out or the heartbeat task stops: the execution task is
\* cancelled, and CancelledError passes every "except Exception" handler.
Abort(w) ==
    /\ pc[w] \in Executing
    /\ Go(w, "cleanup")
    /\ StayLeased /\ UNCHANGED <<runVars, jobStatus>>

-----------------------------------------------------------------------------
(* The rest of _run_lease                                                  *)

\* The heartbeat task refreshes its row while the lease is held.
HeartbeatWork(w) ==
    /\ pc[w] \in Leased /\ Current(w)
    /\ heartbeat' = [heartbeat EXCEPT ![leaseItem[w]] = now]
    /\ UNCHANGED <<now, present, nextAttempt, leaseToken, runVars, jobStatus,
                   lockVars, workerVars, boundVars>>

\* GpuReleaseUnsafe: the AMD lock is retained until the process exits.
Quarantine(w) == quarantined' = IF AmdBackend
                                THEN quarantined \cup {LockOf[w]}
                                ELSE quarantined

\* _release_gpu after the work, verified or not ...
ReleaseGpu(w) ==
    /\ pc[w] = "release"
    /\ \/ Go(w, "complete") /\ UNCHANGED quarantined
       \/ Go(w, "retry") /\ Quarantine(w)
    /\ UNCHANGED <<now, rowVars, runVars, jobStatus, holder, cycle, leaseItem,
                   leaseTok, execStart, boundVars>>

\* Mutant: the AMD branch of the cleanup waits for the proof without a deadline.
CleanupNeverReturns(w) ==
    /\ pc[w] = "cleanup" /\ ~AmdBackend
    /\ UNCHANGED quarantined
    /\ Go(w, "retry")
    /\ UNCHANGED <<now, rowVars, runVars, jobStatus, holder, cycle, leaseItem,
                   leaseTok, execStart, boundVars>>

\* ... and after a failure, where only the AMD backend insists on the proof.
CleanupFailedWork(w) ==
    /\ pc[w] = "cleanup"
    /\ UNCHANGED quarantined \/ Quarantine(w)
    /\ Go(w, "retry")
    /\ UNCHANGED <<now, rowVars, runVars, jobStatus, holder, cycle, leaseItem,
                   leaseTok, execStart, boundVars>>

\* The row as a fenced update leaves it: unleased, last active now.
FencedUpdate(w, attempt) ==
    /\ Current(w)
    /\ nextAttempt' = [nextAttempt EXCEPT ![leaseItem[w]] = attempt]
    /\ leaseToken' = [leaseToken EXCEPT ![leaseItem[w]] = NoToken]
    /\ heartbeat' = [heartbeat EXCEPT ![leaseItem[w]] = now]

CompleteWork(w) ==
    /\ pc[w] = "complete"
    /\ FencedUpdate(w, Null)
    /\ EndCycle(w)
    /\ UNCHANGED <<now, present, runVars, jobStatus, boundVars>>

\* complete_work matched no row: "lease expired before completion".
CompletionRefused(w) ==
    /\ pc[w] = "complete" /\ ~Current(w)
    /\ Go(w, "retry")
    /\ StayLeased /\ UNCHANGED <<runVars, jobStatus>>

RetryWork(w) ==
    /\ pc[w] = "retry"
    /\ \/ FencedUpdate(w, now + Gap)
       \/ ~Current(w) /\ UNCHANGED <<nextAttempt, leaseToken, heartbeat>>
    /\ EndCycle(w)
    /\ UNCHANGED <<now, present, runVars, jobStatus, boundVars>>

-----------------------------------------------------------------------------
Step(w) ==
    \/ EnqueueDueWeeklyWork(w) \/ EnqueuePendingAdminWork(w)
    \/ TryAcquireGpuLock(w) \/ PrepareIdleGpu(w) \/ DeferDueWork(w)
    \/ CheckRecentActivity(w) \/ ClaimNothing(w) \/ ClaimDueWork(w)
    \/ StartExecution(w) \/ ClaimQuizJob(w) \/ ClaimAiRun(w)
    \/ WorkSucceeds(w) \/ WorkRaises(w) \/ FinishAiRun(w) \/ PlanWeeks(w)
    \/ FinishJob(w) \/ FailJob(w) \/ Abort(w)
    \/ ReleaseGpu(w) \/ CleanupFailedWork(w)
    \/ CompleteWork(w) \/ CompletionRefused(w) \/ RetryWork(w)

Next ==
    \/ Tick
    \/ \E i \in Admin : RequestJob(i)
    \/ \E l \in Locks : OtherStack(l)
    \/ \E w \in Workers : Begin(w) \/ HeartbeatWork(w) \/ Crash(w) \/ Step(w)

Spec == Init /\ [][Next]_vars

\* The event loop runs every ready task, and every await of a cycle is
\* bounded by a timeout or by the database.
QueueFairness == \A w \in Workers : WF_vars(Step(w))

FairSpec == Spec /\ QueueFairness

-----------------------------------------------------------------------------
(* Properties                                                              *)

OnGpu(w) == pc[w] \in {"claim", "select"} \cup Leased

\* The host lock serialises the GPU: two workers configured with one lock file
\* are never both past try_acquire_gpu_lock and the idle probe, and once an
\* AMD cleanup could not be verified nobody executes work on that file until
\* the process that quarantined it has exited.
GpuExclusive ==
    /\ \A v, w \in Workers :
          v # w /\ LockOf[v] = LockOf[w] /\ OnGpu(v) => ~OnGpu(w)
    /\ \A l \in quarantined : /\ holder[l] \in Workers
                              /\ \A w \in Workers : LockOf[w] = l =>
                                                       pc[w] \notin Executing

\* A row is only marked complete when its work really is done: the admin job
\* passed, or the weekly run has a terminal outcome. A worker that lost its
\* lease leaves through the normal exits of process_quiz_admin_job and
\* learn_feedback_week too, so this rests on the fencing token; where rows of
\* one run may execute on two hosts at once, also on no process being suspended.
CompleteMeansDone ==
    \A i \in Items : Complete(i) =>
        IF i \in Admin THEN jobStatus[i] = "passed"
                       ELSE runStatus[RunOf[i]] \in Terminal

\* A finished run and a passed job are final: neither a worker whose lease was
\* replaced nor a retry of work already done (the GPU release failed after
\* the work had passed) reopens or overwrites them.
FinishedStaysFinished ==
    [][/\ \A r \in DOMAIN runStatus :
             runStatus[r] \in Terminal => runStatus'[r] = runStatus[r]
       /\ \A i \in DOMAIN jobStatus :
             jobStatus[i] = "passed" => jobStatus'[i] = "passed"]_vars

\* _runtime_limit_seconds leaves the stale window open: while the process is
\* not suspended beyond its timeout, nobody takes over a lease whose work is
\* still executing, even if no heartbeat ever reaches the database.
LeaseCoversExecution ==
    Timely => \A w \in Workers : pc[w] \in Executing => Current(w)

\* "Run at most one item inside the six-hour cadence": between workers of one
\* host a lease is only handed out Gap after the last sign of life of any
\* row, although claim_due_work reads that time and selects its row in two
\* statements.
ClaimsRespectTheGap ==
    \A w \in Workers : pc[w] = "select" /\ pc'[w] = "start" =>
        \A i \in present : heartbeat[i] # Null => heartbeat[i] <= cycle[w] - Gap

\* Every cycle ends, whatever fails in it: no worker waits for the lock,
\* for another worker or for an administrator.
CyclesEnd == \A w \in Workers : pc[w] # "idle" ~> pc[w] = "idle"
============================================================================
