--------------------------- MODULE MCAiWorkQueue ---------------------------
(***************************************************************************)
(* Three small instances of AiWorkQueue in one run.  One host: two workers *)
(* share a lock file, a process may die, and an admin row relearns the     *)
(* week of a learning row (one AiRun).  Two hosts: each worker has its own *)
(* lock file, processes may be suspended beyond their deadlines, and an    *)
(* admin row without a run stands beside a generation row.  Two timely     *)
(* hosts: one admin row, and no process is suspended.                      *)
(***************************************************************************)
EXTENDS AiWorkQueue, TLC

CONSTANTS w1, w2, l0, l1, l2, learn, generate

MCWorkers == {w1, w2}
OneLock   == [w \in MCWorkers |-> l0]
OwnLocks  == w1 :> l1 @@ w2 :> l2

\* The workers can be exchanged, together with the files of their own.
Exchange == {p \in Permutations({w1, w2, l1, l2}) :
                \/ p = [v \in {w1, w2, l1, l2} |-> v]
                \/ p[w1] = w2 /\ p[w2] = w1 /\ p[l1] = l2}

MCItems == {1, 2}

LearningKinds   == <<"weekly_learning", "admin_learning">>
GenerationKinds == <<"weekly_generation", "admin_regeneration">>
AdminOnly       == <<"admin_learning">>
LearningSlots   == <<0, 1>>
SlotZero        == <<0>>
SharedRun == <<learn, learn>>
OneRun    == <<generate, NoRun>>
LearningOnly == <<learn>>

TwoHosts == INSTANCE AiWorkQueue WITH
                Locks <- {l1, l2}, LockOf <- OwnLocks,
                Kind <- GenerationKinds, RunOf <- OneRun,
                Gap <- 2, Stale <- 2, Takeover <- 2, PrepLimit <- 0,
                AmdBackend <- FALSE, Timely <- FALSE, MaxTime <- 3, MaxCrashes <- 0

TimelyHosts == INSTANCE AiWorkQueue WITH
                Locks <- {l1, l2}, LockOf <- OwnLocks, Items <- {1},
                Kind <- AdminOnly, ScheduledAt <- SlotZero, Runs <- {learn},
                RunOf <- LearningOnly, Gap <- 1, Stale <- 2, Takeover <- 2,
                PrepLimit <- 0, MaxTime <- 3, MaxCrashes <- 0

VARIABLE hosts  \* the instance: "one" host, "two" hosts or two "timely" ones

MCInit == \/ hosts = "one" /\ Init
          \/ hosts = "two" /\ TwoHosts!Init
          \/ hosts = "timely" /\ TimelyHosts!Init

MCNext == /\ UNCHANGED hosts
          /\ \/ hosts = "one" /\ Next
             \/ hosts = "two" /\ TwoHosts!Next
             \/ hosts = "timely" /\ TimelyHosts!Next

MCSpec == MCInit /\ [][MCNext]_<<hosts, vars>>

OnEach(one, two, timely) ==
    CASE hosts = "one" -> one [] hosts = "two" -> two [] hosts = "timely" -> timely

\* Every variable has its type, in each instance.
QueueTypeOK == OnEach(TypeOK, TwoHosts!TypeOK, TimelyHosts!TypeOK)

\* GpuExclusive, on one host and on two: the lock file serialises the workers
\* of its host, and a quarantined file stays with the process that retains it.
HostGpuExclusive ==
    OnEach(GpuExclusive, TwoHosts!GpuExclusive, TimelyHosts!GpuExclusive)

\* CompleteMeansDone, on one host and on two: although a lease may be taken over
\* while its work still executes, a row is complete only when its work is done.
RowCompleteMeansDone ==
    OnEach(CompleteMeansDone, TwoHosts!CompleteMeansDone, TimelyHosts!CompleteMeansDone)

\* LeaseCoversExecution on two hosts that are never suspended: no worker takes
\* over a lease whose work still executes (_runtime_limit_seconds).
TimelyLeaseCoversExecution == hosts = "timely" => TimelyHosts!LeaseCoversExecution

\* The workers of one host keep the cadence (ClaimsRespectTheGap).
HostRespectsTheGap == [][hosts = "one" => ClaimsRespectTheGap]_<<hosts, vars>>
============================================================================
