--------------------------- MODULE QuestionPools ---------------------------
(***************************************************************************)
(* The supply of daily questions.  The worker seeds every missing date     *)
(* from the reviewed bank (ensure_question_coverage) and later replaces    *)
(* the seeds with generated pools (generate_question_week); an operator    *)
(* may remove a future pool or disable a question; couples draw the        *)
(* questions of their days from the pools.  Jobs of two workers overlap:   *)
(* a job reads the bank once, long before it writes, and its transactions  *)
(* meet the others only at row locks and unique indexes.                   *)
(*                                                                         *)
(* A question is known by its concept: wording, embeddings, depth, role    *)
(* and rotation are left out, so any complete selection the gates admit    *)
(* may be the one selected.  An aborted transaction leaves no trace.  A    *)
(* job that lost its queue lease fails at its next fenced transaction      *)
(* (AbandonJob), so jobs of the same week may overlap until then.          *)
(***************************************************************************)
EXTENDS Integers, FiniteSets

CONSTANTS
    Jobs,            \* runs of the worker's two jobs
    Couples,
    Evergreen,       \* the bundled bank's own questions
    Curated,         \* enabled rows of curated_bank_questions, as an operator imported them
    Reserve,         \* the one-year reserve
    Ideas,           \* what the model may come up with
    Intimate,        \* the intimate ones of all these
    PerDay,          \* general questions of one day (5)
    LastDate,        \* the dates are 1..LastDate, one quiz week
    CoverageDays,    \* dates ensure_question_coverage keeps filled (14)
    LookBack,        \* days of the duplicate gate (365)
    Strict,          \* gpu_recovery_proof_mode
    MaxEditions,     \* bound: pools written
    MaxMarks         \* bound: days drawn, questions answered or disabled

Bundled == Evergreen \cup Reserve
Items == Bundled \cup Ideas
Legacy == "legacy"
PoolDates == 1..LastDate

ASSUME PoolsAssumption ==
    /\ {PerDay, LastDate} \subseteq Nat \ {0}
    /\ {CoverageDays, LookBack, MaxEditions, MaxMarks} \subseteq Nat
    /\ Intimate \subseteq Items /\ Legacy \notin Items
    /\ Evergreen \cap Reserve = {} /\ Curated \subseteq Bundled /\ Ideas \cap Bundled = {}
    /\ Strict \in BOOLEAN

VARIABLES
    todayUtc,
    stock,           \* rows of question_reserve
    consumed,        \* those with consumed_at set
    pools,           \* the global questions of each date
    disabled,        \* questions with disabled_at set
    batches,         \* fallback_reason of each date's generation batch
    edition,         \* pools written so far
    spent,           \* history: <<reserve entry, edition it was published in>>
    tasks,           \* per job: kind, force, the bank it read, current and last date
    step,            \* where the job stands
    picked,          \* the questions it is about to store
    seen,            \* rows its FOR UPDATE statement found
    locked,          \* rows it holds
    materialised,    \* couples' days: [couple, date, rows]
    answered,        \* questions with a quiz_answers row
    reading,         \* per couple: a day being drawn
    regen            \* the operator's removal: its date and the rows it found

poolShelf == <<stock, consumed, pools, disabled, batches, edition, spent>>
poolJobs == <<tasks, step, picked, seen, locked>>
poolDays == <<materialised, answered, reading>>
poolVars == <<todayUtc, poolShelf, poolJobs, poolDays, regen>>

Candidate == [item : Items, family : Items \cup {Legacy}]
PoolRow == [date : PoolDates, edition : 1..MaxEditions, item : Items, family : Items \cup {Legacy}]
NoTask == [kind |-> "none", force |-> FALSE, seeding |-> FALSE, bank |-> {}, date |-> 0, last |-> 0]
NoReading == [date |-> 0, rows |-> {}]
NoRegen == [date |-> 0, rows |-> {}]
Steps == {"idle", "check", "improve", "fence", "lock", "write"}
Holding == {"fence", "lock", "write"}

PoolsTypeOK ==
    /\ todayUtc \in 1..LastDate
    /\ stock \subseteq Reserve /\ consumed \subseteq stock
    /\ pools \in [PoolDates -> SUBSET PoolRow] /\ disabled \subseteq PoolRow
    /\ batches \in [PoolDates -> {"none", "coverage_seed", "other"}]
    /\ edition \in 0..MaxEditions
    /\ spent \subseteq Reserve \X (1..MaxEditions)
    /\ tasks \in [Jobs -> [kind : {"none", "cover", "week"}, force : BOOLEAN, seeding : BOOLEAN,
                           bank : SUBSET Candidate, date : 0..LastDate, last : 0..LastDate]]
    /\ step \in [Jobs -> Steps]
    /\ picked \in [Jobs -> SUBSET Candidate]
    /\ seen \in [Jobs -> SUBSET PoolRow] /\ locked \in [Jobs -> SUBSET PoolRow]
    /\ materialised \subseteq [couple : Couples, date : PoolDates, rows : SUBSET PoolRow]
    /\ answered \subseteq PoolRow
    /\ reading \in [Couples -> [date : 0..LastDate, rows : SUBSET PoolRow]]
    /\ regen \in [date : 0..LastDate, rows : SUBSET PoolRow]

PoolsInit ==
    /\ todayUtc = 1 /\ stock = {} /\ consumed = {}
    /\ pools = [d \in PoolDates |-> {}] /\ disabled = {}
    /\ batches = [d \in PoolDates |-> "none"]
    /\ edition = 0 /\ spent = {}
    /\ tasks = [j \in Jobs |-> NoTask] /\ step = [j \in Jobs |-> "idle"]
    /\ picked = [j \in Jobs |-> {}] /\ seen = [j \in Jobs |-> {}]
    /\ locked = [j \in Jobs |-> {}]
    /\ materialised = {} /\ answered = {}
    /\ reading = [c \in Couples |-> NoReading] /\ regen = NoRegen

-----------------------------------------------------------------------------
(* What the queries return.                                                *)

GeneralIn(C) == {x \in C : x.item \notin Intimate}
IntimateIn(C) == {x \in C : x.item \in Intimate}
Enabled(d) == pools[d] \ disabled

PoolExists(d) ==
    /\ Cardinality(GeneralIn(Enabled(d))) = PerDay
    /\ IntimateIn(Enabled(d)) # {}

IsCoverageSeed(d) == batches[d] = "coverage_seed"

\* Imported rows carry no concept family and share the column's default.
Imported(S) == {[item |-> i, family |-> Legacy] : i \in S}
Reviewed(S) == {[item |-> i, family |-> i] : i \in S}

\* curated_bank: the database's bank when it can fill a day, else the bundled one.
CuratedBank ==
    LET combined == Imported(Curated) \cup Reviewed(stock \ consumed)
    IN  IF Cardinality(GeneralIn(combined)) >= PerDay /\ IntimateIn(combined) # {}
        THEN combined ELSE Reviewed(Bundled)

Overlaps(x, y) == x.item = y.item \/ x.family = y.family

\* A pool's worth of questions, no two of them alike.
Complete(C) ==
    /\ Cardinality(GeneralIn(C)) = PerDay /\ IntimateIn(C) # {}
    /\ \A x, y \in C : x # y => ~Overlaps(x, y)

\* Questions the duplicate gate finds on the days before d.
Remembered(d) == UNION {pools[e] : e \in {e \in PoolDates : e < d /\ e >= d - LookBack}}

Fresh(d, C) == \A x \in C : \A r \in Remembered(d) : ~Overlaps(x, r)

\* What selection, the duplicate gate and filling up from the bank may arrive at:
\* the bank adds an intimate question only where the model has none.
Selections(d, bank, ideas) ==
    {C \in SUBSET ((IF Strict THEN {} ELSE bank) \cup ideas) :
        /\ Complete(C) /\ Fresh(d, C)
        /\ IntimateIn(C) \subseteq ideas \/ Cardinality(IntimateIn(C)) = 1}

RowsOf(d, e, C) == {[date |-> d, edition |-> e, item |-> x.item, family |-> x.family] : x \in C}

Held == answered \cup UNION {m.rows : m \in materialised}

LockedByOthers(j) == UNION {locked[k] : k \in Jobs \ {j}}
LockedRows == UNION {locked[k] : k \in Jobs}

Unmarked == Cardinality(disabled) + Cardinality(answered) + Cardinality(materialised) < MaxMarks


-----------------------------------------------------------------------------
(* The worker's jobs.                                                      *)

Go(j, s) == step' = [step EXCEPT ![j] = s]

\* A transaction ends: its locks, its rows and its selection are gone.
Release(j) ==
    /\ picked' = [picked EXCEPT ![j] = {}]
    /\ seen' = [seen EXCEPT ![j] = {}]
    /\ locked' = [locked EXCEPT ![j] = {}]

EndJob(j) == Go(j, "idle") /\ tasks' = [tasks EXCEPT ![j] = NoTask]

\* The loop over the target dates.
NextTarget(j) ==
    \/ /\ tasks[j].date < tasks[j].last /\ Go(j, "check")
       /\ tasks' = [tasks EXCEPT ![j].date = tasks[j].date + 1]
    \/ tasks[j].date >= tasks[j].last /\ EndJob(j)

CoverUntil == IF todayUtc + CoverageDays - 1 < LastDate THEN todayUtc + CoverageDays - 1 ELSE LastDate

Task(kind, force, first, last) ==
    [kind |-> kind, force |-> force, seeding |-> FALSE, bank |-> CuratedBank, date |-> first, last |-> last]

\* sync_question_reserve inserts the reserve rows that are missing.
SyncReserve ==
    /\ ~Strict /\ stock' = Reserve
    /\ UNCHANGED <<todayUtc, consumed, pools, disabled, batches, edition,
                   spent, poolJobs, poolDays, regen>>

\* ensure_question_coverage, once the reserve is complete; it reads the bank once.
StartCover(j) ==
    /\ step[j] = "idle" /\ ~Strict /\ stock = Reserve
    /\ tasks' = [tasks EXCEPT ![j] = Task("cover", FALSE, todayUtc, CoverUntil)]
    /\ Go(j, "check")
    /\ UNCHANGED <<todayUtc, poolShelf, picked, seen, locked, poolDays, regen>>

\* generate_question_week under a fresh lease; an operator's regeneration forces it.
StartWeek(j, force) ==
    /\ step[j] = "idle"
    /\ tasks' = [tasks EXCEPT ![j] = Task("week", force, 1, LastDate)]
    /\ Go(j, "check")
    /\ UNCHANGED <<todayUtc, poolShelf, picked, seen, locked, poolDays, regen>>

\* A date that needs nothing is passed over.
SkipDate(j) ==
    /\ step[j] = "check" /\ PoolExists(tasks[j].date)
    /\ tasks[j].kind = "week" => ~tasks[j].force /\ ~IsCoverageSeed(tasks[j].date)
    /\ NextTarget(j)
    /\ UNCHANGED <<todayUtc, poolShelf, picked, seen, locked, poolDays, regen>>

Choose(j, ideas) ==
    \E C \in Selections(tasks[j].date, tasks[j].bank, ideas) :
        picked' = [picked EXCEPT ![j] = C]

\* A date without a pool is seeded from the bank.
SeedDate(j) ==
    /\ step[j] = "check" /\ ~Strict /\ ~PoolExists(tasks[j].date)
    /\ Choose(j, {})
    /\ tasks' = [tasks EXCEPT ![j].seeding = TRUE] /\ Go(j, "fence")
    /\ UNCHANGED <<todayUtc, poolShelf, seen, locked, poolDays, regen>>

\* The week's job asks the model for a better pool.
AskModel(j) ==
    /\ step[j] = "check" /\ tasks[j].kind = "week"
    /\ IF PoolExists(tasks[j].date) THEN tasks[j].force \/ IsCoverageSeed(tasks[j].date) ELSE Strict
    /\ Go(j, "improve")
    /\ UNCHANGED <<todayUtc, poolShelf, tasks, picked, seen, locked, poolDays, regen>>

\* _improve_seeded_pool leaves a pool alone that is no seed (any more).
LeavePool(j) ==
    /\ step[j] = "improve" /\ ~tasks[j].force
    /\ ~Strict \/ PoolExists(tasks[j].date)
    /\ ~IsCoverageSeed(tasks[j].date) /\ NextTarget(j)
    /\ UNCHANGED <<todayUtc, poolShelf, picked, seen, locked, poolDays, regen>>

Improves(j) ==
    \/ tasks[j].force \/ IsCoverageSeed(tasks[j].date)
    \/ Strict /\ ~PoolExists(tasks[j].date)

\* record_seed_attempt, when every question proposed came from the bank: the seed
\* stays, and is no longer one to improve.
RecordSeedAttempt(j) ==
    /\ step[j] = "improve" /\ Improves(j) /\ ~Strict
    /\ batches' = [batches EXCEPT ![tasks[j].date] = IF @ = "coverage_seed" THEN "other" ELSE @]
    /\ NextTarget(j)
    /\ UNCHANGED <<todayUtc, stock, consumed, pools, disabled, edition,
                   spent, picked, seen, locked, poolDays, regen>>

\* Else the duplicate gate may still reject the model's and fill up from the bank.
Generate(j) ==
    /\ step[j] = "improve" /\ Improves(j)
    /\ Choose(j, Reviewed(Ideas))
    /\ tasks' = [tasks EXCEPT ![j].seeding = FALSE] /\ Go(j, "fence")
    /\ UNCHANGED <<todayUtc, poolShelf, seen, locked, poolDays, regen>>

\* persist_pool has returned: the week's job tries to improve what it has seeded.
AfterPersist(j) ==
    \/ /\ tasks[j].kind = "week" /\ tasks[j].seeding
       /\ Go(j, "improve") /\ UNCHANGED tasks
    \/ ~(tasks[j].kind = "week" /\ tasks[j].seeding) /\ NextTarget(j)

\* persist_pool's transaction, its lease checked and held: the statement that locks
\* the date's questions finds the ones committed by now ...
FindOldPool(j) ==
    /\ step[j] = "fence"
    /\ seen' = [seen EXCEPT ![j] = pools[tasks[j].date]] /\ Go(j, "lock")
    /\ UNCHANGED <<todayUtc, poolShelf, tasks, picked, locked, poolDays, regen>>

\* ... waits for whoever holds them and locks those that still exist.
Survivors(j) == seen[j] \cap pools[tasks[j].date]

LockOldPool(j) ==
    /\ step[j] = "lock"
    /\ Survivors(j) \cap LockedByOthers(j) = {}
    /\ Survivors(j) \cap Held = {}
    /\ locked' = [locked EXCEPT ![j] = Survivors(j)] /\ Go(j, "write")
    /\ UNCHANGED <<todayUtc, poolShelf, tasks, picked, seen, poolDays, regen>>

\* A couple has drawn from the pool or answered one of its questions: it stays.
KeepOldPool(j) ==
    /\ step[j] = "lock"
    /\ Survivors(j) \cap LockedByOthers(j) = {}
    /\ Survivors(j) \cap Held # {}
    /\ Release(j) /\ AfterPersist(j)
    /\ UNCHANGED <<todayUtc, stock, consumed, pools, disabled, batches,
                   edition, spent, poolDays, regen>>

\* uq_global_question_order: every pool numbers its general questions 1..PerDay,
\* so a general question that is still there takes a number this pool needs.
OrderFree(j) == GeneralIn(pools[tasks[j].date] \ locked[j]) = {}

\* consume_selected_reserve: every reserve entry selected is in stock and unused.
ToConsume(j) == {x.item : x \in {y \in picked[j] : y.item \in Reserve}}
ConsumableAgain(j) == ToConsume(j) \subseteq stock
Consumable(j) == ToConsume(j) \subseteq stock \ consumed

\* fallback_reason of the batch record, as far as is_coverage_seed tells it apart.
GenerationRecord(j) == IF tasks[j].seeding THEN "coverage_seed" ELSE "other"

WritePool(j) ==
    /\ step[j] = "write" /\ OrderFree(j) /\ Consumable(j) /\ edition < MaxEditions
    /\ LET d == tasks[j].date IN
       /\ pools' = [pools EXCEPT ![d] = (@ \ locked[j]) \cup RowsOf(d, edition + 1, picked[j])]
       /\ batches' = [batches EXCEPT ![d] = GenerationRecord(j)]
    /\ edition' = edition + 1
    /\ consumed' = consumed \cup ToConsume(j)
    /\ spent' = spent \cup (ToConsume(j) \X {edition + 1})
    /\ Release(j) /\ AfterPersist(j)
    /\ UNCHANGED <<todayUtc, stock, disabled, poolDays, regen>>

\* A step failed and its transaction rolled back: coverage gives up until its next
\* cycle, the week goes on with the next day unless it is to prove the GPU's recovery.
AbortDay(j) ==
    /\ step[j] # "idle" /\ Release(j)
    /\ IF tasks[j].kind = "cover" \/ Strict THEN EndJob(j) ELSE NextTarget(j)
    /\ UNCHANGED <<todayUtc, poolShelf, poolDays, regen>>

\* The worker stopped, or its lease was no longer its own.
AbandonJob(j) ==
    /\ step[j] # "idle" /\ Release(j) /\ EndJob(j)
    /\ UNCHANGED <<todayUtc, poolShelf, poolDays, regen>>

-----------------------------------------------------------------------------
(* The operator.                                                           *)

\* resolve_question_report with disable_question.
DisableQuestion(r) ==
    /\ Unmarked
    /\ r \notin LockedRows /\ disabled' = disabled \cup {r}
    /\ UNCHANGED <<todayUtc, stock, consumed, pools, batches, edition, spent,
                   poolJobs, poolDays, regen>>

\* regenerate_batch counts answers and days, then its DELETE finds the date's questions ...
FindRemovable(d) ==
    /\ regen = NoRegen /\ d > todayUtc /\ pools[d] \cap Held = {}
    /\ regen' = [date |-> d, rows |-> pools[d]]
    /\ UNCHANGED <<todayUtc, poolShelf, poolJobs, poolDays>>

\* ... waits for their locks, and foreign keys protect those in use.
RemovePool ==
    /\ regen # NoRegen
    /\ LET d == regen.date
           gone == regen.rows \cap pools[d]
       IN  /\ gone \cap (LockedRows \cup Held) = {}
           /\ pools' = [pools EXCEPT ![d] = @ \ gone]
           /\ batches' = [batches EXCEPT ![d] = "none"]
    /\ regen' = NoRegen
    /\ UNCHANGED <<todayUtc, stock, consumed, disabled, edition, spent,
                   poolJobs, poolDays>>

RemovalFails ==
    /\ regen # NoRegen /\ regen' = NoRegen
    /\ UNCHANGED <<todayUtc, poolShelf, poolJobs, poolDays>>

-----------------------------------------------------------------------------
(* Couples: materialize_day reads a date's questions and inserts the day;  *)
(* submit_answer is the first version's route.                             *)

Made(c, d) == \E m \in materialised : m.couple = c /\ m.date = d

\* The intimate question first, if both partners agree, then the general ones the
\* couple's own leave room for.
ReadDay(c, d, pick) ==
    /\ Unmarked /\ reading[c] = NoReading /\ d <= todayUtc /\ ~Made(c, d)
    /\ pick \subseteq Enabled(d) /\ Cardinality(pick) <= PerDay
    /\ Cardinality(IntimateIn(pick)) <= 1
    /\ reading' = [reading EXCEPT ![c] = [date |-> d, rows |-> pick]]
    /\ UNCHANGED <<todayUtc, poolShelf, poolJobs, materialised, answered, regen>>

\* The new rows' foreign keys wait for locks and need the questions to exist.
InsertDay(c) ==
    /\ reading[c].date # 0 /\ Unmarked
    /\ reading[c].rows \subseteq pools[reading[c].date] \ LockedRows
    /\ materialised' = materialised \cup
          {[couple |-> c, date |-> reading[c].date, rows |-> reading[c].rows]}
    /\ reading' = [reading EXCEPT ![c] = NoReading]
    /\ UNCHANGED <<todayUtc, poolShelf, poolJobs, answered, regen>>

\* Too few questions, or one of them is gone: the request fails.
NotPrepared(c) ==
    /\ reading[c].date # 0 /\ reading' = [reading EXCEPT ![c] = NoReading]
    /\ UNCHANGED <<todayUtc, poolShelf, poolJobs, materialised, answered, regen>>

AnswerQuestion(d, r) ==
    /\ Unmarked
    /\ r \in Enabled(d) \ LockedRows /\ answered' = answered \cup {r}
    /\ UNCHANGED <<todayUtc, poolShelf, poolJobs, materialised, reading, regen>>

NextUtcDay ==
    /\ todayUtc < LastDate /\ todayUtc' = todayUtc + 1
    /\ UNCHANGED <<poolShelf, poolJobs, poolDays, regen>>

PoolsNext ==
    \/ SyncReserve
    \/ \E j \in Jobs :
          \/ StartCover(j) \/ SkipDate(j) \/ SeedDate(j) \/ AskModel(j) \/ LeavePool(j)
          \/ RecordSeedAttempt(j) \/ Generate(j) \/ FindOldPool(j) \/ LockOldPool(j)
          \/ KeepOldPool(j) \/ WritePool(j) \/ AbortDay(j) \/ AbandonJob(j)
          \/ \E force \in BOOLEAN : StartWeek(j, force)
    \/ \E d \in PoolDates : \E r \in pools[d] : DisableQuestion(r) \/ AnswerQuestion(d, r)
    \/ \E d \in PoolDates : FindRemovable(d)
    \/ RemovePool \/ RemovalFails
    \/ \E c \in Couples, d \in PoolDates : \E pick \in SUBSET pools[d] : ReadDay(c, d, pick)
    \/ \E c \in Couples : InsertDay(c) \/ NotPrepared(c)
    \/ NextUtcDay

PoolsSpec == PoolsInit /\ [][PoolsNext]_poolVars

-----------------------------------------------------------------------------
(* Properties.                                                             *)

\* A date has no global questions, or all those of one complete selection,
\* whichever jobs and removals overlapped in writing them.
PoolsAreWhole ==
    \A d \in PoolDates : pools[d] # {} =>
        \E e \in 1..edition :
            LET C == {[item |-> r.item, family |-> r.family] : r \in pools[d]}
            IN  pools[d] = RowsOf(d, e, C) /\ Complete(C)

\* The questions of a couple's day, and those answered, are never replaced.
DrawnQuestionsStay ==
    /\ \A m \in materialised : m.rows \subseteq pools[m.date]
    /\ answered \subseteq UNION {pools[d] : d \in PoolDates}

\* A reserve entry is published once, whatever became of the pool it was in.
ReserveIsSpentOnce ==
    /\ \A p, q \in spent : p[1] = q[1] => p = q
    /\ \A d \in PoolDates : \A r \in pools[d] : r.item \in Reserve => <<r.item, r.edition>> \in spent

\* Pools are published whole, from reserve entries never used before, and
\* stay once a couple has drawn from them.
PoolsAreSound == PoolsAreWhole /\ DrawnQuestionsStay /\ ReserveIsSpentOnce
=============================================================================
