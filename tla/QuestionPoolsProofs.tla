------------------------ MODULE QuestionPoolsProofs ------------------------
(***************************************************************************)
(* Published pools are whole, drawn from reserve entries never used        *)
(* before, and kept once a couple has drawn from them, for any number of   *)
(* jobs, couples, dates and questions.                                     *)
(*                                                                         *)
(* PoolsAreSound is not inductive.  That a write leaves a whole pool rests *)
(* on what a job in its transaction holds: its selection is complete, the  *)
(* rows its statement found are older than any pool written since, so they *)
(* are all of the date's pool or none of it, and the rows it locked are    *)
(* then the date's whole pool, in no couple's hands, and no other job's.   *)
(* A job that locked nothing while a pool is there meets the unique index. *)
(*                                                                         *)
(* A couple's days follow: that who is finished has finished with reviewed *)
(* answers, and that nothing unshared is shown, for any number of dates,   *)
(* questions and requests.                                                 *)
(***************************************************************************)
EXTENDS QuizDay, QuestionPools, FiniteSetTheorems, TLAPS

\* A job on its way has a date; before it writes, it has a complete selection.
JobsArePrepared ==
    \A j \in Jobs :
        /\ step[j] # "idle" => tasks[j].date \in PoolDates
        /\ step[j] \in Holding => Complete(picked[j])

\* What a statement found was there when it looked.
FoundRowsAreOld ==
    /\ \A j \in Jobs : \A r \in seen[j] : r.edition <= edition
    /\ \A r \in regen.rows : r.edition <= edition

AllOrNone(rows, d) == rows \cap pools[d] = {} \/ pools[d] \subseteq rows

FoundRowsAreWhole ==
    /\ \A j \in Jobs : step[j] = "lock" => AllOrNone(seen[j], tasks[j].date)
    /\ regen.date # 0 => AllOrNone(regen.rows, regen.date)

\* Locked rows are the date's whole pool, nobody's but the job's.
LocksAreWhole ==
    \A j \in Jobs : locked[j] # {} =>
        /\ step[j] = "write" /\ locked[j] = pools[tasks[j].date]
        /\ locked[j] \cap Held = {}
        /\ \A k \in Jobs \ {j} : locked[j] \cap locked[k] = {}

SpentIsConsumed == \A p \in spent : p[1] \in consumed /\ p[2] <= edition

PoolsInv ==
    /\ PoolsTypeOK /\ PoolsAreSound
    /\ JobsArePrepared /\ FoundRowsAreOld /\ FoundRowsAreWhole /\ LocksAreWhole
    /\ SpentIsConsumed

-----------------------------------------------------------------------------
(* The constants.                                                          *)

\* The bounds are numbers.
LEMMA Numbers ==
    /\ PerDay \in Nat /\ PerDay # 0 /\ LastDate \in Nat /\ LastDate # 0
    /\ CoverageDays \in Nat /\ LookBack \in Nat /\ MaxEditions \in Nat /\ MaxMarks \in Nat
<1>1. {PerDay, LastDate} \subseteq Nat \ {0}
  BY PoolsAssumption
<1>2. {CoverageDays, LookBack, MaxEditions, MaxMarks} \subseteq Nat
  BY PoolsAssumption
<1> QED
  BY <1>1, <1>2

\* A complete selection has a general question.
LEMMA CompleteHasGeneral ==
    ASSUME NEW C, Complete(C)
    PROVE  GeneralIn(C) # {}
BY FS_EmptySet, Numbers DEF Complete

\* The rows of a selection, read back, are that selection.
LEMMA RowsReadBack ==
    ASSUME NEW d, NEW e, NEW C, C \subseteq Candidate
    PROVE  {[item |-> r.item, family |-> r.family] : r \in RowsOf(d, e, C)} = C
<1> DEFINE row(x) == [date |-> d, edition |-> e, item |-> x.item, family |-> x.family]
           back(r) == [item |-> r.item, family |-> r.family]
<1>1. ASSUME NEW x \in C PROVE back(row(x)) = x
  <2>1. x = [item |-> x.item, family |-> x.family]
    BY DEF Candidate
  <2> QED
    BY <2>1
<1>2. RowsOf(d, e, C) = {row(x) : x \in C}
  BY DEF RowsOf
<1> HIDE DEF row, back
<1>3. {back(r) : r \in RowsOf(d, e, C)} = C
  BY <1>1, <1>2
<1> QED
  BY <1>3 DEF back

\* General questions keep being general as rows.
LEMMA RowsHaveGeneral ==
    ASSUME NEW d, NEW e, NEW C, Complete(C)
    PROVE  GeneralIn(RowsOf(d, e, C)) # {}
<1>1. PICK x \in C : x.item \notin Intimate
  BY CompleteHasGeneral DEF GeneralIn
<1>2. [date |-> d, edition |-> e, item |-> x.item, family |-> x.family] \in RowsOf(d, e, C)
  BY <1>1 DEF RowsOf
<1> QED
  BY <1>1, <1>2 DEF GeneralIn

\* The bank a job reads holds candidates only.
LEMMA BankTyped ==
    ASSUME PoolsTypeOK
    PROVE  CuratedBank \subseteq Candidate
<1>1. Reviewed(Bundled) \subseteq Candidate
  BY DEF Reviewed, Candidate, Items
<1>2. Reviewed(stock \ consumed) \subseteq Candidate
  BY DEF Reviewed, Candidate, Items, Bundled, PoolsTypeOK
<1>3. Imported(Curated) \subseteq Candidate
  BY PoolsAssumption DEF Imported, Candidate, Items
<1> QED
  BY <1>1, <1>2, <1>3 DEF CuratedBank

LEMMA SelectionsTyped ==
    ASSUME NEW d, NEW rows, rows \subseteq Candidate, NEW C \in Selections(d, rows, Reviewed(Ideas))
    PROVE  C \subseteq Candidate /\ Complete(C)
<1>1. Reviewed(Ideas) \subseteq Candidate
  BY DEF Reviewed, Candidate, Items
<1> QED
  BY <1>1 DEF Selections

LEMMA SeedsTyped ==
    ASSUME NEW d, NEW rows, rows \subseteq Candidate, NEW C \in Selections(d, rows, {})
    PROVE  C \subseteq Candidate /\ Complete(C)
BY DEF Selections

-----------------------------------------------------------------------------
(* Types.                                                                  *)

TaskType == [kind : {"none", "cover", "week"}, force : BOOLEAN, seeding : BOOLEAN,
             bank : SUBSET Candidate, date : 0..LastDate, last : 0..LastDate]

\* Ending a job or moving it to its next date keeps its record in shape.
LEMMA NextTargetTyped ==
    ASSUME PoolsTypeOK, NEW j \in Jobs, NextTarget(j) \/ EndJob(j),
           step[j] # "idle", JobsArePrepared
    PROVE  /\ tasks' \in [Jobs -> TaskType] /\ step' \in [Jobs -> Steps]
           /\ step'[j] \in {"idle", "check"}
           /\ step'[j] # "idle" => tasks'[j].date \in PoolDates
           /\ \A k \in Jobs \ {j} : step'[k] = step[k] /\ tasks'[k] = tasks[k]
<1>1. tasks \in [Jobs -> TaskType] /\ step \in [Jobs -> Steps]
  BY DEF PoolsTypeOK, TaskType
<1>2. CASE EndJob(j)
  <2>1. NoTask \in TaskType
    BY Numbers DEF NoTask, TaskType
  <2> QED
    BY <1>1, <1>2, <2>1 DEF EndJob, Go, Steps
<1>3. CASE tasks[j].date < tasks[j].last /\ Go(j, "check")
           /\ tasks' = [tasks EXCEPT ![j].date = tasks[j].date + 1]
  <2> DEFINE t == [tasks[j] EXCEPT !.date = tasks[j].date + 1]
  <2>1. tasks[j] \in TaskType /\ tasks[j].date \in 0..LastDate /\ tasks[j].last \in 0..LastDate
    BY <1>1 DEF TaskType
  <2>2. tasks[j].date + 1 \in PoolDates /\ tasks[j].date + 1 \in 0..LastDate
    BY <2>1, <1>3, Numbers DEF PoolDates
  <2>3. t \in TaskType /\ t.date = tasks[j].date + 1
    BY <2>1, <2>2 DEF TaskType
  <2>4. tasks' = [tasks EXCEPT ![j] = t]
    BY <1>3
  <2> HIDE DEF t
  <2> QED
    BY <1>1, <1>3, <2>2, <2>3, <2>4 DEF Go, Steps
<1> QED
  BY <1>2, <1>3 DEF NextTarget

\* A job moves outside its writing transaction, or leaves it.
JobMoved(j) ==
    /\ tasks' \in [Jobs -> TaskType] /\ step' \in [Jobs -> Steps]
    /\ picked' \in [Jobs -> SUBSET Candidate]
    /\ seen' \in [Jobs -> SUBSET PoolRow] /\ locked' \in [Jobs -> SUBSET PoolRow]
    /\ step'[j] \in {"idle", "check", "improve", "fence"}
    /\ step'[j] # "idle" => tasks'[j].date \in PoolDates
    /\ step'[j] = "fence" => Complete(picked'[j])
    /\ locked'[j] = {} /\ seen'[j] \subseteq seen[j]
    /\ \A k \in Jobs \ {j} :
          /\ step'[k] = step[k] /\ tasks'[k] = tasks[k] /\ picked'[k] = picked[k]
          /\ seen'[k] = seen[k] /\ locked'[k] = locked[k]

LEMMA JobTypes ==
    ASSUME PoolsTypeOK
    PROVE  /\ tasks \in [Jobs -> TaskType] /\ step \in [Jobs -> Steps]
           /\ picked \in [Jobs -> SUBSET Candidate]
           /\ seen \in [Jobs -> SUBSET PoolRow] /\ locked \in [Jobs -> SUBSET PoolRow]
BY DEF PoolsTypeOK, TaskType

LEMMA OutsideHoldsNothing ==
    ASSUME LocksAreWhole, NEW j \in Jobs, step[j] # "write"
    PROVE  locked[j] = {}
BY DEF LocksAreWhole

LEMMA ReleaseFacts ==
    ASSUME PoolsTypeOK, NEW j \in Jobs, Release(j)
    PROVE  /\ picked' \in [Jobs -> SUBSET Candidate]
           /\ seen' \in [Jobs -> SUBSET PoolRow] /\ locked' \in [Jobs -> SUBSET PoolRow]
           /\ locked'[j] = {} /\ seen'[j] \subseteq seen[j]
           /\ \A k \in Jobs \ {j} :
                 picked'[k] = picked[k] /\ seen'[k] = seen[k] /\ locked'[k] = locked[k]
BY JobTypes DEF Release

\* A transaction that ends, well or not, only moves its job.
LEMMA EndOfTransactionMoves ==
    ASSUME PoolsTypeOK, JobsArePrepared, NEW j \in Jobs, step[j] # "idle", Release(j),
           NextTarget(j) \/ EndJob(j) \/ AfterPersist(j)
    PROVE  JobMoved(j)
<1>1. CASE NextTarget(j) \/ EndJob(j)
  BY <1>1, NextTargetTyped, ReleaseFacts DEF JobMoved
<1>2. CASE Go(j, "improve") /\ UNCHANGED tasks
  BY <1>2, ReleaseFacts, JobTypes DEF JobMoved, Go, Steps, JobsArePrepared
<1> QED
  BY <1>1, <1>2 DEF AfterPersist

\* So does one that looked at its date and passes over it.
LEMMA PassingOverMoves ==
    ASSUME PoolsTypeOK, JobsArePrepared, LocksAreWhole, NEW j \in Jobs,
           step[j] \in {"check", "improve"}, NextTarget(j), UNCHANGED <<picked, seen, locked>>
    PROVE  JobMoved(j)
BY NextTargetTyped, JobTypes, OutsideHoldsNothing DEF JobMoved

\* A job that starts.
LEMMA StartMoves ==
    ASSUME PoolsTypeOK, LocksAreWhole, NEW j \in Jobs, step[j] = "idle",
           NEW t \in TaskType, t.date \in PoolDates,
           tasks' = [tasks EXCEPT ![j] = t], Go(j, "check"), UNCHANGED <<picked, seen, locked>>
    PROVE  JobMoved(j)
BY JobTypes, OutsideHoldsNothing DEF JobMoved, Go, Steps

\* A job that has selected.
LEMMA SelectionMoves ==
    ASSUME PoolsTypeOK, JobsArePrepared, LocksAreWhole, NEW j \in Jobs,
           step[j] \in {"check", "improve"}, NEW b \in BOOLEAN,
           NEW C, C \subseteq Candidate, Complete(C), picked' = [picked EXCEPT ![j] = C],
           tasks' = [tasks EXCEPT ![j].seeding = b], Go(j, "fence"), UNCHANGED <<seen, locked>>
    PROVE  JobMoved(j)
<1> DEFINE t == [tasks[j] EXCEPT !.seeding = b]
<1>1. tasks[j] \in TaskType
  BY JobTypes
<1>2. t \in TaskType /\ t.date = tasks[j].date
  BY <1>1 DEF TaskType
<1>3. tasks' = [tasks EXCEPT ![j] = t]
  OBVIOUS
<1> HIDE DEF t
<1>4. tasks' \in [Jobs -> TaskType] /\ tasks'[j].date = tasks[j].date
  BY <1>2, <1>3, JobTypes
<1>5. \A k \in Jobs \ {j} : tasks'[k] = tasks[k]
  BY <1>3, JobTypes
<1> QED
  BY <1>4, <1>5, JobTypes, OutsideHoldsNothing DEF JobMoved, Go, Steps, JobsArePrepared

\* A job that turns to the model.
LEMMA AskingMoves ==
    ASSUME PoolsTypeOK, JobsArePrepared, LocksAreWhole, NEW j \in Jobs,
           step[j] = "check", Go(j, "improve"), UNCHANGED <<tasks, picked, seen, locked>>
    PROVE  JobMoved(j)
BY JobTypes, OutsideHoldsNothing DEF JobMoved, Go, Steps, JobsArePrepared

-----------------------------------------------------------------------------
(* Steps that move jobs and leave the pools alone.                         *)

Still == UNCHANGED <<pools, edition, spent, consumed, materialised, answered>>

\* A move that leaves the pools alone keeps what jobs found and hold in order.
LEMMA MovesAreSafe ==
    ASSUME PoolsInv, NEW j \in Jobs, JobMoved(j), Still, UNCHANGED regen
    PROVE  JobsArePrepared' /\ FoundRowsAreOld' /\ FoundRowsAreWhole' /\ LocksAreWhole'
<1>1. JobsArePrepared'
  BY DEF JobsArePrepared, JobMoved, PoolsInv, Holding
<1>2. FoundRowsAreOld'
  BY DEF FoundRowsAreOld, JobMoved, PoolsInv, Still
<1>3. FoundRowsAreWhole'
  BY DEF FoundRowsAreWhole, JobMoved, PoolsInv, Still, AllOrNone
<1>4. LocksAreWhole'
  <2>1. Held' = Held
    BY DEF Still, Held
  <2>2. SUFFICES ASSUME NEW k \in Jobs, locked'[k] # {}
                 PROVE  /\ step'[k] = "write" /\ locked'[k] = pools[tasks'[k].date]
                        /\ locked'[k] \cap Held = {}
                        /\ \A i \in Jobs \ {k} : locked'[k] \cap locked'[i] = {}
    BY <2>1 DEF LocksAreWhole, Still
  <2>3. k # j
    BY <2>2 DEF JobMoved
  <2> QED
    BY <2>2, <2>3 DEF JobMoved, LocksAreWhole, PoolsInv
<1> QED
  BY <1>1, <1>2, <1>3, <1>4

\* Whatever leaves the pools alone keeps them sound.
LEMMA StillIsSound ==
    ASSUME PoolsInv, Still
    PROVE  PoolsAreSound' /\ SpentIsConsumed'
BY DEF PoolsInv, Still, PoolsAreSound, PoolsAreWhole, DrawnQuestionsStay, ReserveIsSpentOnce,
       SpentIsConsumed

LEMMA MoveKeepsInv ==
    ASSUME PoolsInv, NEW j \in Jobs, JobMoved(j),
           UNCHANGED <<todayUtc, stock, consumed, pools, disabled, edition, spent, poolDays, regen>>,
           batches' \in [PoolDates -> {"none", "coverage_seed", "other"}]
    PROVE  PoolsInv'
<1>1. Still /\ UNCHANGED regen
  BY DEF Still, poolDays
<1>2. PoolsTypeOK'
  BY DEF PoolsInv, PoolsTypeOK, JobMoved, TaskType, poolDays
<1> QED
  BY <1>1, <1>2, MovesAreSafe, StillIsSound DEF PoolsInv

\* The worker's steps outside the transaction that writes a pool.
LEMMA JobStepsKeepInv ==
    ASSUME PoolsInv, NEW j \in Jobs,
           \/ StartCover(j) \/ SkipDate(j) \/ SeedDate(j) \/ AskModel(j) \/ LeavePool(j)
           \/ RecordSeedAttempt(j) \/ Generate(j) \/ KeepOldPool(j) \/ AbortDay(j) \/ AbandonJob(j)
           \/ \E force \in BOOLEAN : StartWeek(j, force)
    PROVE  PoolsInv'
<1> USE DEF PoolsInv
<1>b. batches \in [PoolDates -> {"none", "coverage_seed", "other"}]
  BY DEF PoolsTypeOK
<1>t. todayUtc \in PoolDates /\ 1 \in PoolDates
  BY Numbers DEF PoolsTypeOK, PoolDates
<1>1. CASE StartCover(j)
  <2> DEFINE t == Task("cover", FALSE, todayUtc, CoverUntil)
  <2>1. CoverUntil \in 0..LastDate
    BY <1>t, Numbers DEF CoverUntil, PoolDates
  <2>2. t \in TaskType /\ t.date = todayUtc
    BY <2>1, <1>t, BankTyped, Numbers DEF Task, TaskType, PoolDates
  <2>3. tasks' = [tasks EXCEPT ![j] = t] /\ Go(j, "check") /\ UNCHANGED <<picked, seen, locked>>
        /\ step[j] = "idle"
    BY <1>1 DEF StartCover
  <2> HIDE DEF t
  <2>4. JobMoved(j)
    BY <2>2, <2>3, <1>t, StartMoves
  <2> QED
    BY <2>4, <1>1, <1>b, MoveKeepsInv DEF StartCover, poolShelf
<1>2. CASE \E force \in BOOLEAN : StartWeek(j, force)
  <2>1. PICK force \in BOOLEAN : StartWeek(j, force)
    BY <1>2
  <2> DEFINE t == Task("week", force, 1, LastDate)
  <2>2. t \in TaskType /\ t.date = 1
    BY <1>t, BankTyped, Numbers DEF Task, TaskType, PoolDates
  <2>3. tasks' = [tasks EXCEPT ![j] = t] /\ Go(j, "check") /\ UNCHANGED <<picked, seen, locked>>
        /\ step[j] = "idle"
    BY <2>1 DEF StartWeek
  <2> HIDE DEF t
  <2>4. JobMoved(j)
    BY <2>2, <2>3, <1>t, StartMoves
  <2> QED
    BY <2>4, <2>1, <1>b, MoveKeepsInv DEF StartWeek, poolShelf
<1>3. CASE SkipDate(j)
  <2>1. JobMoved(j)
    BY <1>3, PassingOverMoves DEF SkipDate
  <2> QED
    BY <2>1, <1>3, <1>b, MoveKeepsInv DEF SkipDate, poolShelf
<1>4. CASE SeedDate(j)
  <2>1. PICK C \in Selections(tasks[j].date, tasks[j].bank, {}) : picked' = [picked EXCEPT ![j] = C]
    BY <1>4 DEF SeedDate, Choose
  <2>2. tasks[j].bank \subseteq Candidate
    BY JobTypes DEF TaskType
  <2>3. C \subseteq Candidate /\ Complete(C)
    BY <2>1, <2>2, SeedsTyped
  <2>4. tasks' = [tasks EXCEPT ![j].seeding = TRUE] /\ Go(j, "fence") /\ UNCHANGED <<seen, locked>>
        /\ step[j] \in {"check", "improve"}
    BY <1>4 DEF SeedDate
  <2>5. JobMoved(j)
    BY <2>1, <2>3, <2>4, SelectionMoves
  <2> QED
    BY <2>5, <1>4, <1>b, MoveKeepsInv DEF SeedDate, poolShelf
<1>5. CASE AskModel(j)
  <2>1. JobMoved(j)
    BY <1>5, AskingMoves DEF AskModel
  <2> QED
    BY <2>1, <1>5, <1>b, MoveKeepsInv DEF AskModel, poolShelf
<1>6. CASE LeavePool(j)
  <2>1. JobMoved(j)
    BY <1>6, PassingOverMoves DEF LeavePool
  <2> QED
    BY <2>1, <1>6, <1>b, MoveKeepsInv DEF LeavePool, poolShelf
<1>7. CASE RecordSeedAttempt(j)
  <2>1. JobMoved(j)
    BY <1>7, PassingOverMoves DEF RecordSeedAttempt
  <2>2. batches' \in [PoolDates -> {"none", "coverage_seed", "other"}]
    BY <1>7, <1>b DEF RecordSeedAttempt
  <2> QED
    BY <2>1, <2>2, <1>7, MoveKeepsInv DEF RecordSeedAttempt
<1>8. CASE Generate(j)
  <2>1. PICK C \in Selections(tasks[j].date, tasks[j].bank, Reviewed(Ideas)) :
            picked' = [picked EXCEPT ![j] = C]
    BY <1>8 DEF Generate, Choose
  <2>2. tasks[j].bank \subseteq Candidate
    BY JobTypes DEF TaskType
  <2>3. C \subseteq Candidate /\ Complete(C)
    BY <2>1, <2>2, SelectionsTyped
  <2>4. tasks' = [tasks EXCEPT ![j].seeding = FALSE] /\ Go(j, "fence") /\ UNCHANGED <<seen, locked>>
        /\ step[j] \in {"check", "improve"}
    BY <1>8 DEF Generate
  <2>5. JobMoved(j)
    BY <2>1, <2>3, <2>4, SelectionMoves
  <2> QED
    BY <2>5, <1>8, <1>b, MoveKeepsInv DEF Generate, poolShelf
<1>9. CASE KeepOldPool(j)
  <2>1. JobMoved(j)
    BY <1>9, EndOfTransactionMoves DEF KeepOldPool
  <2> QED
    BY <2>1, <1>9, <1>b, MoveKeepsInv DEF KeepOldPool
<1>10. CASE AbortDay(j) \/ AbandonJob(j)
  <2>1. JobMoved(j)
    BY <1>10, EndOfTransactionMoves DEF AbortDay, AbandonJob
  <2> QED
    BY <2>1, <1>10, <1>b, MoveKeepsInv DEF AbortDay, AbandonJob, poolShelf
<1> QED
  BY <1>1, <1>2, <1>3, <1>4, <1>5, <1>6, <1>7, <1>8, <1>9, <1>10

\* Steps that touch neither jobs nor pools.
LEMMA BystandersKeepInv ==
    ASSUME PoolsInv,
           \/ SyncReserve \/ NextUtcDay \/ RemovalFails
           \/ \E d \in PoolDates : \E r \in pools[d] : DisableQuestion(r)
           \/ \E c \in Couples, d \in PoolDates : \E pick \in SUBSET pools[d] : ReadDay(c, d, pick)
           \/ \E c \in Couples : NotPrepared(c)
    PROVE  PoolsInv'
<1> USE DEF PoolsInv
<1>1. PoolsTypeOK'
  <2>1. CASE SyncReserve \/ NextUtcDay \/ RemovalFails
    BY <2>1, Numbers DEF PoolsTypeOK, SyncReserve, NextUtcDay, RemovalFails, NoRegen, poolShelf,
          poolJobs, poolDays
  <2>2. ASSUME NEW d \in PoolDates, NEW r \in pools[d], DisableQuestion(r) PROVE PoolsTypeOK'
    <3>1. r \in PoolRow
      BY DEF PoolsTypeOK
    <3> QED
      BY <2>2, <3>1 DEF PoolsTypeOK, DisableQuestion, poolJobs, poolDays
  <2>3. ASSUME NEW c \in Couples, NEW x \in [date : 0..LastDate, rows : SUBSET PoolRow],
               reading' = [reading EXCEPT ![c] = x],
               UNCHANGED <<todayUtc, poolShelf, poolJobs, materialised, answered, regen>>
        PROVE  PoolsTypeOK'
    BY <2>3 DEF PoolsTypeOK, poolShelf, poolJobs
  <2>4. ASSUME NEW c \in Couples, NEW d \in PoolDates, NEW pick \in SUBSET pools[d],
               ReadDay(c, d, pick)
        PROVE  PoolsTypeOK'
    <3>1. [date |-> d, rows |-> pick] \in [date : 0..LastDate, rows : SUBSET PoolRow]
      BY Numbers DEF PoolsTypeOK, PoolDates
    <3> QED
      BY <2>3, <2>4, <3>1 DEF ReadDay
  <2>5. ASSUME NEW c \in Couples, NotPrepared(c) PROVE PoolsTypeOK'
    <3>1. NoReading \in [date : 0..LastDate, rows : SUBSET PoolRow]
      BY Numbers DEF NoReading
    <3> QED
      BY <2>3, <2>5, <3>1 DEF NotPrepared
  <2> QED
    BY <2>1, <2>2, <2>4, <2>5
<1>2. Still /\ UNCHANGED poolJobs /\ (regen' = regen \/ regen' = NoRegen)
  BY DEF SyncReserve, NextUtcDay, RemovalFails, DisableQuestion, ReadDay, NotPrepared, Still,
         poolShelf, poolDays
<1>3. JobsArePrepared' /\ FoundRowsAreOld' /\ FoundRowsAreWhole'
  BY <1>2 DEF JobsArePrepared, FoundRowsAreOld, FoundRowsAreWhole, AllOrNone, Still, poolJobs, NoRegen
<1>4. LocksAreWhole'
  BY <1>2 DEF LocksAreWhole, Held, Still, poolJobs
<1> QED
  BY <1>1, <1>2, <1>3, <1>4, StillIsSound

-----------------------------------------------------------------------------
(* The transaction that writes a pool.                                     *)

\* A date's rows carry that date and an edition already written.
LEMMA PoolRowsFacts ==
    ASSUME PoolsTypeOK, PoolsAreWhole, NEW d \in PoolDates, NEW r \in pools[d]
    PROVE  r \in PoolRow /\ r.date = d /\ r.edition \in Nat /\ r.edition <= edition
<1>1. r \in PoolRow
  BY DEF PoolsTypeOK
<1>2. PICK e \in 1..edition :
          pools[d] = RowsOf(d, e, {[item |-> x.item, family |-> x.family] : x \in pools[d]})
  BY DEF PoolsAreWhole
<1>3. r.date = d /\ r.edition = e
  BY <1>2 DEF RowsOf
<1> QED
  BY <1>1, <1>2, <1>3 DEF PoolsTypeOK

\* A pool that is there has a general question in it.
LEMMA PoolHasGeneral ==
    ASSUME PoolsAreWhole, NEW d \in PoolDates, pools[d] # {}
    PROVE  GeneralIn(pools[d]) # {}
<1>1. PICK e \in 1..edition :
        /\ pools[d] = RowsOf(d, e, {[item |-> x.item, family |-> x.family] : x \in pools[d]})
        /\ Complete({[item |-> x.item, family |-> x.family] : x \in pools[d]})
  BY DEF PoolsAreWhole
<1> QED
  BY <1>1, RowsHaveGeneral

LEMMA FindKeepsInv ==
    ASSUME PoolsInv, NEW j \in Jobs, FindOldPool(j)
    PROVE  PoolsInv'
<1> USE DEF PoolsInv
<1>1. /\ step[j] = "fence" /\ tasks[j].date \in PoolDates
      /\ seen' = [seen EXCEPT ![j] = pools[tasks[j].date]] /\ step' = [step EXCEPT ![j] = "lock"]
      /\ UNCHANGED <<todayUtc, poolShelf, tasks, picked, locked, poolDays, regen>>
  BY DEF FindOldPool, Go, JobsArePrepared
<1>2. PoolsTypeOK'
  <2>1. pools[tasks[j].date] \in SUBSET PoolRow
    BY <1>1 DEF PoolsTypeOK
  <2> QED
    BY <1>1, <2>1 DEF PoolsTypeOK, Steps, poolShelf, poolDays
<1>3. Still
  BY <1>1 DEF Still, poolShelf, poolDays
<1>4. JobsArePrepared'
  BY <1>1, JobTypes DEF JobsArePrepared, Holding
<1>5. FoundRowsAreOld'
  <2>1. \A r \in pools[tasks[j].date] : r.edition <= edition
    BY <1>1, PoolRowsFacts DEF PoolsAreSound
  <2> QED
    BY <1>1, <1>3, <2>1, JobTypes DEF FoundRowsAreOld, Still
<1>6. FoundRowsAreWhole'
  BY <1>1, <1>3, JobTypes DEF FoundRowsAreWhole, AllOrNone, Still
<1>7. LocksAreWhole'
  BY <1>1, <1>3, JobTypes DEF LocksAreWhole, Held, Still
<1> QED
  BY <1>2, <1>3, <1>4, <1>5, <1>6, <1>7, StillIsSound

LEMMA LockKeepsInv ==
    ASSUME PoolsInv, NEW j \in Jobs, LockOldPool(j)
    PROVE  PoolsInv'
<1> USE DEF PoolsInv
<1>1. /\ step[j] = "lock" /\ tasks[j].date \in PoolDates
      /\ Survivors(j) \cap LockedByOthers(j) = {} /\ Survivors(j) \cap Held = {}
      /\ locked' = [locked EXCEPT ![j] = Survivors(j)] /\ step' = [step EXCEPT ![j] = "write"]
      /\ UNCHANGED <<todayUtc, poolShelf, tasks, picked, seen, poolDays, regen>>
  BY DEF LockOldPool, Go, JobsArePrepared
<1>2. Survivors(j) \in SUBSET PoolRow
  BY <1>1, JobTypes DEF Survivors
<1>3. PoolsTypeOK'
  BY <1>1, <1>2 DEF PoolsTypeOK, Steps, poolShelf, poolDays
<1>4. Still
  BY <1>1 DEF Still, poolShelf, poolDays
<1>5. JobsArePrepared'
  BY <1>1, JobTypes DEF JobsArePrepared, Holding
<1>6. FoundRowsAreOld' /\ FoundRowsAreWhole'
  BY <1>1, <1>4, JobTypes DEF FoundRowsAreOld, FoundRowsAreWhole, AllOrNone, Still
<1>7. LocksAreWhole'
  <2>1. Survivors(j) # {} => Survivors(j) = pools[tasks[j].date]
    BY <1>1 DEF FoundRowsAreWhole, AllOrNone, Survivors
  <2>2. \A k \in Jobs \ {j} : Survivors(j) \cap locked[k] = {}
    BY <1>1 DEF LockedByOthers
  <2>3. Held' = Held
    BY <1>4 DEF Still, Held
  <2> QED
    BY <1>1, <1>4, <2>1, <2>2, <2>3, JobTypes DEF LocksAreWhole, Still
<1> QED
  BY <1>3, <1>4, <1>5, <1>6, <1>7, StillIsSound

LEMMA WriteKeepsInv ==
    ASSUME PoolsInv, NEW j \in Jobs, WritePool(j)
    PROVE  PoolsInv'
<1> USE DEF PoolsInv
<1> DEFINE d == tasks[j].date
           e == edition + 1
           new == RowsOf(d, e, picked[j])
<1>1. /\ step[j] = "write" /\ d \in PoolDates /\ Complete(picked[j]) /\ picked[j] \subseteq Candidate
      /\ edition \in Nat /\ e \in 1..MaxEditions /\ e \in 1..edition'
      /\ edition' = e
  BY JobTypes, Numbers DEF WritePool, JobsArePrepared, Holding, PoolsTypeOK
<1>2. pools[d] = {} \/ locked[j] = pools[d]
  <2>1. CASE locked[j] = {}
    <3>1. GeneralIn(pools[d]) = {}
      BY <2>1 DEF WritePool, OrderFree
    <3> QED
      BY <3>1, <1>1, PoolHasGeneral DEF PoolsAreSound
  <2> QED
    BY <2>1 DEF LocksAreWhole
<1>3. pools' = [pools EXCEPT ![d] = new]
  <2>1. pools' = [pools EXCEPT ![d] = (pools[d] \ locked[j]) \cup new]
    BY DEF WritePool
  <2>2. (pools[d] \ locked[j]) \cup new = new
    BY <1>2
  <2> QED
    BY <2>1, <2>2
<1>4. pools'[d] = new /\ \A x \in PoolDates \ {d} : pools'[x] = pools[x]
  BY <1>1, <1>3 DEF PoolsTypeOK
<1>5. pools[d] \cap Held = {}
  BY <1>2 DEF LocksAreWhole
<1>6. /\ consumed' = consumed \cup ToConsume(j) /\ ToConsume(j) \subseteq stock \ consumed
      /\ spent' = spent \cup (ToConsume(j) \X {e})
      /\ UNCHANGED <<todayUtc, stock, disabled, materialised, answered, reading, regen>>
  BY DEF WritePool, Consumable, poolDays
<1>7. JobMoved(j)
  BY <1>1, EndOfTransactionMoves DEF WritePool
<1>8. \A r \in new : r.date = d /\ r.edition = e /\ (r.item \in Reserve => r.item \in ToConsume(j))
  BY DEF RowsOf, ToConsume
<1>9. batches' \in [PoolDates -> {"none", "coverage_seed", "other"}]
  BY <1>1 DEF WritePool, GenerationRecord, PoolsTypeOK
<1>10. new \subseteq PoolRow
  BY <1>1 DEF RowsOf, PoolRow, Candidate
<1>11. {[item |-> r.item, family |-> r.family] : r \in new} = picked[j]
  BY <1>1, RowsReadBack
<1> HIDE DEF d, e, new
<1>12. PoolsTypeOK'
  <2>1. pools' \in [PoolDates -> SUBSET PoolRow]
    BY <1>3, <1>10 DEF PoolsTypeOK
  <2>2. edition' \in 0..MaxEditions
    BY <1>1, Numbers
  <2>3. spent' \subseteq Reserve \X (1..MaxEditions) /\ consumed' \subseteq stock
    BY <1>1, <1>6 DEF PoolsTypeOK
  <2> QED
    BY <2>1, <2>2, <2>3, <1>6, <1>7, <1>9 DEF PoolsTypeOK, JobMoved, TaskType
<1>13. PoolsAreWhole'
  <2>1. ASSUME NEW x \in PoolDates, pools'[x] # {}
        PROVE  \E f \in 1..edition' :
                  /\ pools'[x] = RowsOf(x, f, {[item |-> r.item, family |-> r.family] : r \in pools'[x]})
                  /\ Complete({[item |-> r.item, family |-> r.family] : r \in pools'[x]})
    <3>1. CASE x = d
      BY <3>1, <1>1, <1>4, <1>11 DEF new
    <3>2. CASE x # d
      <4>1. pools'[x] = pools[x]
        BY <3>2, <1>4
      <4>2. PICK f \in 1..edition :
               /\ pools[x] = RowsOf(x, f, {[item |-> r.item, family |-> r.family] : r \in pools[x]})
               /\ Complete({[item |-> r.item, family |-> r.family] : r \in pools[x]})
        BY <2>1, <4>1 DEF PoolsAreSound, PoolsAreWhole
      <4>3. f \in 1..edition'
        BY <1>1 DEF e
      <4> QED
        BY <4>1, <4>2, <4>3
    <3> QED
      BY <3>1, <3>2
  <2> QED
    BY <2>1 DEF PoolsAreWhole
<1>14. DrawnQuestionsStay'
  <2>1. \A m \in materialised : m.date \in PoolDates /\ m.rows \subseteq pools[m.date] /\ m.rows \subseteq Held
    BY DEF PoolsAreSound, DrawnQuestionsStay, PoolsTypeOK, Held
  <2>2. ASSUME NEW m \in materialised PROVE m.rows \subseteq pools'[m.date]
    BY <2>1, <1>4, <1>5
  <2>3. ASSUME NEW r \in answered PROVE \E x \in PoolDates : r \in pools'[x]
    <3>1. PICK x \in PoolDates : r \in pools[x]
      BY DEF PoolsAreSound, DrawnQuestionsStay
    <3>2. x # d
      BY <3>1, <1>5 DEF Held
    <3> QED
      BY <3>1, <3>2, <1>4
  <2> QED
    BY <2>2, <2>3, <1>6 DEF DrawnQuestionsStay
<1>15. ReserveIsSpentOnce' /\ SpentIsConsumed'
  <2>1. \A p \in spent : p[1] \in consumed /\ p[2] \in Nat /\ p[2] <= edition
    BY DEF SpentIsConsumed, PoolsTypeOK
  <2>2. \A p \in ToConsume(j) \X {e} : p = <<p[1], e>> /\ p[1] \in ToConsume(j)
    OBVIOUS
  <2>3. \A p, q \in spent' : p[1] = q[1] => p = q
    <3>1. \A p, q \in spent : p[1] = q[1] => p = q
      BY DEF PoolsAreSound, ReserveIsSpentOnce
    <3> QED
      BY <3>1, <2>1, <2>2, <1>6
  <2>4. ASSUME NEW x \in PoolDates, NEW r \in pools'[x], r.item \in Reserve
        PROVE  <<r.item, r.edition>> \in spent'
    <3>1. CASE x = d
      BY <3>1, <2>4, <1>4, <1>8, <1>6
    <3>2. CASE x # d
      BY <3>2, <2>4, <1>4, <1>6 DEF PoolsAreSound, ReserveIsSpentOnce
    <3> QED
      BY <3>1, <3>2
  <2>5. SpentIsConsumed'
    BY <2>1, <2>2, <1>1, <1>6 DEF SpentIsConsumed, e
  <2> QED
    BY <2>3, <2>4, <2>5 DEF ReserveIsSpentOnce
<1>16. JobsArePrepared'
  BY <1>7 DEF JobsArePrepared, JobMoved, Holding
<1>17. FoundRowsAreOld'
  <2>1. \A k \in Jobs : seen'[k] \subseteq seen[k] /\ seen[k] \subseteq PoolRow
    BY <1>7, JobTypes DEF JobMoved
  <2>2. \A k \in Jobs : \A r \in seen[k] : r.edition \in Nat /\ r.edition <= edition
    BY <2>1 DEF FoundRowsAreOld, PoolRow
  <2>3. \A r \in regen.rows : r.edition \in Nat /\ r.edition <= edition
    BY DEF FoundRowsAreOld, PoolRow, PoolsTypeOK
  <2> QED
    BY <2>1, <2>2, <2>3, <1>1, <1>6 DEF FoundRowsAreOld, e
<1>18. FoundRowsAreWhole'
  <2>1. ASSUME NEW S, \A r \in S : r.edition <= edition, NEW x \in PoolDates, AllOrNone(S, x)
        PROVE  AllOrNone(S, x)'
    <3>1. CASE x = d
      <4>1. \A r \in new : ~(r.edition <= edition)
        BY <1>8, <1>1 DEF e
      <4> QED
        BY <3>1, <4>1, <2>1, <1>4 DEF AllOrNone
    <3>2. CASE x # d
      BY <3>2, <2>1, <1>4 DEF AllOrNone
    <3> QED
      BY <3>1, <3>2
  <2>2. ASSUME NEW k \in Jobs, step'[k] = "lock" PROVE AllOrNone(seen[k], tasks[k].date)'
    <3>1. k # j /\ step[k] = "lock" /\ seen'[k] = seen[k] /\ tasks'[k] = tasks[k]
      BY <2>2, <1>7 DEF JobMoved
    <3>2. tasks[k].date \in PoolDates /\ AllOrNone(seen[k], tasks[k].date)
      BY <3>1 DEF JobsArePrepared, FoundRowsAreWhole
    <3>3. \A r \in seen[k] : r.edition <= edition
      BY DEF FoundRowsAreOld
    <3> QED
      BY <3>1, <3>2, <3>3, <2>1 DEF AllOrNone
  <2>3. ASSUME regen.date # 0 PROVE AllOrNone(regen.rows, regen.date)'
    <3>1. regen.date \in PoolDates
      BY <2>3, Numbers DEF PoolsTypeOK, PoolDates
    <3> QED
      BY <3>1, <2>1, <2>3, <1>6 DEF FoundRowsAreOld, FoundRowsAreWhole, AllOrNone
  <2> QED
    BY <2>2, <2>3, <1>6 DEF FoundRowsAreWhole
<1>19. LocksAreWhole'
  <2>1. Held' = Held
    BY <1>6 DEF Held
  <2>2. ASSUME NEW k \in Jobs, locked'[k] # {}
        PROVE  /\ step'[k] = "write" /\ locked'[k] = pools'[tasks'[k].date]
               /\ locked'[k] \cap Held = {}
               /\ \A i \in Jobs \ {k} : locked'[k] \cap locked'[i] = {}
    <3>1. k # j /\ locked'[k] = locked[k] /\ step'[k] = step[k] /\ tasks'[k] = tasks[k]
      BY <2>2, <1>7 DEF JobMoved
    <3>2. /\ step[k] = "write" /\ locked[k] = pools[tasks[k].date] /\ locked[k] \cap Held = {}
          /\ \A i \in Jobs \ {k} : locked[k] \cap locked[i] = {}
      BY <2>2, <3>1 DEF LocksAreWhole
    <3>3. tasks[k].date \in PoolDates
      BY <3>2 DEF JobsArePrepared
    <3>4. tasks[k].date # d
      BY <1>2, <2>2, <3>1, <3>2
    <3>5. \A i \in Jobs : locked'[i] \subseteq locked[i]
      BY <1>7 DEF JobMoved
    <3> QED
      BY <3>1, <3>2, <3>3, <3>4, <3>5, <1>4
  <2> QED
    BY <2>1, <2>2 DEF LocksAreWhole
<1> QED
  BY <1>12, <1>13, <1>14, <1>15, <1>16, <1>17, <1>18, <1>19 DEF PoolsAreSound

-----------------------------------------------------------------------------
(* Couples and the operator.                                               *)

LEMMA FindRemovableKeepsInv ==
    ASSUME PoolsInv, NEW d \in PoolDates, FindRemovable(d)
    PROVE  PoolsInv'
<1> USE DEF PoolsInv
<1>1. /\ regen' = [date |-> d, rows |-> pools[d]]
      /\ UNCHANGED <<todayUtc, poolShelf, poolJobs, poolDays>>
  BY DEF FindRemovable
<1>2. Still
  BY <1>1 DEF Still, poolShelf, poolDays
<1>3. PoolsTypeOK'
  <2>1. regen' \in [date : 0..LastDate, rows : SUBSET PoolRow]
    BY <1>1, Numbers DEF PoolsTypeOK, PoolDates
  <2> QED
    BY <1>1, <2>1 DEF PoolsTypeOK, poolShelf, poolJobs, poolDays
<1>4. FoundRowsAreOld' /\ FoundRowsAreWhole'
  <2>1. \A r \in pools[d] : r.edition <= edition
    BY PoolRowsFacts DEF PoolsAreSound
  <2>2. regen'.rows = pools[d] /\ regen'.date = d
    BY <1>1
  <2> QED
    BY <1>1, <1>2, <2>1, <2>2 DEF FoundRowsAreOld, FoundRowsAreWhole, AllOrNone, Still, poolJobs
<1>5. JobsArePrepared' /\ LocksAreWhole'
  BY <1>1, <1>2 DEF JobsArePrepared, LocksAreWhole, Held, Still, poolJobs
<1> QED
  BY <1>2, <1>3, <1>4, <1>5, StillIsSound

LEMMA RemoveKeepsInv ==
    ASSUME PoolsInv, RemovePool
    PROVE  PoolsInv'
<1> USE DEF PoolsInv
<1> DEFINE d == regen.date
           gone == regen.rows \cap pools[d]
<1>1. /\ gone \cap (LockedRows \cup Held) = {} /\ pools' = [pools EXCEPT ![d] = pools[d] \ gone]
      /\ batches' = [batches EXCEPT ![d] = "none"] /\ regen' = NoRegen
      /\ UNCHANGED <<todayUtc, stock, consumed, disabled, edition, spent, poolJobs, poolDays>>
  BY DEF RemovePool
<1>2. CASE d = 0
  \* A record with date 0 names no pool.
  <2>1. 0 \notin PoolDates
    BY Numbers DEF PoolDates
  <2>2. pools' = pools /\ batches' = batches
    BY <1>1, <1>2, <2>1 DEF PoolsTypeOK
  <2>3. Still
    BY <1>1, <2>2 DEF Still, poolDays
  <2> HIDE DEF d, gone
  <2>4. regen' \in [date : 0..LastDate, rows : SUBSET PoolRow] /\ regen'.date = 0 /\ regen'.rows = {}
    BY <1>1, Numbers DEF NoRegen
  <2>5. PoolsTypeOK'
    BY <1>1, <2>2, <2>4 DEF PoolsTypeOK, poolJobs, poolDays
  <2>6. UNCHANGED <<seen, edition, step, tasks, picked, locked, answered, materialised>>
    BY <1>1 DEF poolJobs, poolDays
  <2>7. JobsArePrepared' /\ LocksAreWhole'
    BY <2>2, <2>6 DEF JobsArePrepared, LocksAreWhole, Held
  <2>8. FoundRowsAreOld' /\ FoundRowsAreWhole'
    BY <2>2, <2>4, <2>6 DEF FoundRowsAreOld, FoundRowsAreWhole, AllOrNone
  <2> QED
    BY <2>3, <2>5, <2>7, <2>8, StillIsSound
<1>3. CASE d # 0
  <2>1. d \in PoolDates
    BY <1>3, Numbers DEF PoolsTypeOK, PoolDates
  <2>2. gone = {} \/ gone = pools[d]
    BY <1>3 DEF FoundRowsAreWhole, AllOrNone
  <2>3. /\ pools'[d] = pools[d] \/ pools'[d] = {}
        /\ \A x \in PoolDates \ {d} : pools'[x] = pools[x]
        /\ pools'[d] # pools[d] => pools[d] \cap (LockedRows \cup Held) = {}
    BY <1>1, <2>1, <2>2 DEF PoolsTypeOK
  <2> HIDE DEF d, gone
  <2>4. PoolsTypeOK'
    <3>1. pools' \in [PoolDates -> SUBSET PoolRow]
      <4>1. pools[d] \ gone \in SUBSET PoolRow
        BY <2>1 DEF PoolsTypeOK
      <4> QED
        BY <1>1, <4>1 DEF PoolsTypeOK
    <3>2. regen' \in [date : 0..LastDate, rows : SUBSET PoolRow]
      BY <1>1, Numbers DEF NoRegen
    <3> QED
      BY <1>1, <3>1, <3>2 DEF PoolsTypeOK, poolJobs, poolDays
  <2>5. PoolsAreWhole'
    <3>1. \A x \in PoolDates : pools'[x] = pools[x] \/ pools'[x] = {}
      BY <2>3
    <3>2. ASSUME NEW x \in PoolDates, pools'[x] # {}
          PROVE  \E f \in 1..edition' :
                  /\ pools'[x] = RowsOf(x, f, {[item |-> r.item, family |-> r.family] : r \in pools'[x]})
                  /\ Complete({[item |-> r.item, family |-> r.family] : r \in pools'[x]})
      <4>1. pools'[x] = pools[x] /\ edition' = edition
        BY <3>1, <3>2, <1>1
      <4> QED
        BY <4>1, <3>2 DEF PoolsAreSound, PoolsAreWhole
    <3> QED
      BY <3>2 DEF PoolsAreWhole
  <2>6. DrawnQuestionsStay'
    <3>1. \A m \in materialised : m.date \in PoolDates /\ m.rows \subseteq pools[m.date] /\ m.rows \subseteq Held
      BY DEF PoolsAreSound, DrawnQuestionsStay, PoolsTypeOK, Held
    <3>2. ASSUME NEW m \in materialised PROVE m.rows \subseteq pools'[m.date]
      <4>1. CASE pools'[m.date] = pools[m.date]
        BY <3>1, <4>1
      <4>2. CASE pools'[m.date] # pools[m.date]
        BY <3>1, <4>2, <2>3
      <4> QED
        BY <4>1, <4>2
    <3>3. ASSUME NEW r \in answered PROVE \E x \in PoolDates : r \in pools'[x]
      <4>1. PICK x \in PoolDates : r \in pools[x]
        BY DEF PoolsAreSound, DrawnQuestionsStay
      <4>2. pools'[x] = pools[x]
        BY <4>1, <2>3 DEF Held
      <4> QED
        BY <4>1, <4>2
    <3> QED
      BY <3>2, <3>3, <1>1 DEF DrawnQuestionsStay, poolDays
  <2>7. ReserveIsSpentOnce' /\ SpentIsConsumed'
    <3>1. \A x \in PoolDates : pools'[x] \subseteq pools[x]
      BY <2>3
    <3> QED
      BY <3>1, <1>1 DEF PoolsAreSound, ReserveIsSpentOnce, SpentIsConsumed
  <2>8. JobsArePrepared' /\ FoundRowsAreOld'
    BY <1>1 DEF JobsArePrepared, FoundRowsAreOld, poolJobs, NoRegen
  <2>9. FoundRowsAreWhole'
    <3>1. ASSUME NEW k \in Jobs, step'[k] = "lock" PROVE AllOrNone(seen[k], tasks[k].date)'
      <4>1. step[k] = "lock" /\ seen' = seen /\ tasks' = tasks
        BY <3>1, <1>1 DEF poolJobs
      <4>2. tasks[k].date \in PoolDates /\ AllOrNone(seen[k], tasks[k].date)
        BY <4>1 DEF JobsArePrepared, FoundRowsAreWhole
      <4> QED
        BY <4>1, <4>2, <2>3 DEF AllOrNone
    <3>2. regen'.date = 0
      BY <1>1 DEF NoRegen
    <3> QED
      BY <3>1, <3>2 DEF FoundRowsAreWhole
  <2>10. LocksAreWhole'
    <3>1. Held' = Held /\ UNCHANGED <<step, tasks, locked>>
      BY <1>1 DEF Held, poolDays, poolJobs
    <3>2. ASSUME NEW k \in Jobs, locked[k] # {} PROVE locked[k] = pools'[tasks[k].date]
      <4>1. locked[k] = pools[tasks[k].date] /\ tasks[k].date \in PoolDates
        BY <3>2 DEF LocksAreWhole, JobsArePrepared
      <4>2. locked[k] \subseteq LockedRows
        BY DEF LockedRows
      <4> QED
        BY <4>1, <4>2, <3>2, <2>3
    <3> QED
      BY <3>1, <3>2 DEF LocksAreWhole
  <2> QED
    BY <2>4, <2>5, <2>6, <2>7, <2>8, <2>9, <2>10 DEF PoolsAreSound
<1> QED
  BY <1>2, <1>3

\* Drawing questions that exist and that nobody has locked disturbs no job.
LEMMA DrawingKeepsLocks ==
    ASSUME PoolsInv, NEW S, S \cap LockedRows = {}, Held' = Held \cup S,
           UNCHANGED <<pools, poolJobs>>
    PROVE  LocksAreWhole'
<1>1. \A k \in Jobs : locked[k] \cap S = {}
  BY DEF LockedRows
<1> QED
  BY <1>1 DEF PoolsInv, LocksAreWhole, poolJobs

LEMMA CouplesKeepInv ==
    ASSUME PoolsInv,
           \/ \E c \in Couples : InsertDay(c)
           \/ \E d \in PoolDates : \E r \in pools[d] : AnswerQuestion(d, r)
    PROVE  PoolsInv'
<1> USE DEF PoolsInv
<1>1. UNCHANGED <<todayUtc, poolShelf, poolJobs, regen>>
  BY DEF InsertDay, AnswerQuestion
<1>2. JobsArePrepared' /\ FoundRowsAreOld' /\ FoundRowsAreWhole' /\ SpentIsConsumed'
  BY <1>1 DEF JobsArePrepared, FoundRowsAreOld, FoundRowsAreWhole, SpentIsConsumed, AllOrNone,
        poolShelf, poolJobs
<1>3. PoolsAreWhole' /\ ReserveIsSpentOnce'
  BY <1>1 DEF PoolsAreSound, PoolsAreWhole, ReserveIsSpentOnce, poolShelf
<1>4. ASSUME NEW c \in Couples, InsertDay(c)
      PROVE  PoolsTypeOK' /\ DrawnQuestionsStay' /\ LocksAreWhole'
  <2> DEFINE m == [couple |-> c, date |-> reading[c].date, rows |-> reading[c].rows]
  <2>1. reading[c] \in [date : 0..LastDate, rows : SUBSET PoolRow] /\ reading[c].date # 0
    BY <1>4 DEF InsertDay, PoolsTypeOK
  <2>2. m \in [couple : Couples, date : PoolDates, rows : SUBSET PoolRow]
    BY <2>1, Numbers DEF PoolDates
  <2>3. materialised' = materialised \cup {m} /\ m.rows = reading[c].rows /\ m.date = reading[c].date
    BY <1>4 DEF InsertDay
  <2>4. m.rows \subseteq pools[m.date] \ LockedRows
    BY <1>4 DEF InsertDay
  <2>5. reading' = [reading EXCEPT ![c] = NoReading] /\ answered' = answered
    BY <1>4 DEF InsertDay
  <2> HIDE DEF m
  <2>6. PoolsTypeOK'
    <3>1. NoReading \in [date : 0..LastDate, rows : SUBSET PoolRow]
      BY Numbers DEF NoReading
    <3> QED
      BY <1>1, <2>2, <2>3, <2>5, <3>1 DEF PoolsTypeOK, poolShelf, poolJobs
  <2>7. DrawnQuestionsStay'
    BY <1>1, <2>3, <2>4, <2>5 DEF PoolsAreSound, DrawnQuestionsStay, poolShelf
  <2>8. Held' = Held \cup m.rows
    BY <2>3, <2>5 DEF Held
  <2>9. LocksAreWhole'
    BY <1>1, <2>4, <2>8, DrawingKeepsLocks DEF poolShelf
  <2> QED
    BY <2>6, <2>7, <2>9
<1>5. ASSUME NEW d \in PoolDates, NEW r \in pools[d], AnswerQuestion(d, r)
      PROVE  PoolsTypeOK' /\ DrawnQuestionsStay' /\ LocksAreWhole'
  <2>1. /\ answered' = answered \cup {r} /\ r \notin LockedRows /\ r \in PoolRow
        /\ UNCHANGED <<materialised, reading>>
    BY <1>5 DEF AnswerQuestion, PoolsTypeOK
  <2>2. PoolsTypeOK'
    BY <1>1, <2>1 DEF PoolsTypeOK, poolShelf, poolJobs
  <2>3. DrawnQuestionsStay'
    BY <1>1, <1>5, <2>1 DEF PoolsAreSound, DrawnQuestionsStay, poolShelf
  <2>4. Held' = Held \cup {r}
    BY <2>1 DEF Held
  <2>5. LocksAreWhole'
    BY <1>1, <2>1, <2>4, DrawingKeepsLocks DEF poolShelf
  <2> QED
    BY <2>2, <2>3, <2>5
<1> QED
  BY <1>2, <1>3, <1>4, <1>5 DEF PoolsAreSound

-----------------------------------------------------------------------------
(* The theorem.                                                            *)

LEMMA PoolsInitInv == PoolsInit => PoolsInv
<1> SUFFICES ASSUME PoolsInit PROVE PoolsInv
  OBVIOUS
<1> USE DEF PoolsInit
<1>1. PoolsTypeOK
  <2>1. NoTask \in TaskType
    BY Numbers DEF NoTask, TaskType
  <2>2. NoReading \in [date : 0..LastDate, rows : SUBSET PoolRow]
        /\ NoRegen \in [date : 0..LastDate, rows : SUBSET PoolRow]
    BY Numbers DEF NoReading, NoRegen
  <2>3. todayUtc \in 1..LastDate /\ edition \in 0..MaxEditions
    BY Numbers
  <2> QED
    BY <2>1, <2>2, <2>3 DEF PoolsTypeOK, TaskType, Steps
<1>2. PoolsAreSound
  BY DEF PoolsAreSound, PoolsAreWhole, DrawnQuestionsStay, ReserveIsSpentOnce
<1>3. JobsArePrepared /\ FoundRowsAreOld /\ FoundRowsAreWhole
  BY DEF JobsArePrepared, FoundRowsAreOld, FoundRowsAreWhole, Holding, NoRegen
<1>4. LocksAreWhole /\ SpentIsConsumed
  BY DEF LocksAreWhole, SpentIsConsumed
<1> QED
  BY <1>1, <1>2, <1>3, <1>4 DEF PoolsInv

LEMMA PoolsStepInv == PoolsInv /\ [PoolsNext]_poolVars => PoolsInv'
<1> SUFFICES ASSUME PoolsInv, [PoolsNext]_poolVars PROVE PoolsInv'
  OBVIOUS
<1>1. CASE UNCHANGED poolVars
  <2> USE DEF PoolsInv
  <2>1. UNCHANGED <<todayUtc, stock, consumed, pools, disabled, batches, edition, spent, tasks, step,
                    picked, seen, locked, materialised, answered, reading, regen>>
    BY <1>1 DEF poolVars, poolShelf, poolJobs, poolDays
  <2>2. PoolsTypeOK'
    BY <2>1 DEF PoolsTypeOK
  <2>3. Still
    BY <2>1 DEF Still
  <2>4. JobsArePrepared' /\ LocksAreWhole'
    BY <2>1 DEF JobsArePrepared, LocksAreWhole, Held
  <2>5. FoundRowsAreOld' /\ FoundRowsAreWhole'
    BY <2>1 DEF FoundRowsAreOld, FoundRowsAreWhole, AllOrNone
  <2> QED
    BY <2>2, <2>3, <2>4, <2>5, StillIsSound
<1>2. CASE PoolsNext
  BY <1>2, JobStepsKeepInv, BystandersKeepInv, FindKeepsInv, LockKeepsInv, WriteKeepsInv,
     FindRemovableKeepsInv, RemoveKeepsInv, CouplesKeepInv, Zenon DEF PoolsNext
<1> QED
  BY <1>1, <1>2

\* However the jobs of several workers, the operator's removals and the couples'
\* requests interleave, a published pool is one complete selection, no reserve
\* entry is published twice, and a pool a couple has drawn from stays.
THEOREM PoolsSound == PoolsSpec => []PoolsAreSound
<1>1. PoolsInv => PoolsAreSound
  BY DEF PoolsInv
<1> QED
  BY <1>1, PoolsInitInv, PoolsStepInv, PTL DEF PoolsSpec

-----------------------------------------------------------------------------
(* The daily quiz.  What was reviewed stays what was finished because the  *)
(* revision a phone sends with a finish decides: the phone's answers were  *)
(* the stored ones at that revision, and whatever stores others counts on. *)
(* The reveal mark a reply carries cannot be too early, since a revealed   *)
(* day does not change.  Questions that replace others are never already   *)
(* asked: those of the bank would be in the bank's rows.                   *)

\* Rows are records, answers functions.
IsDay(day) ==
    /\ day = [made |-> day.made, revision |-> day.revision, questions |-> day.questions,
              done |-> day.done, revealed |-> day.revealed]
    /\ day.made \in BOOLEAN /\ day.revealed \in BOOLEAN /\ day.revision \in Nat
    /\ IsFiniteSet(day.questions) /\ day.done \subseteq QuizMembers
IsView(v) ==
    v = [date |-> v.date, revision |-> v.revision, revealed |-> v.revealed, finished |-> v.finished,
         questions |-> v.questions, mine |-> v.mine, waits |-> v.waits]
IsAnswers(f) == f = [q \in DOMAIN f |-> f[q]]

QuizShape ==
    /\ DOMAIN days = Dates /\ DOMAIN drafts = Dates \X QuizMembers
    /\ DOMAIN signed = Dates \X QuizMembers
    /\ DOMAIN view = QuizMembers /\ DOMAIN reply = QuizMembers
    /\ \A m \in QuizMembers : IsView(view[m])
    /\ IsFiniteSet(customs) /\ \A q \in customs : q.from = "couple"

\* A stored day has all its questions; the curated ones were created for the couple.
WholeDay(d) ==
    /\ IsDay(days[d])
    /\ days[d] = NoDay \/ (days[d].made /\ Cardinality(days[d].questions) = DaySize)
    /\ days[d].revealed => days[d].done = QuizMembers
    /\ \A q \in days[d].questions : q.from = "bank" => q \in bank

\* Answers are to questions of the day, and a finished member's are those that were reviewed.
DraftsFit(d) ==
    \A m \in QuizMembers :
        /\ IsAnswers(drafts[<<d, m>>]) /\ DOMAIN drafts[<<d, m>>] \subseteq days[d].questions
        /\ m \in days[d].done => /\ drafts[<<d, m>>] = signed[<<d, m>>]
                                 /\ DOMAIN drafts[<<d, m>>] = days[d].questions

Decent(d) == ~days[d].revealed /\ ~BothConsent => \A q \in days[d].questions : ~q.intimate

GoodDate(d) == WholeDay(d) /\ DraftsFit(d) /\ Decent(d)

\* What a phone knows of a day was so at its revision, or the day has a later one.
AsKnown(d, m, rev, answers) ==
    /\ d \in Dates /\ days[d].made /\ rev \in Nat /\ rev <= days[d].revision
    /\ rev = days[d].revision => answers = drafts[<<d, m>>]

PhonesFresh ==
    /\ \A m \in QuizMembers : view[m].date # 0 =>
          AsKnown(view[m].date, m, view[m].revision, view[m].mine)
    /\ \A c \in wire :
          /\ c.member \in QuizMembers /\ c.date \in Dates /\ days[c.date].made
          /\ c.kind = "finish" => AsKnown(c.date, c.member, c.expected, c.seen)

\* An answer on its way is of a stored day, which stays revealed if it says so.
RepliesHonest ==
    \A m \in QuizMembers : reply[m] # NoReply =>
        /\ reply[m].date \in Dates /\ days[reply[m].date].made
        /\ reply[m].revision \in Nat /\ reply[m].revision <= days[reply[m].date].revision
        /\ reply[m].revealed \in BOOLEAN
        /\ reply[m].revealed => days[reply[m].date].revealed

ScreensHonest ==
    \A m \in QuizMembers : view[m].revealed =>
        /\ view[m].date \in Dates /\ days[view[m].date].revealed
        /\ view[m].questions = days[view[m].date].questions

QuizInv ==
    /\ QuizShape /\ \A d \in Dates : GoodDate(d)
    /\ PhonesFresh /\ RepliesHonest /\ ScreensHonest

LEMMA QuizNumbers ==
    /\ DaySize \in Nat \ {0} /\ Supply \in Nat /\ LastDay \in Nat /\ MaxSwitches \in Nat
    /\ IsFiniteSet(Written) /\ \A q \in Written : q.from = "couple"
BY QuizAssumption

LEMMA QuizInvImplies == QuizInv => FinishMeansReviewed /\ NothingUnsharedIsShown
<1> SUFFICES ASSUME QuizInv PROVE FinishMeansReviewed /\ NothingUnsharedIsShown
  OBVIOUS
<1>1. FinishMeansReviewed
  BY DEF QuizInv, GoodDate, DraftsFit, FinishMeansReviewed
<1>2. RevealNeedsBoth
  BY DEF QuizInv, GoodDate, WholeDay, ScreensHonest, RevealNeedsBoth
<1>3. IntimacyNeedsBoth
  BY DEF QuizInv, GoodDate, Decent, IntimacyNeedsBoth
<1> QED BY <1>1, <1>2, <1>3 DEF QuizInv, NothingUnsharedIsShown

-----------------------------------------------------------------------------
(* Questions.                                                               *)

LEMMA PublishedFinite == ASSUME NEW d PROVE IsFiniteSet(Published(d))
<1> DEFINE S == BOOLEAN \X (1..Supply)
           row(x) == [from |-> "all", date |-> d, intimate |-> x[1], n |-> x[2]]
           f == [x \in S |-> row(x)]
<1>1. IsFiniteSet(BOOLEAN)
  <2>1. IsFiniteSet({}) /\ IsFiniteSet({} \cup {TRUE}) /\ IsFiniteSet(({} \cup {TRUE}) \cup {FALSE})
    BY FS_EmptySet, FS_AddElement
  <2>2. BOOLEAN = ({} \cup {TRUE}) \cup {FALSE}
    OBVIOUS
  <2> QED BY <2>1, <2>2
<1>2. IsFiniteSet(1..Supply)
  BY QuizNumbers, FS_Interval
<1>3. IsFiniteSet(S)
  BY <1>1, <1>2, FS_Product
<1>4. f \in [S -> Published(d)]
  BY DEF Published
<1>5. ASSUME NEW q \in Published(d) PROVE \E x \in S : f[x] = q
  <2>1. q.intimate \in BOOLEAN /\ q.n \in 1..Supply
        /\ q = [from |-> "all", date |-> d, intimate |-> q.intimate, n |-> q.n]
    BY DEF Published
  <2>2. <<q.intimate, q.n>> \in S /\ f[<<q.intimate, q.n>>] = q
    BY <2>1
  <2> QED BY <2>2
<1>6. f \in Surjection(S, Published(d))
  BY <1>4, <1>5 DEF Surjection
<1> QED BY <1>3, <1>6, FS_Surjection

LEMMA BankFinite == ASSUME NEW d, NEW b PROVE IsFiniteSet(BankItems(d, b))
<1> DEFINE S == 1..(2 * DaySize + MaxSwitches)
           f == [n \in S |-> BankItem(d, b, n)]
<1>1. IsFiniteSet(S)
  BY QuizNumbers, FS_Interval
<1>2. f \in Surjection(S, BankItems(d, b))
  BY DEF BankItems, Surjection
<1> QED BY <1>1, <1>2, FS_Surjection

LEMMA QuestionsFrom ==
    /\ \A d : \A q \in Published(d) : q.from = "all"
    /\ \A d : GeneralOf(d) \subseteq Published(d) /\ IntimateOf(d) \subseteq Published(d)
    /\ \A d, b : \A q \in BankItems(d, b) : q.from = "bank" /\ q.intimate = b
    /\ \A n, S : First(n, S) \subseteq S
    /\ \A d : \A q \in GeneralOf(d) : ~q.intimate
BY DEF Published, GeneralOf, IntimateOf, BankItems, BankItem, First

\* A new day is made of the couple's own and of published questions.
LEMMA NewDayQuestions ==
    ASSUME IsFiniteSet(customs), \A q \in customs : q.from = "couple", NEW d
    PROVE  /\ IsFiniteSet(QuestionsForDay(d))
           /\ \A q \in QuestionsForDay(d) : q.from # "bank" /\ (~BothConsent => ~q.intimate)
<1>1. DueCustoms(d) \subseteq customs /\ \A q \in DueCustoms(d) : q.intimate => BothConsent
  BY QuestionsFrom DEF DueCustoms
<1>2. PICK n : QuestionsForDay(d) = DueCustoms(d)
             \cup (IF BothConsent /\ Cardinality(DueCustoms(d)) < DaySize THEN IntimateOf(d) ELSE {})
             \cup First(n, GeneralOf(d))
  BY DEF QuestionsForDay
<1>3. QuestionsForDay(d) \subseteq customs \cup Published(d)
  BY <1>1, <1>2, QuestionsFrom
<1>4. IsFiniteSet(customs \cup Published(d))
  BY PublishedFinite, FS_Union
<1>5. IsFiniteSet(QuestionsForDay(d))
  BY <1>3, <1>4, FS_Subset
<1> QED BY <1>1, <1>2, <1>3, <1>5, QuestionsFrom

LEMMA NewDayRow ==
    ASSUME QuizInv, NEW d \in Dates, days[d] = NoDay, Available(d)
    PROVE  /\ IsDay(NewDay(d)) /\ Cardinality(NewDay(d).questions) = DaySize
           /\ NewDay(d).made /\ NewDay(d).done = {} /\ ~NewDay(d).revealed /\ NewDay(d).revision = 0
           /\ \A q \in NewDay(d).questions : q.from # "bank" /\ (~BothConsent => ~q.intimate)
<1>1. NewDay(d) = [made |-> TRUE, revision |-> 0, questions |-> QuestionsForDay(d), done |-> {},
                   revealed |-> FALSE]
  BY DEF NewDay
<1>2. /\ IsFiniteSet(QuestionsForDay(d))
      /\ \A q \in QuestionsForDay(d) : q.from # "bank" /\ (~BothConsent => ~q.intimate)
  BY NewDayQuestions DEF QuizInv, QuizShape
<1>3. Cardinality(NewDay(d).questions) = DaySize
  BY DEF Available, Materialized
<1> QED BY <1>1, <1>2, <1>3 DEF IsDay

\* Replacing questions by as many others keeps the day whole.
LEMMA ReplacedRow ==
    ASSUME NEW day, IsDay(day), Cardinality(day.questions) = DaySize,
           NEW old, old \subseteq day.questions, old # {},
           NEW new, IsFiniteSet(new), new \cap day.questions = {}, Cardinality(new) = Cardinality(old)
    PROVE  LET row == Replaced(day, old, new) IN
           /\ IsDay(row) /\ row.made = day.made /\ row.done = {} /\ row.revealed = day.revealed
           /\ row.revision > day.revision
           /\ row.questions = (day.questions \ old) \cup new /\ Cardinality(row.questions) = DaySize
<1> DEFINE k == Cardinality(old)
           qs == (day.questions \ old) \cup new
           row == Replaced(day, old, new)
<1>1. IsFiniteSet(day.questions) /\ day.revision \in Nat
  BY DEF IsDay
<1>2. IsFiniteSet(old) /\ k \in Nat /\ k # 0
  BY <1>1, FS_Subset, FS_CardinalityType, FS_EmptySet
<1>3. IsFiniteSet(day.questions \ old) /\ Cardinality(day.questions \ old) = DaySize - k
  <2>1. day.questions \cap old = old
    OBVIOUS
  <2> QED BY <1>1, <2>1, FS_Difference
<1>4. IsFiniteSet(qs) /\ Cardinality(qs) = DaySize
  <2>1. (day.questions \ old) \cap new = {}
    OBVIOUS
  <2>2. IsFiniteSet(qs) /\ Cardinality(qs) = (DaySize - k) + k - Cardinality({})
    BY <1>3, <2>1, FS_Union
  <2> QED BY <1>2, <2>2, FS_EmptySet, QuizNumbers
<1>5. row = [day EXCEPT !.questions = qs, !.done = {}, !.revision = day.revision + k]
  BY DEF Replaced
<1> HIDE DEF k, qs, row
<1>6. row = [made |-> day.made, revision |-> day.revision + k, questions |-> qs, done |-> {},
             revealed |-> day.revealed]
  BY <1>5 DEF IsDay
<1>7. IsDay(row)
  BY <1>1, <1>2, <1>4, <1>6 DEF IsDay
<1> QED BY <1>1, <1>2, <1>4, <1>6, <1>7 DEF qs, row

-----------------------------------------------------------------------------
(* Steps.                                                                   *)

\* A stored day that changes gets a later revision; a revealed one does not change.
SameDay(d) == days'[d] = days[d] /\ \A m \in QuizMembers : drafts'[<<d, m>>] = drafts[<<d, m>>]
DaysGrow ==
    \A d \in Dates : days[d].made =>
        /\ days'[d].made /\ days'[d].revision \in Nat
        /\ days'[d].revision > days[d].revision \/ SameDay(d)
        /\ days[d].revealed => days'[d] = days[d]

ScreensStay ==
    /\ DOMAIN view' = QuizMembers
    /\ \A m \in QuizMembers :
          /\ IsView(view'[m])
          /\ view'[m].date = view[m].date /\ view'[m].revision = view[m].revision
          /\ view'[m].revealed = view[m].revealed /\ view'[m].mine = view[m].mine
          /\ view'[m].questions = view[m].questions

ShapeStays ==
    /\ DOMAIN days' = Dates /\ DOMAIN drafts' = Dates \X QuizMembers
    /\ DOMAIN signed' = Dates \X QuizMembers
    /\ IsFiniteSet(customs') /\ \A q \in customs' : q.from = "couple"

LEMMA AsKnownStays ==
    ASSUME QuizInv, DaysGrow, NEW d, NEW m \in QuizMembers, NEW rev, NEW answers,
           AsKnown(d, m, rev, answers)
    PROVE  AsKnown(d, m, rev, answers)'
<1>1. /\ d \in Dates /\ days[d].made /\ rev \in Nat /\ rev <= days[d].revision
      /\ rev = days[d].revision => answers = drafts[<<d, m>>]
  BY DEF AsKnown
<1>2. days[d].revision \in Nat
  BY <1>1 DEF QuizInv, GoodDate, WholeDay, IsDay
<1>3. /\ days'[d].made /\ days'[d].revision \in Nat
      /\ days'[d].revision > days[d].revision \/ SameDay(d)
  BY <1>1 DEF DaysGrow
<1>4. CASE days'[d].revision > days[d].revision
  BY <1>1, <1>2, <1>3, <1>4 DEF AsKnown
<1>5. CASE SameDay(d)
  BY <1>1, <1>3, <1>5 DEF AsKnown, SameDay
<1> QED BY <1>3, <1>4, <1>5

LEMMA ScreensKeep ==
    ASSUME QuizInv, DaysGrow, ScreensStay, wire' \subseteq wire
    PROVE  PhonesFresh' /\ ScreensHonest'
<1>1. ASSUME NEW m \in QuizMembers, view'[m].date # 0
      PROVE  AsKnown(view[m].date, m, view[m].revision, view[m].mine)'
  <2>1. PICK d, rev, answers : d = view[m].date /\ rev = view[m].revision /\ answers = view[m].mine
    OBVIOUS
  <2>2. AsKnown(d, m, rev, answers)
    BY <1>1, <2>1 DEF QuizInv, PhonesFresh, ScreensStay
  <2>3. AsKnown(d, m, rev, answers)'
    BY <2>2, AsKnownStays
  <2>4. d = view'[m].date /\ rev = view'[m].revision /\ answers = view'[m].mine
    BY <2>1 DEF ScreensStay
  <2> QED BY <2>3, <2>4 DEF AsKnown
<1>2. ASSUME NEW c \in wire'
      PROVE  /\ c.member \in QuizMembers /\ c.date \in Dates /\ days'[c.date].made
             /\ c.kind = "finish" => AsKnown(c.date, c.member, c.expected, c.seen)'
  <2>1. /\ c.member \in QuizMembers /\ c.date \in Dates /\ days[c.date].made
        /\ c.kind = "finish" => AsKnown(c.date, c.member, c.expected, c.seen)
    BY <1>2 DEF QuizInv, PhonesFresh
  <2> QED BY <2>1, AsKnownStays DEF DaysGrow
<1>3. PhonesFresh'
  BY <1>1, <1>2 DEF PhonesFresh
<1>4. ScreensHonest'
  BY DEF QuizInv, ScreensHonest, ScreensStay, DaysGrow, GoodDate, WholeDay, NoDay
<1> QED BY <1>3, <1>4

LEMMA RepliesKeep ==
    ASSUME QuizInv, DaysGrow, NEW m \in QuizMembers, reply'[m] = reply[m], reply[m] # NoReply
    PROVE  /\ reply'[m].date \in Dates /\ days'[reply'[m].date].made
           /\ reply'[m].revision \in Nat /\ reply'[m].revision <= days'[reply'[m].date].revision
           /\ reply'[m].revealed \in BOOLEAN
           /\ reply'[m].revealed => days'[reply'[m].date].revealed
<1> DEFINE d == reply[m].date
<1>1. /\ d \in Dates /\ days[d].made /\ reply[m].revision \in Nat
      /\ reply[m].revision <= days[d].revision /\ reply[m].revealed \in BOOLEAN
      /\ reply[m].revealed => days[d].revealed
  BY DEF QuizInv, RepliesHonest
<1>2. days[d].revision \in Nat
  BY <1>1 DEF QuizInv, GoodDate, WholeDay, IsDay
<1>3. /\ days'[d].made /\ days'[d].revision \in Nat
      /\ days'[d].revision > days[d].revision \/ days'[d] = days[d]
      /\ days[d].revealed => days'[d] = days[d]
  BY <1>1 DEF DaysGrow, SameDay
<1> HIDE DEF d
<1>4. reply'[m].date = d
  BY DEF d
<1> QED BY <1>1, <1>2, <1>3, <1>4

\* A step of the server that makes no reply.
LEMMA ServerStep ==
    ASSUME QuizInv, DaysGrow, \A d \in Dates : GoodDate(d)', ShapeStays, ScreensStay,
           wire' \subseteq wire, reply' = reply
    PROVE  QuizInv'
<1>1. PhonesFresh' /\ ScreensHonest'
  BY ScreensKeep
<1>2. RepliesHonest'
  BY RepliesKeep DEF RepliesHonest
<1> QED BY <1>1, <1>2 DEF QuizInv, QuizShape, ShapeStays, ScreensStay

\* A date the step leaves alone.
LEMMA DateStays ==
    ASSUME QuizInv, NEW d \in Dates, SameDay(d),
           \A m \in QuizMembers : signed'[<<d, m>>] = signed[<<d, m>>],
           bank \subseteq bank',
           BothConsent' \/ ~BothConsent \/ days[d].revealed \/ \A q \in days[d].questions : ~q.intimate
    PROVE  GoodDate(d)'
<1>1. days'[d] = days[d] /\ GoodDate(d)
      /\ \A m \in QuizMembers : drafts'[<<d, m>>] = drafts[<<d, m>>]
  BY DEF SameDay, QuizInv
<1>2. WholeDay(d)'
  BY <1>1 DEF GoodDate, WholeDay
<1>3. DraftsFit(d)'
  BY <1>1 DEF GoodDate, DraftsFit
<1>4. Decent(d)'
  BY <1>1 DEF GoodDate, Decent, NoDay
<1> QED BY <1>2, <1>3, <1>4 DEF GoodDate

\* Nothing of the days changes.
LEMMA DaysAlone ==
    ASSUME QuizInv, days' = days, drafts' = drafts, signed' = signed, bank' = bank,
           consent' = consent
    PROVE  DaysGrow /\ \A d \in Dates : GoodDate(d)'
<1>1. DaysGrow
  BY DEF DaysGrow, SameDay, QuizInv, GoodDate, WholeDay, IsDay
<1>2. BothConsent' = BothConsent /\ \A d \in Dates : SameDay(d)
  BY DEF BothConsent, SameDay
<1>3. BothConsent \in BOOLEAN
  BY DEF BothConsent
<1> QED BY <1>1, <1>2, <1>3, DateStays

LEMMA ScreensUnchanged ==
    ASSUME QuizInv, view' = view
    PROVE  ScreensStay
BY DEF ScreensStay, QuizInv, QuizShape

LEMMA CustomsKeep ==
    ASSUME QuizInv, days' = days, drafts' = drafts, signed' = signed, bank' = bank,
           consent' = consent, view' = view, wire' = wire, reply' = reply,
           IsFiniteSet(customs'), \A q \in customs' : q.from = "couple"
    PROVE  QuizInv'
<1>1. ShapeStays
  BY DEF ShapeStays, QuizInv, QuizShape
<1> QED BY <1>1, DaysAlone, ScreensUnchanged, ServerStep

LEMMA CreateCustomKeeps == ASSUME QuizInv, NEW b, CreateCustom(b) PROVE QuizInv'
<1>0. PICK d \in Dates, n \in 1..DaySize :
         customs' = customs \cup {[from |-> "couple", date |-> d, intimate |-> b, n |-> n]}
  BY DEF CreateCustom
<1> DEFINE x == [from |-> "couple", date |-> d, intimate |-> b, n |-> n]
<1>1. customs' = customs \cup {x} /\ x.from = "couple"
  BY <1>0
<1> HIDE DEF x
<1>2. IsFiniteSet(customs') /\ \A q \in customs' : q.from = "couple"
  BY <1>1, FS_AddElement DEF QuizInv, QuizShape
<1> QED BY <1>2, CustomsKeep DEF CreateCustom, quizPhones

LEMMA ChangeCustomKeeps == ASSUME QuizInv, NEW q \in customs, ChangeCustom(q) PROVE QuizInv'
<1> DEFINE x == [q EXCEPT !.intimate = ~@]
<1>1. q.from = "couple" /\ IsFiniteSet(customs) /\ \A p \in customs : p.from = "couple"
  BY DEF QuizInv, QuizShape
<1>2. x.from = "couple"
  BY <1>1
<1>3. customs' = customs \ {q} \/ customs' = (customs \ {q}) \cup {x}
  BY DEF ChangeCustom
<1> HIDE DEF x
<1>4. IsFiniteSet(customs') /\ \A p \in customs' : p.from = "couple"
  BY <1>1, <1>2, <1>3, FS_AddElement, FS_RemoveElement
<1> QED BY <1>4, CustomsKeep DEF ChangeCustom, quizPhones

LEMMA TomorrowKeeps == ASSUME QuizInv, Tomorrow PROVE QuizInv'
<1>1. /\ days' = days /\ drafts' = drafts /\ signed' = signed /\ bank' = bank /\ customs' = customs
      /\ consent' = consent /\ view' = view /\ wire' = wire /\ reply' = reply
  BY DEF Tomorrow, quizTables, quizPhones
<1> QED BY <1>1, CustomsKeep DEF QuizInv, QuizShape

-----------------------------------------------------------------------------
(* What happens to a day.                                                   *)

LEMMA MakesDay ==
    ASSUME QuizInv, NEW d \in Dates, Available(d), days' = [days EXCEPT ![d] = Materialized(d)],
           UNCHANGED <<drafts, signed, bank, consent>>
    PROVE  /\ DaysGrow /\ \A e \in Dates : GoodDate(e)'
           /\ days'[d].made /\ days'[d].revision \in Nat /\ days'[d].revealed \in BOOLEAN
<1>0. DOMAIN days = Dates
  BY DEF QuizInv, QuizShape
<1>1. CASE days[d] # NoDay
  <2>1. \A e \in Dates : days'[e] = days[e]
    BY <1>0, <1>1 DEF Materialized
  <2>2. days[d].made /\ \A e \in Dates : IsDay(days[e])
    BY <1>1 DEF QuizInv, GoodDate, WholeDay
  <2>3. \A e \in Dates : SameDay(e)
    BY <2>1 DEF SameDay
  <2>4. BothConsent' = BothConsent /\ BothConsent \in BOOLEAN
    BY DEF BothConsent
  <2>5. \A e \in Dates : GoodDate(e)'
    BY <2>3, <2>4, DateStays
  <2>6. DaysGrow
    BY <2>1, <2>2, <2>3 DEF DaysGrow, IsDay
  <2> QED BY <2>1, <2>2, <2>5, <2>6 DEF IsDay
<1>2. CASE days[d] = NoDay
  <2>1. days'[d] = NewDay(d) /\ \A e \in Dates \ {d} : days'[e] = days[e]
    BY <1>0, <1>2 DEF Materialized
  <2>2. /\ IsDay(NewDay(d)) /\ Cardinality(NewDay(d).questions) = DaySize
        /\ NewDay(d).made /\ NewDay(d).done = {} /\ ~NewDay(d).revealed /\ NewDay(d).revision = 0
        /\ \A q \in NewDay(d).questions : q.from # "bank" /\ (~BothConsent => ~q.intimate)
    BY <1>2, NewDayRow
  <2>3. \A e \in Dates \ {d} : SameDay(e)
    BY <2>1 DEF SameDay
  <2>4. BothConsent' = BothConsent /\ BothConsent \in BOOLEAN
    BY DEF BothConsent
  <2>5. ASSUME NEW e \in Dates, e # d PROVE GoodDate(e)'
    BY <2>3, <2>4, <2>5, DateStays
  <2>6. WholeDay(d)'
    BY <2>1, <2>2 DEF WholeDay
  <2>7. Decent(d)'
    BY <2>1, <2>2, <2>4 DEF Decent
  <2>8. DraftsFit(d)'
    <3>1. \A m \in QuizMembers : IsAnswers(drafts[<<d, m>>]) /\ DOMAIN drafts[<<d, m>>] \subseteq {}
      BY <1>2 DEF QuizInv, GoodDate, DraftsFit, NoDay
    <3> QED BY <2>1, <2>2, <3>1 DEF DraftsFit
  <2>9. DaysGrow
    <3>1. ~days[d].made
      BY <1>2 DEF NoDay
    <3>2. \A e \in Dates : days[e].made => days[e].revision \in Nat
      BY DEF QuizInv, GoodDate, WholeDay, IsDay
    <3> QED BY <2>1, <2>3, <3>1, <3>2 DEF DaysGrow, SameDay
  <2> QED BY <2>1, <2>2, <2>5, <2>6, <2>7, <2>8, <2>9 DEF GoodDate, IsDay
<1> QED BY <1>1, <1>2

LEMMA MakeTodayKeeps == ASSUME QuizInv, MakeToday PROVE QuizInv'
<1>1. /\ Available(today) /\ days[today] = NoDay /\ days' = [days EXCEPT ![today] = NewDay(today)]
      /\ UNCHANGED <<drafts, signed, bank, consent>> /\ customs' = customs /\ view' = view
      /\ wire' = wire /\ reply' = reply
  BY DEF MakeToday, quizPhones
<1>2. CASE today \in Dates
  <2>1. days' = [days EXCEPT ![today] = Materialized(today)]
    BY <1>1 DEF Materialized
  <2>2. PICK d \in Dates : d = today
    BY <1>2
  <2>3. DaysGrow /\ \A e \in Dates : GoodDate(e)'
    BY <1>1, <2>1, <2>2, MakesDay
  <2>4. ShapeStays
    BY <1>1 DEF ShapeStays, QuizInv, QuizShape
  <2> QED BY <1>1, <2>3, <2>4, ScreensUnchanged, ServerStep
<1>3. CASE today \notin Dates
  <2>1. days' = [d \in Dates |-> days[d]]
    BY <1>1, <1>3 DEF QuizInv, QuizShape
  <2>2. \A d \in Dates : SameDay(d)
    BY <1>1, <2>1 DEF SameDay
  <2>3. BothConsent' = BothConsent /\ BothConsent \in BOOLEAN
    BY <1>1 DEF BothConsent
  <2>4. \A d \in Dates : GoodDate(d)'
    BY <1>1, <2>2, <2>3, DateStays
  <2>5. DaysGrow
    BY <2>1, <2>2 DEF DaysGrow, QuizInv, GoodDate, WholeDay, IsDay
  <2>6. ShapeStays
    BY <1>1, <2>1 DEF ShapeStays, QuizInv, QuizShape
  <2> QED BY <1>1, <2>4, <2>5, <2>6, ScreensUnchanged, ServerStep
<1> QED BY <1>2, <1>3

\* A reply tells of the day as it was committed.
LEMMA RepliesAfter ==
    ASSUME QuizInv, DaysGrow, NEW m \in QuizMembers, NEW d \in Dates,
           reply' = [reply EXCEPT ![m] = ReplyFrom(d, days'[d])] \/ reply' = reply,
           days'[d].made, days'[d].revision \in Nat, days'[d].revealed \in BOOLEAN
    PROVE  RepliesHonest' /\ DOMAIN reply' = QuizMembers
<1>0. DOMAIN reply = QuizMembers
  BY DEF QuizInv, QuizShape
<1>1. ASSUME NEW n \in QuizMembers, reply'[n] # NoReply
      PROVE  /\ reply'[n].date \in Dates /\ days'[reply'[n].date].made
             /\ reply'[n].revision \in Nat /\ reply'[n].revision <= days'[reply'[n].date].revision
             /\ reply'[n].revealed \in BOOLEAN
             /\ reply'[n].revealed => days'[reply'[n].date].revealed
  <2>1. CASE reply'[n] = reply[n]
    BY <1>1, <2>1, RepliesKeep
  <2>2. CASE reply'[n] = ReplyFrom(d, days'[d])
    <3>1. reply'[n].date = d /\ reply'[n].revision = days'[d].revision
          /\ reply'[n].revealed = days'[d].revealed
      BY <2>2 DEF ReplyFrom
    <3> QED BY <3>1
  <2> QED BY <1>0, <2>1, <2>2
<1> QED BY <1>0, <1>1 DEF RepliesHonest

LEMMA OpenKeeps ==
    ASSUME QuizInv, NEW m \in QuizMembers, NEW d \in Dates, Open(m, d)
    PROVE  QuizInv'
<1>1. /\ Available(d) /\ days' = [days EXCEPT ![d] = Materialized(d)]
      /\ UNCHANGED <<drafts, signed, bank, consent>> /\ customs' = customs /\ view' = view
      /\ wire' = wire /\ reply' = [reply EXCEPT ![m] = ReplyFrom(d, days'[d])]
  BY DEF Open
<1>2. /\ DaysGrow /\ \A e \in Dates : GoodDate(e)'
      /\ days'[d].made /\ days'[d].revision \in Nat /\ days'[d].revealed \in BOOLEAN
  BY <1>1, MakesDay
<1>3. PhonesFresh' /\ ScreensHonest' /\ ScreensStay
  BY <1>1, <1>2, ScreensKeep, ScreensUnchanged
<1>4. RepliesHonest' /\ DOMAIN reply' = QuizMembers
  BY <1>1, <1>2, RepliesAfter
<1>5. ShapeStays
  BY <1>1 DEF ShapeStays, QuizInv, QuizShape
<1> QED BY <1>2, <1>3, <1>4, <1>5 DEF QuizInv, QuizShape, ShapeStays, ScreensStay

\* A change of one open, stored day that gives it a later revision.
LEMMA OneDayChanges ==
    ASSUME QuizInv, NEW d \in Dates, days[d].made, ~days[d].revealed,
           \A e \in Dates \ {d} : SameDay(e) /\ \A m \in QuizMembers : signed'[<<e, m>>] = signed[<<e, m>>],
           days'[d].made, days'[d].revision \in Nat, days'[d].revision > days[d].revision,
           GoodDate(d)', bank \subseteq bank', consent' = consent
    PROVE  DaysGrow /\ \A e \in Dates : GoodDate(e)'
<1>1. BothConsent' = BothConsent /\ BothConsent \in BOOLEAN
  BY DEF BothConsent
<1>2. \A e \in Dates : GoodDate(e)'
  BY <1>1, DateStays
<1>3. \A e \in Dates : days[e].made => days[e].revision \in Nat
  BY DEF QuizInv, GoodDate, WholeDay, IsDay
<1> QED BY <1>2, <1>3 DEF DaysGrow, SameDay

\* The row of an open, stored day.
LEMMA OpenRow ==
    ASSUME QuizInv, NEW d \in Dates, days[d].made, ~days[d].revealed
    PROVE  /\ IsDay(days[d]) /\ days[d].revision \in Nat /\ days[d].revision + 1 \in Nat
           /\ IsFiniteSet(days[d].questions) /\ Cardinality(days[d].questions) = DaySize
           /\ days[d].done \subseteq QuizMembers
           /\ DOMAIN days = Dates /\ DOMAIN drafts = Dates \X QuizMembers
           /\ DOMAIN signed = Dates \X QuizMembers
           /\ WholeDay(d) /\ DraftsFit(d) /\ Decent(d)
<1>1. GoodDate(d) /\ QuizShape
  BY DEF QuizInv
<1>2. days[d] # NoDay
  BY DEF NoDay
<1> QED BY <1>1, <1>2 DEF GoodDate, WholeDay, QuizShape, IsDay

\* Neither who is done nor what is shown changes the questions.
LEMMA SameQuestions ==
    ASSUME QuizInv, NEW d \in Dates, days[d].made, ~days[d].revealed,
           NEW row, days'[d] = row, IsDay(row), row.made, row.questions = days[d].questions,
           row.revealed => row.done = QuizMembers, bank' = bank, consent' = consent
    PROVE  WholeDay(d)' /\ Decent(d)'
<1>1. WholeDay(d) /\ Decent(d) /\ Cardinality(days[d].questions) = DaySize
  BY OpenRow
<1>2. BothConsent' = BothConsent
  BY DEF BothConsent
<1>3. WholeDay(d)'
  BY <1>1 DEF WholeDay
<1>4. Decent(d)'
  BY <1>1, <1>2 DEF Decent
<1> QED BY <1>3, <1>4

LEMMA SavedKeeps ==
    ASSUME QuizInv, NEW c, c.date \in Dates, c.member \in QuizMembers, days[c.date].made,
           SavesDraft(days[c.date], c), Saved(days[c.date], c), bank' = bank, consent' = consent
    PROVE  /\ DaysGrow /\ \A e \in Dates : GoodDate(e)'
           /\ days'[c.date].made /\ days'[c.date].revision \in Nat /\ days'[c.date].revealed \in BOOLEAN
           /\ DOMAIN days' = Dates /\ DOMAIN drafts' = Dates \X QuizMembers
           /\ DOMAIN signed' = Dates \X QuizMembers
<1> DEFINE d == c.date
           k == <<c.date, c.member>>
           old == days[d]
           mine == drafts[k]
           new == [q \in DOMAIN mine \cup c.about |-> IF q \in c.about THEN c.expected + 1 ELSE mine[q]]
<1>1. ~old.revealed /\ c.member \notin old.done /\ c.about \subseteq old.questions
  BY DEF SavesDraft, MayEdit
<1>2. /\ IsDay(old) /\ old.revision \in Nat /\ old.revision + 1 \in Nat
      /\ DOMAIN days = Dates /\ DOMAIN drafts = Dates \X QuizMembers
      /\ DOMAIN signed = Dates \X QuizMembers /\ DraftsFit(d)
  BY <1>1, OpenRow
<1>3. /\ days' = [days EXCEPT ![d] = [old EXCEPT !.revision = old.revision + 1]]
      /\ drafts' = [drafts EXCEPT ![k] = new] /\ signed' = signed
  BY DEF Saved
<1>4. k \in Dates \X QuizMembers
  OBVIOUS
<1>5. /\ drafts'[k] = new /\ \A x \in (Dates \X QuizMembers) \ {k} : drafts'[x] = drafts[x]
      /\ DOMAIN drafts' = Dates \X QuizMembers
  BY <1>2, <1>3, <1>4
<1>6. /\ days'[d] = [old EXCEPT !.revision = old.revision + 1]
      /\ \A e \in Dates \ {d} : days'[e] = days[e]
      /\ DOMAIN days' = Dates
  BY <1>2, <1>3
<1>7. IsAnswers(new) /\ DOMAIN new = DOMAIN mine \cup c.about
  BY DEF IsAnswers
<1>8. PICK row : row = days'[d]
  OBVIOUS
<1>9. \A e \in Dates \ {d} : SameDay(e) /\ \A m \in QuizMembers : signed'[<<e, m>>] = signed[<<e, m>>]
  BY <1>3, <1>5, <1>6 DEF SameDay
<1> HIDE DEF old, new, mine
<1>10. row = [made |-> old.made, revision |-> old.revision + 1, questions |-> old.questions,
             done |-> old.done, revealed |-> old.revealed]
  BY <1>2, <1>6, <1>8 DEF IsDay
<1>11. IsDay(row) /\ row.made /\ ~row.revealed /\ row.revision > old.revision /\ row.revision \in Nat
       /\ row.questions = old.questions /\ row.done = old.done
  <2>1. old.made
    BY DEF old
  <2> QED BY <1>1, <1>2, <1>10, <2>1 DEF IsDay
<1>12. WholeDay(d)' /\ Decent(d)'
  BY <1>1, <1>8, <1>11, SameQuestions DEF old
<1>13. DraftsFit(d)'
  <2> SUFFICES ASSUME NEW m \in QuizMembers
               PROVE  /\ IsAnswers(drafts'[<<d, m>>]) /\ DOMAIN drafts'[<<d, m>>] \subseteq row.questions
                      /\ m \in row.done => /\ drafts'[<<d, m>>] = signed'[<<d, m>>]
                                           /\ DOMAIN drafts'[<<d, m>>] = row.questions
    BY <1>8 DEF DraftsFit
  <2>1. /\ IsAnswers(drafts[<<d, m>>]) /\ DOMAIN drafts[<<d, m>>] \subseteq old.questions
        /\ m \in old.done => /\ drafts[<<d, m>>] = signed[<<d, m>>]
                             /\ DOMAIN drafts[<<d, m>>] = old.questions
    BY <1>2 DEF DraftsFit, old
  <2>2. CASE m = c.member
    <3>1. DOMAIN mine \subseteq old.questions
      BY <2>1, <2>2 DEF mine
    <3> QED BY <1>1, <1>5, <1>7, <1>11, <2>2, <3>1
  <2>3. CASE m # c.member
    <3>1. drafts'[<<d, m>>] = drafts[<<d, m>>]
      BY <1>5, <2>3
    <3> QED BY <1>3, <1>11, <2>1, <3>1
  <2> QED BY <2>2, <2>3
<1>14. GoodDate(d)'
  BY <1>12, <1>13 DEF GoodDate
<1>15. DaysGrow /\ \A e \in Dates : GoodDate(e)'
  BY <1>1, <1>8, <1>9, <1>11, <1>14, OneDayChanges DEF old
<1> QED BY <1>2, <1>3, <1>5, <1>6, <1>8, <1>11, <1>15 DEF IsDay

LEMMA FinishedKeeps ==
    ASSUME QuizInv, NEW c, c.date \in Dates, c.member \in QuizMembers, days[c.date].made,
           AsKnown(c.date, c.member, c.expected, c.seen),
           FinishesDay(days[c.date], c), Finished(days[c.date], c), bank' = bank, consent' = consent
    PROVE  /\ DaysGrow /\ \A e \in Dates : GoodDate(e)'
           /\ days'[c.date].made /\ days'[c.date].revision \in Nat /\ days'[c.date].revealed \in BOOLEAN
           /\ DOMAIN days' = Dates /\ DOMAIN drafts' = Dates \X QuizMembers
           /\ DOMAIN signed' = Dates \X QuizMembers
<1> DEFINE d == c.date
           k == <<c.date, c.member>>
           old == days[d]
           all == old.done \cup {c.member}
<1>1. /\ ~old.revealed /\ c.member \notin old.done /\ old.revision = c.expected
      /\ Cardinality(DOMAIN drafts[k]) = DaySize
  BY DEF FinishesDay, MayEdit, RightRevision
<1>2. /\ IsDay(old) /\ old.revision \in Nat /\ old.revision + 1 \in Nat
      /\ DOMAIN days = Dates /\ DOMAIN drafts = Dates \X QuizMembers
      /\ DOMAIN signed = Dates \X QuizMembers /\ DraftsFit(d)
      /\ IsFiniteSet(old.questions) /\ Cardinality(old.questions) = DaySize
      /\ old.done \subseteq QuizMembers
  BY <1>1, OpenRow
<1>3. /\ days' = [days EXCEPT ![d] = [old EXCEPT !.revision = old.revision + 1, !.done = all,
                                                 !.revealed = RevealedBy(all)]]
      /\ signed' = [signed EXCEPT ![k] = c.seen] /\ drafts' = drafts
  BY DEF Finished
<1>4. k \in Dates \X QuizMembers
  OBVIOUS
<1>5. /\ signed'[k] = c.seen /\ \A x \in (Dates \X QuizMembers) \ {k} : signed'[x] = signed[x]
      /\ DOMAIN signed' = Dates \X QuizMembers
  BY <1>2, <1>3, <1>4
<1>6. /\ days'[d] = [old EXCEPT !.revision = old.revision + 1, !.done = all, !.revealed = RevealedBy(all)]
      /\ \A e \in Dates \ {d} : days'[e] = days[e]
      /\ DOMAIN days' = Dates
  BY <1>2, <1>3
<1>7. c.seen = drafts[k] /\ DOMAIN drafts[k] = old.questions
  <2>1. c.seen = drafts[k]
    BY <1>1 DEF AsKnown
  <2>2. DOMAIN drafts[k] \in SUBSET old.questions
    BY <1>2 DEF DraftsFit
  <2> QED BY <1>1, <1>2, <2>1, <2>2, FS_Subset
<1>8. PICK row : row = days'[d]
  OBVIOUS
<1>9. \A e \in Dates \ {d} : SameDay(e) /\ \A m \in QuizMembers : signed'[<<e, m>>] = signed[<<e, m>>]
  BY <1>3, <1>5, <1>6 DEF SameDay
<1>10. all \subseteq QuizMembers /\ RevealedBy(all) \in BOOLEAN /\ (RevealedBy(all) => all = QuizMembers)
  BY <1>2 DEF RevealedBy
<1> HIDE DEF old, all
<1>11. row = [made |-> old.made, revision |-> old.revision + 1, questions |-> old.questions,
             done |-> all, revealed |-> RevealedBy(all)]
  BY <1>2, <1>6, <1>8 DEF IsDay
<1>12. IsDay(row) /\ row.made /\ row.revision > old.revision /\ row.revision \in Nat
       /\ row.questions = old.questions /\ row.done = all /\ (row.revealed => row.done = QuizMembers)
  <2>1. old.made
    BY DEF old
  <2> QED BY <1>1, <1>2, <1>10, <1>11, <2>1 DEF IsDay
<1>13. WholeDay(d)' /\ Decent(d)'
  BY <1>1, <1>8, <1>12, SameQuestions DEF old
<1>14. DraftsFit(d)'
  <2> SUFFICES ASSUME NEW m \in QuizMembers
               PROVE  /\ IsAnswers(drafts[<<d, m>>]) /\ DOMAIN drafts[<<d, m>>] \subseteq row.questions
                      /\ m \in row.done => /\ drafts[<<d, m>>] = signed'[<<d, m>>]
                                           /\ DOMAIN drafts[<<d, m>>] = row.questions
    BY <1>3, <1>8 DEF DraftsFit
  <2>1. /\ IsAnswers(drafts[<<d, m>>]) /\ DOMAIN drafts[<<d, m>>] \subseteq old.questions
        /\ m \in old.done => /\ drafts[<<d, m>>] = signed[<<d, m>>]
                             /\ DOMAIN drafts[<<d, m>>] = old.questions
    BY <1>2 DEF DraftsFit, old
  <2>2. CASE m = c.member
    BY <1>5, <1>7, <1>12, <2>1, <2>2
  <2>3. CASE m # c.member
    <3>1. signed'[<<d, m>>] = signed[<<d, m>>]
      BY <1>5, <2>3
    <3>2. m \in all => m \in old.done
      BY <2>3 DEF all
    <3> QED BY <1>12, <2>1, <3>1, <3>2
  <2> QED BY <2>2, <2>3
<1>15. GoodDate(d)'
  BY <1>13, <1>14 DEF GoodDate
<1>16. DaysGrow /\ \A e \in Dates : GoodDate(e)'
  BY <1>1, <1>8, <1>9, <1>12, <1>15, OneDayChanges DEF old
<1> QED BY <1>2, <1>3, <1>5, <1>6, <1>8, <1>12, <1>16 DEF IsDay

LEMMA ReopenedKeeps ==
    ASSUME QuizInv, NEW c, c.date \in Dates, c.member \in QuizMembers, days[c.date].made,
           ReopensDay(days[c.date], c), Reopened(days[c.date], c), bank' = bank, consent' = consent
    PROVE  /\ DaysGrow /\ \A e \in Dates : GoodDate(e)'
           /\ days'[c.date].made /\ days'[c.date].revision \in Nat /\ days'[c.date].revealed \in BOOLEAN
           /\ DOMAIN days' = Dates /\ DOMAIN drafts' = Dates \X QuizMembers
           /\ DOMAIN signed' = Dates \X QuizMembers
<1> DEFINE d == c.date
           old == days[d]
           less == old.done \ {c.member}
<1>1. ~old.revealed
  BY DEF ReopensDay, MayReopen
<1>2. /\ IsDay(old) /\ old.revision \in Nat /\ old.revision + 1 \in Nat
      /\ DOMAIN days = Dates /\ DOMAIN drafts = Dates \X QuizMembers
      /\ DOMAIN signed = Dates \X QuizMembers /\ DraftsFit(d)
      /\ old.done \subseteq QuizMembers
  BY <1>1, OpenRow
<1>3. /\ days' = [days EXCEPT ![d] = [old EXCEPT !.revision = old.revision + 1, !.done = less]]
      /\ signed' = signed /\ drafts' = drafts
  BY DEF Reopened
<1>4. /\ days'[d] = [old EXCEPT !.revision = old.revision + 1, !.done = less]
      /\ \A e \in Dates \ {d} : days'[e] = days[e]
      /\ DOMAIN days' = Dates
  BY <1>2, <1>3
<1>5. PICK row : row = days'[d]
  OBVIOUS
<1>6. \A e \in Dates \ {d} : SameDay(e) /\ \A m \in QuizMembers : signed'[<<e, m>>] = signed[<<e, m>>]
  BY <1>3, <1>4 DEF SameDay
<1>7. less \subseteq old.done /\ old.made
  OBVIOUS
<1> HIDE DEF old, less
<1>8. row = [made |-> old.made, revision |-> old.revision + 1, questions |-> old.questions,
             done |-> less, revealed |-> old.revealed]
  BY <1>2, <1>4, <1>5 DEF IsDay
<1>9. IsDay(row) /\ row.made /\ row.revision > old.revision /\ row.revision \in Nat
       /\ row.questions = old.questions /\ row.done = less /\ ~row.revealed
  BY <1>1, <1>2, <1>7, <1>8 DEF IsDay
<1>10. WholeDay(d)' /\ Decent(d)'
  BY <1>1, <1>5, <1>9, SameQuestions DEF old
<1>11. DraftsFit(d)'
  BY <1>2, <1>3, <1>5, <1>7, <1>9 DEF DraftsFit, old
<1>12. GoodDate(d)'
  BY <1>10, <1>11 DEF GoodDate
<1>13. DaysGrow /\ \A e \in Dates : GoodDate(e)'
  BY <1>1, <1>5, <1>6, <1>9, <1>12, OneDayChanges DEF old
<1> QED BY <1>2, <1>3, <1>4, <1>5, <1>9, <1>13 DEF IsDay

LEMMA HandleQuizKeeps == ASSUME QuizInv, NEW c \in wire, HandleQuiz(c) PROVE QuizInv'
<1> DEFINE day == days[c.date]
<1>1. /\ c.member \in QuizMembers /\ c.date \in Dates /\ day.made
      /\ c.kind = "finish" => AsKnown(c.date, c.member, c.expected, c.seen)
  BY DEF QuizInv, PhonesFresh
<1>2. Materialized(c.date) = day
  BY <1>1 DEF Materialized, NoDay
<1>3. /\ wire' \subseteq wire /\ bank' = bank /\ consent' = consent /\ customs' = customs
      /\ \/ UNCHANGED <<days, drafts, signed>>
         \/ SavesDraft(day, c) /\ Saved(day, c)
         \/ FinishesDay(day, c) /\ Finished(day, c)
         \/ ReopensDay(day, c) /\ Reopened(day, c)
      /\ reply' = [reply EXCEPT ![c.member] = ReplyFrom(c.date, days'[c.date])] \/ reply' = reply
      /\ view' = [view EXCEPT ![c.member].waits = 0] \/ view' = view
  BY <1>2 DEF HandleQuiz
<1>4. /\ DaysGrow /\ \A e \in Dates : GoodDate(e)'
      /\ days'[c.date].made /\ days'[c.date].revision \in Nat /\ days'[c.date].revealed \in BOOLEAN
      /\ DOMAIN days' = Dates /\ DOMAIN drafts' = Dates \X QuizMembers
      /\ DOMAIN signed' = Dates \X QuizMembers
  <2>1. CASE UNCHANGED <<days, drafts, signed>>
    <3>1. days' = days /\ drafts' = drafts /\ signed' = signed
      BY <2>1
    <3>2. DaysGrow /\ \A e \in Dates : GoodDate(e)'
      BY <1>3, <3>1, DaysAlone
    <3> QED BY <1>1, <3>1, <3>2 DEF QuizInv, QuizShape, GoodDate, WholeDay, IsDay
  <2>2. CASE SavesDraft(day, c) /\ Saved(day, c)
    BY <1>1, <1>3, <2>2, SavedKeeps
  <2>3. CASE FinishesDay(day, c) /\ Finished(day, c)
    <3>1. AsKnown(c.date, c.member, c.expected, c.seen)
      BY <1>1, <2>3 DEF FinishesDay
    <3> QED BY <1>1, <1>3, <2>3, <3>1, FinishedKeeps
  <2>4. CASE ReopensDay(day, c) /\ Reopened(day, c)
    BY <1>1, <1>3, <2>4, ReopenedKeeps
  <2> QED BY <1>3, <2>1, <2>2, <2>3, <2>4
<1>5. ScreensStay
  BY <1>3 DEF ScreensStay, QuizInv, QuizShape, IsView
<1>6. PhonesFresh' /\ ScreensHonest'
  BY <1>3, <1>4, <1>5, ScreensKeep
<1>7. RepliesHonest' /\ DOMAIN reply' = QuizMembers
  BY <1>1, <1>3, <1>4, RepliesAfter
<1>8. IsFiniteSet(customs') /\ \A q \in customs' : q.from = "couple"
  BY <1>3 DEF QuizInv, QuizShape
<1> QED BY <1>4, <1>5, <1>6, <1>7, <1>8 DEF QuizInv, QuizShape, ScreensStay

-----------------------------------------------------------------------------
(* Reports and consent.                                                     *)

\* An open day whose questions give way to others.
LEMMA ReplacedDate ==
    ASSUME QuizInv, NEW d \in Dates, days[d].made, ~days[d].revealed,
           NEW old, old \subseteq days[d].questions, old # {},
           NEW new, IsFiniteSet(new), new \cap days[d].questions = {},
           Cardinality(new) = Cardinality(old),
           days'[d] = Replaced(days[d], old, new),
           \A m \in QuizMembers : drafts'[<<d, m>>] =
               [p \in DOMAIN drafts[<<d, m>>] \ old |-> drafts[<<d, m>>][p]],
           bank \subseteq bank', \A q \in new : q.from = "bank" => q \in bank',
           ~BothConsent' => \A q \in (days[d].questions \ old) \cup new : ~q.intimate
    PROVE  /\ GoodDate(d)'
           /\ days'[d].made /\ days'[d].revision \in Nat /\ days'[d].revision > days[d].revision
<1>1. /\ IsDay(days[d]) /\ Cardinality(days[d].questions) = DaySize /\ WholeDay(d) /\ DraftsFit(d)
  BY OpenRow
<1>2. PICK row : row = Replaced(days[d], old, new)
  OBVIOUS
<1>3. /\ IsDay(row) /\ row.made /\ row.done = {} /\ ~row.revealed /\ row.revision > days[d].revision
      /\ row.questions = (days[d].questions \ old) \cup new /\ Cardinality(row.questions) = DaySize
  BY <1>1, <1>2, ReplacedRow
<1>4. days'[d] = row
  BY <1>2
<1>5. WholeDay(d)'
  <2>1. \A q \in row.questions : q.from = "bank" => q \in bank'
    BY <1>1, <1>3 DEF WholeDay
  <2> QED BY <1>3, <1>4, <2>1 DEF WholeDay
<1>6. DraftsFit(d)'
  <2>1. ASSUME NEW m \in QuizMembers
        PROVE  IsAnswers(drafts'[<<d, m>>]) /\ DOMAIN drafts'[<<d, m>>] \subseteq row.questions
    <3>1. drafts'[<<d, m>>] = [p \in DOMAIN drafts[<<d, m>>] \ old |-> drafts[<<d, m>>][p]]
      OBVIOUS
    <3>2. DOMAIN drafts[<<d, m>>] \subseteq days[d].questions
      BY <1>1 DEF DraftsFit
    <3> QED BY <1>3, <3>1, <3>2 DEF IsAnswers
  <2> QED BY <1>3, <1>4, <2>1 DEF DraftsFit
<1>7. Decent(d)'
  BY <1>3, <1>4 DEF Decent
<1> QED BY <1>3, <1>4, <1>5, <1>6, <1>7 DEF GoodDate, IsDay

LEMMA ReportKeeps ==
    ASSUME QuizInv, NEW d \in Dates, NEW q, Report(d, q)
    PROVE  QuizInv'
<1>1. /\ days[d] # NoDay /\ q \in days[d].questions /\ customs' = customs /\ consent' = consent
      /\ signed' = signed /\ wire' = wire /\ reply' = reply /\ view' = view
  BY DEF Report, quizPhones
<1>2. DOMAIN days = Dates /\ DOMAIN drafts = Dates \X QuizMembers
      /\ DOMAIN signed = Dates \X QuizMembers
  BY DEF QuizInv, QuizShape
<1>3. days[d].made /\ WholeDay(d) /\ Decent(d)
  BY <1>1 DEF QuizInv, GoodDate, WholeDay
<1>4. CASE UNCHANGED <<days, drafts, bank>>
  BY <1>1, <1>2, <1>4, CustomsKeep DEF QuizInv, QuizShape
<1>5. CASE ~days[d].revealed /\ ~UNCHANGED <<days, drafts, bank>>
  <2>1. PICK b \in BOOLEAN : b = (q.intimate /\ BothConsent)
    OBVIOUS
  <2>2. PICK r \in ForReported(d, days[d], b) :
            /\ days' = [days EXCEPT ![d] = Replaced(@, {q}, {r})]
            /\ drafts' = WithoutDrafts(d, {q})
            /\ bank' = bank \cup ({r} \cap BankItems(d, r.intimate))
    BY <1>5, <2>1 DEF Report, Replaceable
  <2>3. \/ r \in Candidates(d, days[d], b)
        \/ r \in BankItems(d, b) \ bank
    BY QuestionsFrom DEF ForReported
  <2>4. /\ r \notin days[d].questions /\ (r.from = "bank" => r \in bank')
        /\ ~b => ~r.intimate
    <3>1. CASE r \in Candidates(d, days[d], b)
      BY <3>1, QuestionsFrom DEF Candidates
    <3>2. CASE r \in BankItems(d, b) \ bank
      BY <1>3, <2>2, <3>2, QuestionsFrom DEF WholeDay
    <3> QED BY <2>3, <3>1, <3>2
  <2>5. /\ IsFiniteSet({q}) /\ IsFiniteSet({r}) /\ Cardinality({q}) = 1 /\ Cardinality({r}) = 1
    BY FS_Singleton
  <2>6. BothConsent' = BothConsent
    BY <1>1 DEF BothConsent
  <2>7. ~BothConsent => \A p \in (days[d].questions \ {q}) \cup {r} : ~p.intimate
    BY <1>3, <1>5, <2>1, <2>4 DEF Decent
  <2>8. /\ days'[d] = Replaced(days[d], {q}, {r}) /\ \A e \in Dates \ {d} : days'[e] = days[e]
        /\ DOMAIN days' = Dates
    BY <1>2, <2>2
  <2>9. /\ \A m \in QuizMembers :
              drafts'[<<d, m>>] = [p \in DOMAIN drafts[<<d, m>>] \ {q} |-> drafts[<<d, m>>][p]]
        /\ \A e \in Dates \ {d}, m \in QuizMembers : drafts'[<<e, m>>] = drafts[<<e, m>>]
        /\ DOMAIN drafts' = Dates \X QuizMembers
    BY <1>2, <2>2 DEF WithoutDrafts
  <2>10. bank \subseteq bank' /\ {r} \cap days[d].questions = {} /\ {q} \subseteq days[d].questions
         /\ {q} # {} /\ \A p \in {r} : p.from = "bank" => p \in bank'
    BY <1>1, <2>2, <2>4
  <2>11. /\ GoodDate(d)'
         /\ days'[d].made /\ days'[d].revision \in Nat /\ days'[d].revision > days[d].revision
    BY <1>3, <1>5, <2>5, <2>6, <2>7, <2>8, <2>9, <2>10, ReplacedDate
  <2>12. \A e \in Dates \ {d} : SameDay(e)
    BY <2>8, <2>9 DEF SameDay
  <2>13. DaysGrow /\ \A e \in Dates : GoodDate(e)'
    BY <1>1, <1>3, <1>5, <2>10, <2>11, <2>12, OneDayChanges
  <2>14. ShapeStays
    BY <1>1, <1>2, <2>8, <2>9 DEF ShapeStays, QuizInv, QuizShape
  <2> QED BY <1>1, <2>13, <2>14, ScreensUnchanged, ServerStep
<1> QED BY <1>4, <1>5 DEF Report, Replaceable

\* The substitutes of a day are as many as its intimate questions, and none of them is intimate.
LEMMA SubstitutesFit ==
    ASSUME QuizInv, NEW d \in Dates
    PROVE  /\ IsFiniteSet(Substitutes(d)) /\ Substitutes(d) \cap days[d].questions = {}
           /\ \A q \in Substitutes(d) : ~q.intimate /\ (q.from = "bank" => q \in BankItems(d, FALSE))
<1> DEFINE free == Candidates(d, days[d], FALSE)
           more == BankItems(d, FALSE) \ days[d].questions
<1>1. Substitutes(d) \subseteq free \cup more
  BY QuestionsFrom DEF Substitutes, ForRevoked
<1>2. free \subseteq GeneralOf(d) /\ free \cap days[d].questions = {}
  BY DEF Candidates
<1>3. IsFiniteSet(free) /\ IsFiniteSet(more)
  <2>1. free \subseteq Published(d) /\ more \subseteq BankItems(d, FALSE)
    BY <1>2, QuestionsFrom
  <2> QED BY <2>1, PublishedFinite, BankFinite, FS_Subset
<1> HIDE DEF free
<1>4. IsFiniteSet(Substitutes(d))
  BY <1>1, <1>3, FS_Union, FS_Subset
<1>5. \A q \in free : ~q.intimate /\ q.from = "all"
  BY <1>2, QuestionsFrom
<1>6. \A q \in more : ~q.intimate /\ q \in BankItems(d, FALSE)
  BY QuestionsFrom
<1> QED BY <1>1, <1>2, <1>4, <1>5, <1>6

LEMMA SetConsentKeeps ==
    ASSUME QuizInv, NEW m \in QuizMembers, NEW v \in BOOLEAN, SetConsent(m, v)
    PROVE  QuizInv'
<1>1. /\ customs' = customs /\ signed' = signed /\ wire' = wire /\ reply' = reply /\ view' = view
      /\ consent' = [consent EXCEPT ![m] = v]
  BY DEF SetConsent, quizPhones
<1>2. DOMAIN days = Dates /\ DOMAIN drafts = Dates \X QuizMembers
      /\ DOMAIN signed = Dates \X QuizMembers /\ \A d \in Dates : GoodDate(d)
  BY DEF QuizInv, QuizShape
<1>3. CASE v
  <2>1. days' = days /\ drafts' = drafts /\ bank' = bank
    BY <1>3 DEF SetConsent
  <2>2. BothConsent => BothConsent'
    BY <1>1, <1>3 DEF BothConsent
  <2>3. BothConsent' \/ ~BothConsent
    BY <2>2 DEF BothConsent
  <2>4. \A d \in Dates : SameDay(d)
    BY <2>1 DEF SameDay
  <2>5. \A d \in Dates : GoodDate(d)'
    BY <1>1, <2>1, <2>3, <2>4, DateStays
  <2>6. DaysGrow
    BY <1>2, <2>1, <2>4 DEF DaysGrow, GoodDate, WholeDay, IsDay
  <2>7. ShapeStays
    BY <1>1, <1>2, <2>1 DEF ShapeStays, QuizInv, QuizShape
  <2> QED BY <1>1, <2>5, <2>6, <2>7, ScreensUnchanged, ServerStep
<1>4. CASE ~v
  <2>1. /\ \A d \in RevokedDays : Creatable(d)
        /\ days' = [d \in Dates |-> IF d \in RevokedDays THEN AfterRevoking(d) ELSE days[d]]
        /\ drafts' = [k \in DOMAIN drafts |->
              IF k[1] \in RevokedDays
              THEN [p \in DOMAIN drafts[k] \ Revoked(k[1]) |-> drafts[k][p]] ELSE drafts[k]]
        /\ bank' = bank \cup UNION {days'[d].questions \cap BankItems(d, FALSE) : d \in RevokedDays}
    BY <1>4 DEF SetConsent
  <2>2. bank \subseteq bank'
        /\ \A d \in RevokedDays : days'[d].questions \cap BankItems(d, FALSE) \subseteq bank'
    BY <2>1
  <2>3. ASSUME NEW d \in Dates
        PROVE  /\ GoodDate(d)'
               /\ days[d].made =>
                     /\ days'[d].made /\ days'[d].revision \in Nat
                     /\ days'[d].revision > days[d].revision \/ SameDay(d)
                     /\ days[d].revealed => days'[d] = days[d]
    <3>0. days[d].made => days[d].revision \in Nat
      BY <1>2 DEF GoodDate, WholeDay, IsDay
    <3>1. CASE d \notin RevokedDays
      <4>1. SameDay(d)
        BY <1>2, <2>1, <3>1 DEF SameDay
      <4>2. days[d].revealed \/ \A q \in days[d].questions : ~q.intimate
        BY <3>1 DEF RevokedDays, NoDay
      <4> QED BY <1>1, <2>2, <3>0, <4>1, <4>2, DateStays DEF SameDay
    <3>2. CASE d \in RevokedDays /\ Revoked(d) = {}
      <4>1. days'[d] = days[d]
        BY <2>1, <3>2 DEF AfterRevoking
      <4>2. ASSUME NEW n \in QuizMembers PROVE drafts'[<<d, n>>] = drafts[<<d, n>>]
        <5>1. drafts'[<<d, n>>] =
                 [p \in DOMAIN drafts[<<d, n>>] \ Revoked(d) |-> drafts[<<d, n>>][p]]
          BY <1>2, <2>1, <3>2
        <5>2. drafts[<<d, n>>] = [p \in DOMAIN drafts[<<d, n>>] |-> drafts[<<d, n>>][p]]
          BY <1>2 DEF GoodDate, DraftsFit, IsAnswers
        <5>3. DOMAIN drafts[<<d, n>>] \ Revoked(d) = DOMAIN drafts[<<d, n>>]
          BY <3>2
        <5> QED BY <5>1, <5>2, <5>3
      <4>3. SameDay(d)
        BY <4>1, <4>2 DEF SameDay
      <4>4. \A q \in days[d].questions : ~q.intimate
        BY <3>2 DEF Revoked
      <4> QED BY <1>1, <2>2, <3>0, <4>3, <4>4, DateStays DEF SameDay
    <3>3. CASE d \in RevokedDays /\ Revoked(d) # {}
      <4>1. days[d].made /\ ~days[d].revealed
        BY <1>2, <3>3 DEF RevokedDays, GoodDate, WholeDay
      <4>2. /\ Revoked(d) \subseteq days[d].questions
            /\ \A q \in days[d].questions \ Revoked(d) : ~q.intimate
        BY DEF Revoked
      <4>3. /\ IsFiniteSet(Substitutes(d)) /\ Substitutes(d) \cap days[d].questions = {}
            /\ \A q \in Substitutes(d) : ~q.intimate /\ (q.from = "bank" => q \in BankItems(d, FALSE))
            /\ Cardinality(Substitutes(d)) = Cardinality(Revoked(d))
        BY <2>1, <3>3, SubstitutesFit DEF Creatable
      <4>4. days'[d] = Replaced(days[d], Revoked(d), Substitutes(d))
        BY <2>1, <3>3 DEF AfterRevoking
      <4>5. \A n \in QuizMembers : drafts'[<<d, n>>] =
               [p \in DOMAIN drafts[<<d, n>>] \ Revoked(d) |-> drafts[<<d, n>>][p]]
        BY <1>2, <2>1, <3>3
      <4>6. PICK old, new : old = Revoked(d) /\ new = Substitutes(d)
        OBVIOUS
      <4>7. days'[d].questions = (days[d].questions \ old) \cup new
        <5>1. IsDay(days[d]) /\ Cardinality(days[d].questions) = DaySize
          BY <4>1, OpenRow
        <5> QED BY <3>3, <4>2, <4>3, <4>4, <4>6, <5>1, ReplacedRow
      <4>8. \A q \in new : q.from = "bank" => q \in bank'
        BY <2>2, <3>3, <4>3, <4>6, <4>7
      <4> HIDE DEF Revoked, Substitutes
      <4>9. /\ GoodDate(d)'
            /\ days'[d].made /\ days'[d].revision \in Nat /\ days'[d].revision > days[d].revision
        BY <2>2, <3>3, <4>1, <4>2, <4>3, <4>4, <4>5, <4>6, <4>8, ReplacedDate
      <4> QED BY <4>1, <4>9
    <3> QED BY <3>1, <3>2, <3>3
  <2>4. DaysGrow /\ \A d \in Dates : GoodDate(d)'
    BY <2>3 DEF DaysGrow
  <2>5. ShapeStays
    BY <1>1, <1>2, <2>1 DEF ShapeStays, QuizInv, QuizShape
  <2> QED BY <1>1, <2>4, <2>5, ScreensUnchanged, ServerStep
<1> QED BY <1>3, <1>4

-----------------------------------------------------------------------------
(* The phones.                                                              *)

LEMMA TablesAlone ==
    ASSUME QuizInv, UNCHANGED quizTables
    PROVE  DaysGrow /\ (\A d \in Dates : GoodDate(d)') /\ ShapeStays
<1>1. /\ days' = days /\ drafts' = drafts /\ signed' = signed /\ bank' = bank /\ consent' = consent
      /\ customs' = customs
  BY DEF quizTables
<1>2. ShapeStays
  BY <1>1 DEF ShapeStays, QuizInv, QuizShape
<1> QED BY <1>1, <1>2, DaysAlone

LEMMA GiveUpKeeps == ASSUME QuizInv, NEW m \in QuizMembers, GiveUp(m) PROVE QuizInv'
<1>1. /\ UNCHANGED quizTables /\ wire' = wire /\ view' = [view EXCEPT ![m].waits = 0]
      /\ reply' = [reply EXCEPT ![m] = NoReply]
  BY DEF GiveUp
<1>2. DaysGrow /\ (\A d \in Dates : GoodDate(d)') /\ ShapeStays
  BY <1>1, TablesAlone
<1>3. ScreensStay
  BY <1>1 DEF ScreensStay, QuizInv, QuizShape, IsView
<1>4. PhonesFresh' /\ ScreensHonest'
  BY <1>1, <1>2, <1>3, ScreensKeep
<1>5. DOMAIN reply' = QuizMembers
      /\ \A n \in QuizMembers : reply'[n] = reply[n] \/ reply'[n] = NoReply
  BY <1>1 DEF QuizInv, QuizShape
<1>6. RepliesHonest'
  BY <1>2, <1>5, RepliesKeep DEF RepliesHonest
<1> QED BY <1>2, <1>3, <1>4, <1>5, <1>6 DEF QuizInv, QuizShape, ShapeStays, ScreensStay

LEMMA RenderKeeps == ASSUME QuizInv, NEW m \in QuizMembers, Render(m) PROVE QuizInv'
<1> DEFINE d == reply[m].date
           day == days[d]
           mine == [q \in DOMAIN drafts[<<d, m>>] \cap day.questions |-> drafts[<<d, m>>][q]]
           shown == [date |-> d, revision |-> reply[m].revision, revealed |-> reply[m].revealed,
                     finished |-> m \in day.done, questions |-> day.questions, mine |-> mine, waits |-> 0]
<1>1. /\ UNCHANGED quizTables /\ wire' = wire /\ reply[m] # NoReply
      /\ reply' = [reply EXCEPT ![m] = NoReply] /\ view' = [view EXCEPT ![m] = shown]
  BY DEF Render
<1>2. DaysGrow /\ (\A e \in Dates : GoodDate(e)') /\ ShapeStays
  BY <1>1, TablesAlone
<1>3. /\ d \in Dates /\ day.made /\ reply[m].revision \in Nat /\ reply[m].revision <= day.revision
      /\ reply[m].revealed => day.revealed
  BY <1>1 DEF QuizInv, RepliesHonest
<1>4. mine = drafts[<<d, m>>]
  <2>1. /\ drafts[<<d, m>>] = [q \in DOMAIN drafts[<<d, m>>] |-> drafts[<<d, m>>][q]]
        /\ DOMAIN drafts[<<d, m>>] \subseteq day.questions
    BY <1>3 DEF QuizInv, GoodDate, DraftsFit, IsAnswers
  <2>2. DOMAIN drafts[<<d, m>>] \cap day.questions = DOMAIN drafts[<<d, m>>]
    BY <2>1
  <2> QED BY <2>1, <2>2
<1>5. /\ DOMAIN view' = QuizMembers /\ view'[m] = shown
      /\ \A n \in QuizMembers \ {m} : view'[n] = view[n]
      /\ DOMAIN reply' = QuizMembers
      /\ \A n \in QuizMembers : reply'[n] = reply[n] \/ reply'[n] = NoReply
      /\ days' = days /\ drafts' = drafts
  BY <1>1 DEF QuizInv, QuizShape, quizTables
<1>6. IsView(shown) /\ shown.date = d /\ shown.revision = reply[m].revision /\ shown.mine = mine
      /\ shown.revealed = reply[m].revealed /\ shown.questions = day.questions
  BY DEF IsView
<1> HIDE DEF d, day, mine, shown
<1>7. PhonesFresh'
  <2>1. ASSUME NEW n \in QuizMembers, view'[n].date # 0
        PROVE  AsKnown(view[n].date, n, view[n].revision, view[n].mine)'
    <3>1. CASE n = m
      BY <1>3, <1>4, <1>5, <1>6, <3>1 DEF AsKnown, day
    <3>2. CASE n # m
      BY <1>5, <2>1, <3>2 DEF AsKnown, QuizInv, PhonesFresh
    <3> QED BY <3>1, <3>2
  <2>2. ASSUME NEW c \in wire'
        PROVE  /\ c.member \in QuizMembers /\ c.date \in Dates /\ days'[c.date].made
               /\ c.kind = "finish" => AsKnown(c.date, c.member, c.expected, c.seen)'
    BY <1>1, <1>5, <2>2 DEF AsKnown, QuizInv, PhonesFresh
  <2> QED BY <2>1, <2>2 DEF PhonesFresh
<1>8. ScreensHonest'
  BY <1>3, <1>5, <1>6 DEF ScreensHonest, QuizInv, day
<1>9. RepliesHonest'
  BY <1>2, <1>5, RepliesKeep DEF RepliesHonest
<1>10. \A n \in QuizMembers : IsView(view'[n])
  BY <1>5, <1>6 DEF QuizInv, QuizShape
<1> QED BY <1>2, <1>5, <1>7, <1>8, <1>9, <1>10 DEF QuizInv, QuizShape, ShapeStays

\* A request carries the day, and for a finish the answers, of the screen it was sent from.
LEMMA SendKeeps ==
    ASSUME QuizInv, NEW m \in QuizMembers, view[m].date # 0,
           NEW kind, NEW expected, NEW about, NEW answers,
           kind = "finish" => expected = view[m].revision /\ answers = view[m].mine,
           Send(m, Call(m, kind, expected, about, answers))
    PROVE  QuizInv'
<1>1. PICK c : /\ c = Call(m, kind, expected, about, answers)
               /\ UNCHANGED quizTables /\ reply' = reply
               /\ wire' = wire \cup {c} /\ view' = [view EXCEPT ![m].waits = c.op]
  BY DEF Send
<1>2. c.member = m /\ c.kind = kind /\ c.date = view[m].date /\ c.expected = expected /\ c.seen = answers
  BY <1>1 DEF Call
<1>3. DaysGrow /\ (\A d \in Dates : GoodDate(d)') /\ ShapeStays
  BY <1>1, TablesAlone
<1>4. /\ DOMAIN view' = QuizMembers
      /\ \A n \in QuizMembers : view'[n] = [view[n] EXCEPT !.waits = c.op] \/ view'[n] = view[n]
  BY <1>1 DEF QuizInv, QuizShape
<1>5. ScreensStay
  BY <1>4 DEF ScreensStay, QuizInv, QuizShape, IsView
<1>6. days' = days /\ drafts' = drafts
  BY <1>1 DEF quizTables
<1>7. AsKnown(view[m].date, m, view[m].revision, view[m].mine)
  BY DEF QuizInv, PhonesFresh
<1>8. PhonesFresh'
  <2>1. ASSUME NEW n \in QuizMembers, view'[n].date # 0
        PROVE  AsKnown(view[n].date, n, view[n].revision, view[n].mine)'
    BY <1>5, <1>6, <2>1 DEF AsKnown, QuizInv, PhonesFresh, ScreensStay
  <2>2. ASSUME NEW x \in wire'
        PROVE  /\ x.member \in QuizMembers /\ x.date \in Dates /\ days'[x.date].made
               /\ x.kind = "finish" => AsKnown(x.date, x.member, x.expected, x.seen)'
    <3>1. CASE x \in wire
      BY <1>6, <3>1 DEF AsKnown, QuizInv, PhonesFresh
    <3>2. CASE x = c
      BY <1>2, <1>6, <1>7, <3>2 DEF AsKnown
    <3> QED BY <1>1, <3>1, <3>2
  <2> QED BY <2>1, <2>2 DEF PhonesFresh
<1>9. ScreensHonest'
  BY <1>5, <1>6 DEF ScreensHonest, ScreensStay, QuizInv
<1>10. RepliesHonest'
  BY <1>1, <1>6 DEF RepliesHonest, QuizInv
<1> QED BY <1>1, <1>3, <1>5, <1>8, <1>9, <1>10 DEF QuizInv, QuizShape, ShapeStays, ScreensStay

LEMMA PhoneKeeps ==
    ASSUME QuizInv, NEW m \in QuizMembers,
           Finish(m) \/ Reopen(m) \/ \E q \in Asked : Save(m, q)
    PROVE  QuizInv'
<1>1. CASE Finish(m)
  BY <1>1, SendKeeps DEF Finish, Idle
<1>2. CASE Reopen(m)
  <2>1. "reopen" # "finish" /\ view[m].date # 0
        /\ Send(m, Call(m, "reopen", view[m].revision, {}, NoDrafts))
    BY <1>2 DEF Reopen, Idle
  <2> QED BY <2>1, SendKeeps
<1>3. CASE \E q \in Asked : Save(m, q)
  <2>1. PICK q, expected : "save" # "finish" /\ view[m].date # 0
                           /\ Send(m, Call(m, "save", expected, {q}, NoDrafts))
    BY <1>3 DEF Save, Idle
  <2> QED BY <2>1, SendKeeps
<1> QED BY <1>1, <1>2, <1>3

-----------------------------------------------------------------------------
LEMMA QuizInvInit == QuizInit => QuizInv
<1> SUFFICES ASSUME QuizInit PROVE QuizInv
  OBVIOUS
<1>1. /\ \A d \in Dates : days[d] = NoDay
      /\ \A k \in Dates \X QuizMembers : drafts[k] = NoDrafts
      /\ customs \in {{}, Written} /\ wire = {}
      /\ \A m \in QuizMembers : reply[m] = NoReply /\ view[m] = NoView
      /\ DOMAIN days = Dates /\ DOMAIN drafts = Dates \X QuizMembers
      /\ DOMAIN signed = Dates \X QuizMembers
      /\ DOMAIN view = QuizMembers /\ DOMAIN reply = QuizMembers
  BY DEF QuizInit
<1>2. QuizShape
  <2>1. IsFiniteSet(customs) /\ \A q \in customs : q.from = "couple"
    BY <1>1, QuizNumbers, FS_EmptySet
  <2>2. IsView(NoView)
    BY DEF IsView, NoView
  <2> QED BY <1>1, <2>1, <2>2 DEF QuizShape
<1>3. IsDay(NoDay) /\ NoDay.questions = {} /\ NoDay.done = {} /\ ~NoDay.revealed
  BY FS_EmptySet DEF IsDay, NoDay
<1>4. IsAnswers(NoDrafts) /\ DOMAIN NoDrafts = {}
  BY DEF IsAnswers, NoDrafts
<1>5. \A d \in Dates : GoodDate(d)
  BY <1>1, <1>3, <1>4 DEF GoodDate, WholeDay, DraftsFit, Decent
<1>6. PhonesFresh /\ RepliesHonest /\ ScreensHonest
  BY <1>1 DEF PhonesFresh, RepliesHonest, ScreensHonest, NoView
<1> QED BY <1>2, <1>5, <1>6 DEF QuizInv

LEMMA QuizInvStep == QuizInv /\ [QuizNext]_quizVars => QuizInv'
<1> SUFFICES ASSUME QuizInv, [QuizNext]_quizVars PROVE QuizInv'
  OBVIOUS
<1>1. CASE \E c \in wire : HandleQuiz(c)
  BY <1>1, HandleQuizKeeps
<1>2. ASSUME NEW m \in QuizMembers, Render(m) PROVE QuizInv'
  BY <1>2, RenderKeeps
<1>3. ASSUME NEW m \in QuizMembers, Finish(m) \/ Reopen(m) \/ \E q \in Asked : Save(m, q)
      PROVE  QuizInv'
  BY <1>3, PhoneKeeps
<1>4. ASSUME NEW m \in QuizMembers, GiveUp(m) PROVE QuizInv'
  BY <1>4, GiveUpKeeps
<1>5. ASSUME NEW m \in QuizMembers, NEW d \in Dates, Open(m, d) PROVE QuizInv'
  BY <1>5, OpenKeeps
<1>6. ASSUME NEW m \in QuizMembers, NEW v \in BOOLEAN, SetConsent(m, v) PROVE QuizInv'
  BY <1>6, SetConsentKeeps
<1>7. CASE MakeToday
  BY <1>7, MakeTodayKeeps
<1>8. CASE Tomorrow
  BY <1>8, TomorrowKeeps
<1>9. ASSUME NEW d \in Dates, NEW q \in Asked, Report(d, q) PROVE QuizInv'
  BY <1>9, ReportKeeps
<1>10. ASSUME NEW b \in BOOLEAN, CreateCustom(b) PROVE QuizInv'
  BY <1>10, CreateCustomKeeps
<1>11. ASSUME NEW q \in customs, ChangeCustom(q) PROVE QuizInv'
  BY <1>11, ChangeCustomKeeps
<1>12. CASE UNCHANGED quizVars
  <2>1. UNCHANGED quizTables /\ view' = view /\ wire' = wire /\ reply' = reply
    BY <1>12 DEF quizVars, quizTables
  <2> QED BY <2>1, TablesAlone, ScreensUnchanged, ServerStep
<1> QED
  BY <1>1, <1>2, <1>3, <1>4, <1>5, <1>6, <1>7, <1>8, <1>9, <1>10, <1>11, <1>12 DEF QuizNext

(* Whatever requests are lost, late or repeated and whatever is reported,  *)
(* withdrawn or reopened between them: a member who is finished finished   *)
(* with the answers on the screen when the request was sent, and they      *)
(* answer all that the day asks now.                                       *)
THEOREM QuizReviewed == QuizSpec => []FinishMeansReviewed
<1>1. QuizInit => QuizInv
  BY QuizInvInit
<1>2. QuizInv /\ [QuizNext]_quizVars => QuizInv'
  BY QuizInvStep
<1>3. QuizInv => FinishMeansReviewed
  BY QuizInvImplies
<1> QED BY <1>1, <1>2, <1>3, PTL DEF QuizSpec

(* Answers are shown only when both have finished, and an open day asks no *)
(* intimate question that one of the two does not agree to any more.       *)
THEOREM QuizShared == QuizSpec => []NothingUnsharedIsShown
<1>1. QuizInit => QuizInv
  BY QuizInvInit
<1>2. QuizInv /\ [QuizNext]_quizVars => QuizInv'
  BY QuizInvStep
<1>3. QuizInv => NothingUnsharedIsShown
  BY QuizInvImplies
<1> QED BY <1>1, <1>2, <1>3, PTL DEF QuizSpec
=============================================================================
