--------------------------- MODULE HostMigration ---------------------------
(***************************************************************************)
(* Moving the production stack between hosts (infra/scripts:               *)
(* direct_migration.py and the migration_*.py modules it calls).           *)
(*                                                                         *)
(* A forward run copies the legacy host to Unraid, a rollback run copies   *)
(* Unraid to a separate project on the legacy machine, and two recovery    *)
(* directions finish what an interrupted run left behind.  What survives   *)
(* the orchestrator is a one-line journal on Unraid.  The orchestrator may *)
(* crash at any step, a command may fail or take effect and lose its       *)
(* answer, and the SSH process that holds the remote lock may die.         *)
(*                                                                         *)
(* A copy is known by the number of the last write it contains.  One       *)
(* orchestrator runs at a time: both hosts' operation locks are taken      *)
(* before its first step.                                                  *)
(***************************************************************************)
EXTENDS Integers, FiniteSets

CONSTANTS
    MaxRuns,        \* migration runs; a run's number stands for its guard token
    MaxWrites,      \* bound on writes by the users
    MaxMishaps      \* bound on crashes, failed commands, lost answers and locks

ASSUME MigrationAssumption ==
    MaxRuns \in Nat /\ MaxWrites \in Nat /\ MaxMishaps \in Nat

VARIABLES
    serving,    \* hosts whose writers are running
    copy,       \* last write in each host's copy
    newest,     \* last write accepted anywhere
    journal,    \* STATE_PATH on Unraid
    op,         \* the orchestrator
    lockAlive,  \* the SSH process that holds the remote lock is alive
    stray,      \* a session is open on the frozen database
    told,       \* the phase the last finished run reported to the operator
    runs,       \* migration runs so far
    mishaps     \* mishaps so far

migrationVars ==
    <<serving, copy, newest, journal, op, lockAlive, stray, told, runs, mishaps>>

Hosts == {"legacy", "unraid", "rollback"}

\* What a root holds before and while a copy arrives, and a copy that was
\* damaged on the way.
Nothing == -1
Partial == -2
Damaged == -3

Journals ==
    [phase : {"absent", "preparing", "committed", "forward-cleaned",
              "rollback-preparing", "rollback-committed"},
     forward : 0..MaxRuns, back : 0..MaxRuns]

Absent == [phase |-> "absent", forward |-> 0, back |-> 0]

\* What a run may report of the journal.
Reports == {"none", "indeterminate", "not-started"} \union {j.phase : j \in Journals}

\* MigrationRun: the frozen flag, the ownership of the destination, the source
\* inventory before the copy and what the staging area received.
Parts == {"database", "attachments", "releases"}

Steps ==
    {"off", "check", "begin", "prepare", "freeze", "inspect", "stream",
     "attachments", "releases", "compare", "recheck", "promote", "mark", "recover",
     "clean", "restart", "complete"}

Operations ==
    [dir : {"off", "forward", "rollback", "recover-forward", "recover-rollback"},
     step : Steps, guard : 0..MaxRuns, frozen : BOOLEAN, owned : BOOLEAN,
     before : Partial..MaxWrites, staged : [Parts -> Damaged..MaxWrites],
     phase : Reports]

NoMove ==
    [dir |-> "off", step |-> "off", guard |-> 0, frozen |-> FALSE, owned |-> FALSE,
     before |-> Nothing, staged |-> [part \in Parts |-> Nothing], phase |-> "none"]

Source == IF op.dir \in {"forward", "recover-forward"} THEN "legacy" ELSE "unraid"

Destination == IF op.dir = "forward" THEN "unraid" ELSE "rollback"

MigrationInit ==
    /\ serving = {"legacy"}
    /\ copy = [h \in Hosts |-> IF h = "legacy" THEN 0 ELSE Nothing]
    /\ newest = 0
    /\ journal = Absent
    /\ op = NoMove
    /\ lockAlive = FALSE
    /\ stray = FALSE
    /\ told = "none"
    /\ runs = 0
    /\ mishaps = 0

-----------------------------------------------------------------------------
(* The orchestrator's skeleton. *)

\* The operator runs the script: the locks of both hosts are taken first.
StartRun(dir) ==
    /\ op = NoMove
    /\ dir \in {"forward", "rollback"} => runs < MaxRuns
    /\ op' = [NoMove EXCEPT !.dir = dir,
                           !.step = IF dir \in {"forward", "rollback"}
                                    THEN "check" ELSE "recover"]
    /\ lockAlive' = TRUE
    /\ told' = "none"
    /\ UNCHANGED <<serving, copy, newest, journal, stray, runs, mishaps>>

\* The run ends with a report and gives up its locks.
EndRun(phase) ==
    /\ op' = NoMove
    /\ lockAlive' = FALSE
    /\ told' = phase

Proceed(next) == op' = [op EXCEPT !.step = next] /\ UNCHANGED <<lockAlive, told>>

\* An exception sends a migration to recover_failure.
Fail == Proceed("recover")

Mishap == mishaps < MaxMishaps /\ mishaps' = mishaps + 1

\* A command fails before it takes effect, at any step.
CommandFails ==
    /\ op.step \notin {"off", "check", "recover", "clean", "restart", "complete"}
    /\ Mishap
    /\ Fail
    /\ UNCHANGED <<serving, copy, newest, journal, stray, runs>>

\* The orchestrator dies; the remote lock goes with its SSH process.
OrchestratorDies ==
    /\ op # NoMove
    /\ Mishap
    /\ EndRun("none")
    /\ UNCHANGED <<serving, copy, newest, journal, stray, runs>>

LockDies ==
    /\ lockAlive
    /\ Mishap
    /\ lockAlive' = FALSE
    /\ UNCHANGED <<serving, copy, newest, journal, op, stray, told, runs>>

\* A command that took effect goes on, or its answer is lost.
EffectThen(next) == \/ Proceed(next) /\ UNCHANGED mishaps
                    \/ Fail /\ Mishap

\* A remote command is admitted only while the holder of its token lives.
Reachable == lockAlive
-----------------------------------------------------------------------------
(* A migration, forward or back. *)

\* Preflight: every writer of the source is running, and a rollback finds the
\* old project stopped and its own project unused.  A rejected run has nothing
\* to undo.
Preflight ==
    /\ Source \in serving
    /\ op.dir = "rollback" => "legacy" \notin serving /\ copy["rollback"] = Nothing

Check ==
    /\ op.step = "check"
    /\ IF Preflight
       THEN /\ runs < MaxRuns
            /\ runs' = runs + 1
            /\ op' = [op EXCEPT !.step = "begin", !.guard = runs + 1]
            /\ UNCHANGED <<lockAlive, told>>
       ELSE EndRun("none") /\ UNCHANGED runs
    /\ UNCHANGED <<serving, copy, newest, journal, stray, mishaps>>

FreshTarget == journal = Absent /\ copy["unraid"] = Nothing

\* The target is proven unused and the journal claims it for this run.
BeginFreshTarget ==
    /\ op.step = "begin" /\ op.dir = "forward"
    /\ IF Reachable /\ FreshTarget
       THEN /\ journal' = [phase |-> "preparing", forward |-> op.guard, back |-> 0]
            /\ EffectThen("prepare")
       ELSE Fail /\ UNCHANGED <<journal, mishaps>>
    /\ UNCHANGED <<serving, copy, newest, stray, runs>>

\* The rollback is journalled before the local destination is touched; the run
\* owns that destination only once it has the answer.
BeginRollback ==
    /\ op.step = "begin" /\ op.dir = "rollback"
    /\ IF Reachable /\ journal.phase = "committed"
       THEN /\ journal' = [journal EXCEPT !.phase = "rollback-preparing",
                                          !.back = op.guard]
            /\ \/ /\ op' = [op EXCEPT !.step = "prepare", !.owned = TRUE]
                  /\ UNCHANGED <<lockAlive, told, mishaps>>
               \/ Fail /\ Mishap
       ELSE Fail /\ UNCHANGED <<journal, mishaps>>
    /\ UNCHANGED <<serving, copy, newest, stray, runs>>

\* The destination's database and staging directories are created.
Prepare ==
    /\ op.step = "prepare"
    /\ copy' = [copy EXCEPT ![Destination] = Partial]
    /\ EffectThen("freeze")
    /\ UNCHANGED <<serving, newest, journal, stray, runs>>

\* The source's writers are stopped; a failed command may have stopped them.
Freeze ==
    /\ op.step = "freeze"
    /\ \/ /\ serving' = serving \ {Source}
          /\ op' = [op EXCEPT !.frozen = TRUE, !.step = "inspect"]
          /\ UNCHANGED mishaps
       \/ /\ serving' \in {serving, serving \ {Source}}
          /\ op' = [op EXCEPT !.frozen = TRUE, !.step = "recover"]
          /\ Mishap
    /\ UNCHANGED <<copy, newest, journal, lockAlive, stray, told, runs>>

\* Row counts and digests of the source stand for what it contains.
SourceInventory == copy[Source]

\* No session but the orchestrator's own is open on the source.
Quiet == ~stray

\* No open session and no AI work, then the inventory of the source.
Inspect ==
    /\ op.step = "inspect"
    /\ IF Quiet
       THEN /\ op' = [op EXCEPT !.step = "stream", !.before = SourceInventory]
            /\ UNCHANGED <<lockAlive, told>>
       ELSE Fail
    /\ UNCHANGED <<serving, copy, newest, journal, stray, runs, mishaps>>

\* One part of the source goes into staging as it is now, or arrives damaged.
Receive(part, next) ==
    /\ \/ /\ op' = [op EXCEPT !.step = next, !.staged[part] = SourceInventory]
          /\ UNCHANGED mishaps
       \/ /\ op' = [op EXCEPT !.step = next, !.staged[part] = Damaged]
          /\ Mishap
    /\ UNCHANGED <<serving, copy, newest, journal, lockAlive, stray, told, runs>>

\* A complete dump is restored into the empty database of the destination.
StreamDatabase == op.step = "stream" /\ Receive("database", "attachments")

StreamAttachments == op.step = "attachments" /\ Receive("attachments", "releases")

\* The releases follow, and the staged trees are sealed.
StreamReleases == op.step = "releases" /\ Receive("releases", "compare")

\* Mutant: the staged copy is accepted unseen.
StagedMatchesUnseen == TRUE

StagedMatches == \A part \in Parts : op.staged[part] = op.before

Compare ==
    /\ op.step = "compare"
    /\ IF StagedMatches THEN Proceed("recheck") ELSE Fail
    /\ UNCHANGED <<serving, copy, newest, journal, stray, runs, mishaps>>

\* Mutant: the source's inventory is not taken again.
SourceUnchangedAssumed == TRUE

SourceUnchanged == SourceInventory = op.before

Recheck ==
    /\ op.step = "recheck"
    /\ IF Quiet /\ SourceUnchanged THEN Proceed("promote") ELSE Fail
    /\ UNCHANGED <<serving, copy, newest, journal, stray, runs, mishaps>>

\* One remote command renames the staged trees and commits the journal.
PromoteRemote ==
    /\ op.step = "promote" /\ op.dir = "forward"
    /\ IF Reachable /\ journal = [phase |-> "preparing", forward |-> op.guard, back |-> 0]
       THEN /\ copy' = [copy EXCEPT !["unraid"] = op.staged["database"]]
            /\ journal' = [journal EXCEPT !.phase = "committed"]
            /\ \/ EndRun("committed") /\ UNCHANGED mishaps
               \/ Fail /\ Mishap
       ELSE Fail /\ UNCHANGED <<copy, journal, mishaps>>
    /\ UNCHANGED <<serving, newest, stray, runs>>

\* The local rename of a rollback, with the lock checked before it.
PromoteLocal ==
    /\ op.step = "promote" /\ op.dir = "rollback"
    /\ IF lockAlive
       THEN copy' = [copy EXCEPT !["rollback"] = op.staged["database"]] /\ EffectThen("mark")
       ELSE Fail /\ UNCHANGED <<copy, mishaps>>
    /\ UNCHANGED <<serving, newest, journal, stray, runs>>

MarkRollbackCommitted ==
    /\ op.step = "mark"
    /\ IF Reachable /\ journal.phase = "rollback-preparing" /\ journal.back = op.guard
       THEN /\ journal' = [journal EXCEPT !.phase = "rollback-committed"]
            /\ \/ EndRun("rollback-committed") /\ UNCHANGED mishaps
               \/ Fail /\ Mishap
       ELSE Fail /\ UNCHANGED <<journal, mishaps>>
    /\ UNCHANGED <<serving, copy, newest, stray, runs>>

-----------------------------------------------------------------------------
(* recover_failure: what a run does after its own exception. *)

\* The writers come back only behind a destination that was made safe.
AfterRecovery(phase, safe) ==
    IF op.frozen /\ safe
    THEN op' = [op EXCEPT !.step = "restart", !.phase = phase] /\ UNCHANGED told
    ELSE op' = NoMove /\ told' = phase

\* Mutant: the cleaned target leaves no journal entry.
TornDownForgotten == Absent

TornDown == [journal EXCEPT !.phase = "forward-cleaned"]

Mine == journal.forward = op.guard /\ journal.back = 0

SafeOutcomes == {"absent", "forward-cleaned"}

\* The phases recover_failed_target recognises as this run's.
ForwardOutcome ==
    CASE journal = Absent -> "absent"
      [] Mine /\ journal.phase = "committed" -> "committed"
      [] Mine /\ journal.phase \in {"preparing", "forward-cleaned"} -> "forward-cleaned"
      [] OTHER -> "indeterminate"

\* A target this run was preparing is erased in the command that classifies it.
\* Under a dead holder the same command takes the ordinary lock, and its result
\* is never safe.
RecoverForward ==
    /\ op.step = "recover" /\ op.dir = "forward"
    /\ \/ /\ IF ForwardOutcome = "forward-cleaned" /\ journal.phase = "preparing"
             THEN /\ copy' = [copy EXCEPT !["unraid"] = Nothing]
                  /\ journal' = TornDown
             ELSE UNCHANGED <<copy, journal>>
          /\ \/ /\ AfterRecovery(ForwardOutcome,
                                 lockAlive /\ ForwardOutcome \in SafeOutcomes)
                /\ UNCHANGED mishaps
             \/ AfterRecovery("indeterminate", FALSE) /\ Mishap
       \/ /\ AfterRecovery("indeterminate", FALSE) /\ Mishap
          /\ UNCHANGED <<copy, journal>>
    /\ lockAlive' = (lockAlive /\ op' # NoMove)
    /\ UNCHANGED <<serving, newest, stray, runs>>

\* The journal says whether this run's rollback was committed.
RollbackOutcome ==
    CASE journal.phase \in {"rollback-preparing", "rollback-committed"}
              /\ journal.back = op.guard -> journal.phase
      [] journal.phase = "committed" -> "committed"
      [] OTHER -> "indeterminate"

RecoverRollback ==
    /\ op.step = "recover" /\ op.dir = "rollback"
    /\ IF ~op.owned THEN EndRun("not-started") /\ UNCHANGED mishaps
       ELSE \/ /\ lockAlive /\ RollbackOutcome = "rollback-preparing"
               /\ op' = [op EXCEPT !.step = "clean", !.phase = RollbackOutcome]
               /\ UNCHANGED <<lockAlive, told, mishaps>>
            \/ /\ lockAlive /\ RollbackOutcome # "rollback-preparing"
               /\ EndRun(RollbackOutcome) /\ UNCHANGED mishaps
            \/ ~lockAlive /\ EndRun("indeterminate") /\ UNCHANGED mishaps
            \/ lockAlive /\ EndRun("indeterminate") /\ Mishap
    /\ UNCHANGED <<serving, copy, newest, journal, stray, runs>>

\* clean_rollback_destination: containers, volume and staged trees go; a failed
\* removal leaves part of them.
Clean ==
    /\ op.step = "clean"
    /\ \/ /\ copy' = [copy EXCEPT !["rollback"] = Nothing]
          /\ serving' = serving \ {"rollback"}
          /\ IF op.dir = "rollback"
             THEN AfterRecovery(op.phase, TRUE) /\ lockAlive' = (lockAlive /\ op' # NoMove)
             ELSE Proceed("restart")
          /\ UNCHANGED mishaps
       \/ /\ copy' = [copy EXCEPT !["rollback"] = IF @ = Nothing THEN @ ELSE Partial]
          /\ serving' = serving \ {"rollback"}
          /\ EndRun("none") /\ Mishap
    /\ UNCHANGED <<newest, journal, stray, runs>>

\* The existing containers are started and must become healthy; a restart that
\* is reported as failed may have started them.
Restart ==
    /\ op.step = "restart"
    /\ \/ /\ Source = "unraid" => Reachable
          /\ serving' = serving \union {Source}
          /\ Proceed("complete")
          /\ UNCHANGED mishaps
       \/ /\ Source = "unraid" /\ ~Reachable
          /\ EndRun("none") /\ UNCHANGED <<serving, mishaps>>
       \/ /\ serving' \in {serving, serving \union {Source}}
          /\ Source = "unraid" => Reachable
          /\ EndRun("none") /\ Mishap
    /\ UNCHANGED <<copy, newest, journal, stray, runs>>

\* What the journal becomes once the source is healthy again.
Completed ==
    CASE op.phase = "forward-cleaned" -> Absent
      [] op.phase = "rollback-preparing" ->
             [journal EXCEPT !.phase = "committed", !.back = 0]
      [] OTHER -> journal

\* Only the entry that was recovered is completed, by its token or its phase.
Completable ==
    /\ Reachable
    /\ journal.phase = op.phase
    /\ op.dir = "forward" => journal.forward = op.guard
    /\ op.dir = "rollback" => journal.back = op.guard

CompleteJournal ==
    /\ op.step = "complete"
    /\ \/ /\ journal' = IF Completable THEN Completed ELSE journal
          /\ EndRun(IF Completable THEN Completed.phase ELSE "none")
          /\ UNCHANGED mishaps
       \/ /\ Mishap /\ EndRun("none")
          /\ journal' \in {journal, IF Completable THEN Completed ELSE journal}
    /\ UNCHANGED <<serving, copy, newest, stray, runs>>
-----------------------------------------------------------------------------
(* The two recovery directions, run by the operator after a crash. *)

\* A journal that is not a forward one is refused.
AdoptForward ==
    /\ op.step = "recover" /\ op.dir = "recover-forward"
    /\ LET cleans == journal.phase \in {"preparing", "forward-cleaned"}
       IN  IF ~Reachable \/ journal.phase \notin
                  {"absent", "preparing", "committed", "forward-cleaned"}
           THEN EndRun("none") /\ UNCHANGED <<copy, journal, mishaps>>
           ELSE /\ IF journal.phase = "preparing"
                   THEN /\ copy' = [copy EXCEPT !["unraid"] = Nothing]
                        /\ journal' = TornDown
                   ELSE UNCHANGED <<copy, journal>>
                /\ \/ /\ IF cleans
                         THEN /\ op' = [op EXCEPT !.step = "restart",
                                                  !.phase = "forward-cleaned"]
                              /\ UNCHANGED <<lockAlive, told>>
                         ELSE EndRun(journal.phase)
                      /\ UNCHANGED mishaps
                   \/ EndRun("none") /\ Mishap
    /\ UNCHANGED <<serving, newest, stray, runs>>

\* Phases in which the rollback destination is erased and Unraid started again.
RollbackToUndo == {"committed", "rollback-preparing"}

AdoptRollback ==
    /\ op.step = "recover" /\ op.dir = "recover-rollback"
    /\ \/ /\ Reachable /\ journal.phase = "rollback-committed"
          /\ journal.phase \notin RollbackToUndo
          /\ EndRun("rollback-committed")
       \/ /\ Reachable /\ journal.phase \in RollbackToUndo /\ "legacy" \notin serving
          /\ op' = [op EXCEPT !.step = "clean", !.phase = journal.phase]
          /\ UNCHANGED <<lockAlive, told>>
       \/ /\ \/ ~Reachable
             \/ journal.phase \notin RollbackToUndo \union {"rollback-committed"}
             \/ journal.phase \in RollbackToUndo /\ "legacy" \in serving
          /\ EndRun("none")
    /\ UNCHANGED <<serving, copy, newest, journal, stray, runs, mishaps>>
-----------------------------------------------------------------------------
(* External: the users, a forgotten session and the operator. *)

\* A running stack accepts a write.
AcceptWrite(h) ==
    /\ h \in serving /\ newest < MaxWrites /\ copy[h] >= 0
    /\ newest' = newest + 1
    /\ copy' = [copy EXCEPT ![h] = newest + 1]
    /\ UNCHANGED <<serving, journal, op, lockAlive, stray, told, runs, mishaps>>

CopySteps == {"inspect", "stream", "attachments", "releases", "compare", "recheck"}

\* A session on the frozen source opens before the final check, writes and closes.
StraySession ==
    /\ op.step \in CopySteps
    /\ \/ ~stray /\ op.step # "recheck" /\ Mishap /\ stray' = TRUE
          /\ UNCHANGED <<copy, newest>>
       \/ stray /\ stray' = FALSE /\ UNCHANGED <<copy, newest, mishaps>>
       \/ /\ stray /\ newest < MaxWrites /\ copy[Source] >= 0
          /\ newest' = newest + 1
          /\ copy' = [copy EXCEPT ![Source] = newest + 1]
          /\ UNCHANGED <<stray, mishaps>>
    /\ UNCHANGED <<serving, journal, op, lockAlive, told, runs>>

StrayGone ==
    /\ stray /\ op.step \notin CopySteps
    /\ stray' = FALSE
    /\ UNCHANGED <<serving, copy, newest, journal, op, lockAlive, told, runs, mishaps>>

\* The operator starts the destination a report calls committed.
StartDestination ==
    /\ op = NoMove
    /\ \/ told = "committed" /\ serving' = serving \union {"unraid"}
       \/ told = "rollback-committed" /\ serving' = serving \union {"rollback"}
    /\ serving' # serving
    /\ UNCHANGED <<copy, newest, journal, op, lockAlive, stray, told, runs, mishaps>>

Orchestrate ==
    \/ Check \/ BeginFreshTarget \/ BeginRollback \/ Prepare \/ Freeze \/ Inspect
    \/ StreamDatabase \/ StreamAttachments \/ StreamReleases \/ Compare \/ Recheck
    \/ PromoteRemote \/ PromoteLocal \/ MarkRollbackCommitted \/ RecoverForward \/ RecoverRollback \/ Clean
    \/ Restart \/ CompleteJournal \/ AdoptForward \/ AdoptRollback

MigrationNext ==
    \/ \E dir \in {"forward", "rollback", "recover-forward", "recover-rollback"} :
          StartRun(dir)
    \/ Orchestrate
    \/ CommandFails \/ OrchestratorDies \/ LockDies
    \/ \E h \in Hosts : AcceptWrite(h)
    \/ StraySession \/ StrayGone \/ StartDestination

MigrationSpec == MigrationInit /\ [][MigrationNext]_migrationVars

\* A run that does not fail goes on, and the operator recovers what an
\* interrupted run left and starts what was reported committed.
MigrationFairness ==
    /\ WF_migrationVars(Orchestrate)
    /\ SF_migrationVars(StartRun("recover-forward") /\ serving = {})
    /\ SF_migrationVars(StartRun("recover-rollback") /\ serving = {})
    /\ SF_migrationVars(StartDestination)
    /\ WF_migrationVars(StrayGone)

MigrationFairSpec == MigrationSpec /\ MigrationFairness
-----------------------------------------------------------------------------
\* Every variable has its type.
MigrationTypeOK ==
    /\ serving \subseteq Hosts
    /\ copy \in [Hosts -> Partial..MaxWrites]
    /\ newest \in 0..MaxWrites
    /\ journal \in Journals
    /\ op \in Operations
    /\ lockAlive \in BOOLEAN /\ stray \in BOOLEAN
    /\ told \in Reports
    /\ runs \in 0..MaxRuns /\ mishaps \in 0..MaxMishaps

\* A stack that accepts writes holds every write accepted before: whatever
\* fails, no stale copy is started (restart_source_writers, the operator).
ServingIsCurrent == \A h \in serving : copy[h] = newest

\* Two stacks never accept writes at the same time.
OneServer == Cardinality(serving) <= 1

\* Some complete copy of the newest data survives every teardown and clean-up
\* (_teardown_commands, clean_rollback_destination).
NewestCopyKept == \E h \in Hosts : copy[h] = newest

\* After every interruption some stack serves again.
ServiceReturns == []<>(serving # {})

\* However runs, commands, the remote lock and the orchestrator fail, at most one
\* stack accepts writes, it has every earlier write, and a complete newest copy
\* exists somewhere (direct_migration.py, migration_recovery.py).
OneCurrentServer == OneServer /\ ServingIsCurrent /\ NewestCopyKept
=============================================================================
