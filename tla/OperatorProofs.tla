--------------------------- MODULE OperatorProofs ---------------------------
(***************************************************************************)
(* What the operators rely on, for every bound: OneCurrentServer while the *)
(* service moves between hosts, and AdminAccessIsProven at the console.    *)
(*                                                                         *)
(* The move: the journal alone says which host holds every write (Home),   *)
(* whatever became of the orchestrator.  Only the home host may run, and the*)
(* home moves only in the two commands that commit the journal, when nobody*)
(* runs and the new home holds what the old one does.                      *)
(*                                                                         *)
(* The console: a setup enables the factor exactly when there was none, a  *)
(* secret still to come has accepted no code, and the row remembers the    *)
(* codes of the secret in force.  That the device of a live session lives  *)
(* is kept by each of the ways a device is staged, approved and revoked.   *)
(***************************************************************************)
EXTENDS HostMigration, AdminDevices, FiniteSetTheorems, SequenceTheorems, TLAPS

\* The host that holds every accepted write, as the journal tells it.
Home ==
    IF journal.phase \in {"absent", "preparing", "forward-cleaned"} THEN "legacy"
    ELSE IF journal.phase \in {"committed", "rollback-preparing"} THEN "unraid"
    ELSE "rollback"

\* Nothing but the home runs, and it is current.
HomeIsCurrent == serving \subseteq {Home} /\ copy[Home] = newest

\* A report that lets the operator start a destination is still what the journal says.
ReportsAreTrue ==
    told \in {"committed", "rollback-committed"} => op = NoMove /\ journal.phase = told

FrozenSteps == CopySteps \cup {"promote", "mark"}
CopyingSteps == {"prepare", "freeze"} \cup FrozenSteps

\* A run that copies has its journal entry, and one that erases or restarts has read it.
RunsAreJournalled ==
    /\ op.step \in CopyingSteps \cup {"check", "begin"} => op.dir \in {"forward", "rollback"}
    /\ op.step \in CopyingSteps =>
          journal.phase = IF op.dir = "forward" THEN "preparing" ELSE "rollback-preparing"
    /\ op.step = "mark" => op.dir = "rollback"
    /\ op.step = "clean" => /\ op.dir \in {"rollback", "recover-rollback"}
                            /\ Home = "unraid" /\ op.phase = journal.phase
    /\ op.step = "restart" => Source = Home

\* From the freeze to the commit nobody runs.
SourceIsFrozen == op.step \in FrozenSteps => serving = {}

\* What is promoted is what the source holds.
StagedIsSource ==
    /\ op.step \in {"recheck", "promote"} => StagedMatches
    /\ op.step = "promote" => copy[Source] = op.before
    /\ op.step = "mark" => copy["rollback"] = newest

HostInv ==
    /\ MigrationTypeOK
    /\ HomeIsCurrent /\ ReportsAreTrue
    /\ RunsAreJournalled /\ SourceIsFrozen /\ StagedIsSource

-----------------------------------------------------------------------------
(* The orchestrator's record, one field at a time.                         *)

Phases == {"absent", "preparing", "committed", "forward-cleaned",
           "rollback-preparing", "rollback-committed"}

\* The phases of a journal are the six named ones.
LEMMA PhasesNamed ==
    /\ Phases = {j.phase : j \in Journals}
    /\ Reports = Phases \cup {"none", "indeterminate", "not-started"}
<1>1. ASSUME NEW p \in Phases PROVE p \in {j.phase : j \in Journals}
  <2>1. [phase |-> p, forward |-> 0, back |-> 0] \in Journals
    BY <1>1, MigrationAssumption DEF Journals, Phases
  <2> QED
    BY <2>1
<1>2. {j.phase : j \in Journals} \subseteq Phases
  BY DEF Journals, Phases
<1> QED
  BY <1>1, <1>2 DEF Reports

\* The fields the invariant reads beside the step.
SameRun(o, n) ==
    n.dir = o.dir /\ n.before = o.before /\ n.staged = o.staged /\ n.guard = o.guard

\* An update of the step.
LEMMA StepSet ==
    ASSUME NEW o \in Operations, NEW s \in Steps
    PROVE  LET n == [o EXCEPT !.step = s]
           IN  n \in Operations /\ n.step = s /\ SameRun(o, n)
BY DEF Operations, SameRun

\* An update of a field that leaves the step alone.
LEMMA PhaseSet ==
    ASSUME NEW o \in Operations, NEW p \in Reports
    PROVE  LET n == [o EXCEPT !.phase = p]
           IN  n \in Operations /\ n.step = o.step /\ n.phase = p /\ SameRun(o, n)
BY DEF Operations, SameRun

LEMMA FlagsSet ==
    ASSUME NEW o \in Operations, NEW b \in BOOLEAN
    PROVE  /\ LET n == [o EXCEPT !.owned = b]
              IN  n \in Operations /\ n.step = o.step /\ SameRun(o, n)
           /\ LET n == [o EXCEPT !.frozen = b]
              IN  n \in Operations /\ n.step = o.step /\ SameRun(o, n)
BY DEF Operations, SameRun

LEMMA GuardSet ==
    ASSUME NEW o \in Operations, NEW g \in 0..MaxRuns
    PROVE  LET n == [o EXCEPT !.guard = g]
           IN  n \in Operations /\ n.step = o.step /\ n.dir = o.dir
BY DEF Operations

LEMMA BeforeSet ==
    ASSUME NEW o \in Operations, NEW v \in Partial..MaxWrites
    PROVE  LET n == [o EXCEPT !.before = v]
           IN  n \in Operations /\ n.step = o.step /\ n.dir = o.dir
BY DEF Operations

LEMMA StagedSet ==
    ASSUME NEW o \in Operations, NEW part \in Parts, NEW v \in Damaged..MaxWrites
    PROVE  LET n == [o EXCEPT !.staged[part] = v]
           IN  n \in Operations /\ n.step = o.step /\ n.dir = o.dir
BY DEF Operations

\* No run.
LEMMA NoMoveTyped == NoMove \in Operations /\ NoMove.step = "off" /\ NoMove.dir = "off"
BY MigrationAssumption DEF NoMove, Operations, Reports, Steps, Nothing, Partial, Damaged, Parts

-----------------------------------------------------------------------------
(* What most steps have in common.                                         *)

\* The types of everything but the orchestrator.
WorldTyped ==
    /\ serving \subseteq Hosts
    /\ copy \in [Hosts -> Partial..MaxWrites] /\ newest \in 0..MaxWrites
    /\ journal \in Journals /\ stray \in BOOLEAN
    /\ runs \in 0..MaxRuns /\ mishaps \in 0..MaxMishaps

\* A mishap keeps its counter in bounds.
LEMMA MishapTyped ==
    ASSUME HostInv, Mishap \/ UNCHANGED mishaps
    PROVE  mishaps' \in 0..MaxMishaps
BY MigrationAssumption DEF HostInv, MigrationTypeOK, Mishap

\* While a run is under way there is no report.
LEMMA NoReport ==
    ASSUME HostInv, op.step # "off"
    PROVE  told \notin {"committed", "rollback-committed"}
BY NoMoveTyped DEF HostInv, ReportsAreTrue

\* A run that ends leaves only the home and a true report behind.
LEMMA Stopped ==
    ASSUME HostInv, NEW p \in Reports, op' = NoMove, told' = p, lockAlive' \in BOOLEAN,
           WorldTyped', HomeIsCurrent',
           p \in {"committed", "rollback-committed"} => journal'.phase = p
    PROVE  HostInv'
<1>2. op'.step = "off" /\ op' \in Operations
  BY NoMoveTyped
<1>3. MigrationTypeOK'
  BY <1>2 DEF MigrationTypeOK, WorldTyped
<1>4. ReportsAreTrue'
  BY DEF ReportsAreTrue
<1>5. RunsAreJournalled' /\ SourceIsFrozen' /\ StagedIsSource'
  BY <1>2 DEF RunsAreJournalled, SourceIsFrozen, StagedIsSource, CopyingSteps, FrozenSteps,
              CopySteps
<1> QED
  BY <1>3, <1>4, <1>5 DEF HostInv

LEMMA Ended ==
    ASSUME HostInv, NEW p \in Reports, EndRun(p), WorldTyped', HomeIsCurrent',
           p \in {"committed", "rollback-committed"} => journal'.phase = p
    PROVE  HostInv'
BY Stopped DEF EndRun

LEMMA EndedSilently ==
    ASSUME HostInv, EndRun("none"), WorldTyped', HomeIsCurrent'
    PROVE  HostInv'
<1>1. "none" \in Reports /\ "none" \notin {"committed", "rollback-committed"}
  BY DEF Reports
<1> QED
  BY <1>1, Ended

\* A run that goes on.
LEMMA GoesOn ==
    ASSUME HostInv, op.step # "off", op' \in Operations, lockAlive' \in BOOLEAN, told' = told,
           WorldTyped'
    PROVE  MigrationTypeOK' /\ ReportsAreTrue'
<1>1. ReportsAreTrue'
  BY NoReport DEF ReportsAreTrue
<1>2. MigrationTypeOK'
  BY DEF HostInv, MigrationTypeOK, WorldTyped
<1> QED
  BY <1>1, <1>2

\* A run that goes on to recover or to complete the journal.
LEMMA GoesToSafety ==
    ASSUME HostInv, op.step # "off", op' \in Operations, op'.step \in {"recover", "complete"},
           lockAlive' \in BOOLEAN, told' = told, WorldTyped', HomeIsCurrent'
    PROVE  HostInv'
<1>1. MigrationTypeOK' /\ ReportsAreTrue'
  BY GoesOn
<1>2. RunsAreJournalled' /\ SourceIsFrozen' /\ StagedIsSource'
  BY DEF RunsAreJournalled, SourceIsFrozen, StagedIsSource, CopyingSteps, FrozenSteps, CopySteps
<1> QED
  BY <1>1, <1>2 DEF HostInv

LEMMA Failed ==
    ASSUME HostInv, op.step # "off", Fail, WorldTyped', HomeIsCurrent'
    PROVE  HostInv'
<1>1. op' = [op EXCEPT !.step = "recover"] /\ lockAlive' = lockAlive /\ told' = told
  BY DEF Fail, Proceed
<1>2. op' \in Operations /\ op'.step = "recover"
  BY <1>1, StepSet DEF HostInv, MigrationTypeOK, Steps
<1> QED
  BY <1>1, <1>2, GoesToSafety DEF HostInv, MigrationTypeOK

LEMMA Proceeds ==
    ASSUME HostInv, op.step # "off", NEW s \in Steps, Proceed(s), WorldTyped'
    PROVE  /\ MigrationTypeOK' /\ ReportsAreTrue'
           /\ op'.step = s /\ SameRun(op, op')
<1>1. op' = [op EXCEPT !.step = s] /\ lockAlive' = lockAlive /\ told' = told
  BY DEF Proceed
<1>2. op' \in Operations /\ op'.step = s /\ SameRun(op, op')
  BY <1>1, StepSet DEF HostInv, MigrationTypeOK
<1> QED
  BY <1>1, <1>2, GoesOn DEF HostInv, MigrationTypeOK

\* Where nothing but the orchestrator moves, the world is as it was.
LEMMA WorldStays ==
    ASSUME HostInv, UNCHANGED <<serving, copy, newest, journal>>, stray' \in BOOLEAN,
           runs' \in 0..MaxRuns, mishaps' \in 0..MaxMishaps
    PROVE  WorldTyped' /\ HomeIsCurrent' /\ Home' = Home
BY DEF HostInv, MigrationTypeOK, WorldTyped, HomeIsCurrent, Home

-----------------------------------------------------------------------------
(* One lemma per action.                                                   *)

LEMMA StartRunKeepsInv ==
    ASSUME HostInv, NEW dir \in {"forward", "rollback", "recover-forward", "recover-rollback"},
           StartRun(dir)
    PROVE  HostInv'
<1> DEFINE s == IF dir \in {"forward", "rollback"} THEN "check" ELSE "recover"
           moved == [NoMove EXCEPT !.dir = dir]
<1>1. /\ UNCHANGED <<serving, copy, newest, journal, stray, runs, mishaps>>
      /\ op' = [moved EXCEPT !.step = s] /\ lockAlive' = TRUE /\ told' = "none"
  BY DEF StartRun
<1>2. moved \in Operations /\ moved.dir = dir
  BY NoMoveTyped DEF Operations
<1>3. op' \in Operations /\ op'.step = s /\ op'.dir = dir
  <2> HIDE DEF moved
  <2>1. s \in Steps
    BY DEF Steps
  <2> HIDE DEF s
  <2> QED
    BY <1>1, <1>2, <2>1, StepSet DEF SameRun
<1>4. WorldTyped' /\ HomeIsCurrent'
  BY <1>1, WorldStays DEF HostInv, MigrationTypeOK
<1>5. MigrationTypeOK'
  <2> HIDE DEF moved, s
  <2>1. op' \in Operations /\ lockAlive' \in BOOLEAN /\ told' \in Reports
    BY <1>1, <1>3 DEF Reports
  <2> QED
    BY <2>1, <1>4 DEF MigrationTypeOK, WorldTyped
<1>6. ReportsAreTrue'
  BY <1>1 DEF ReportsAreTrue
<1>7. RunsAreJournalled' /\ SourceIsFrozen' /\ StagedIsSource'
  BY <1>3 DEF RunsAreJournalled, SourceIsFrozen, StagedIsSource, CopyingSteps, FrozenSteps,
              CopySteps
<1> QED
  BY <1>4, <1>5, <1>6, <1>7 DEF HostInv

LEMMA CheckKeepsInv ==
    ASSUME HostInv, Check
    PROVE  HostInv'
<1>1. /\ UNCHANGED <<serving, copy, newest, journal, stray, mishaps>> /\ op.step = "check"
      /\ op \in Operations /\ runs \in 0..MaxRuns /\ stray \in BOOLEAN
      /\ mishaps \in 0..MaxMishaps /\ lockAlive \in BOOLEAN
      /\ op.dir \in {"forward", "rollback"}
  BY DEF Check, HostInv, MigrationTypeOK, RunsAreJournalled
<1>2. CASE EndRun("none") /\ UNCHANGED runs
  <2>1. WorldTyped' /\ HomeIsCurrent'
    BY <1>1, <1>2, WorldStays
  <2> QED
    BY <1>2, <2>1, EndedSilently
<1>3. CASE /\ runs < MaxRuns /\ runs' = runs + 1
           /\ op' = [op EXCEPT !.step = "begin", !.guard = runs + 1]
           /\ UNCHANGED <<lockAlive, told>>
  <2> DEFINE begun == [op EXCEPT !.step = "begin"]
  <2>1. begun \in Operations /\ begun.step = "begin" /\ begun.dir = op.dir
    <3>1. op \in Operations /\ "begin" \in Steps
      BY <1>1 DEF Steps
    <3> QED
      BY <3>1, StepSet DEF SameRun
  <2>2. op' = [begun EXCEPT !.guard = runs + 1]
    BY <1>3
  <2>3. runs + 1 \in 0..MaxRuns
    BY <1>1, <1>3, MigrationAssumption
  <2> HIDE DEF begun
  <2>4. op' \in Operations /\ op'.step = "begin" /\ op'.dir = op.dir
    BY <2>1, <2>2, <2>3, GuardSet
  <2>5. WorldTyped' /\ HomeIsCurrent'
    BY <1>1, <1>3, <2>3, WorldStays
  <2>6. MigrationTypeOK' /\ ReportsAreTrue'
    BY <1>1, <1>3, <2>4, <2>5, GoesOn
  <2>7. RunsAreJournalled' /\ SourceIsFrozen' /\ StagedIsSource'
    BY <1>1, <2>4 DEF RunsAreJournalled, SourceIsFrozen, StagedIsSource, CopyingSteps,
                      FrozenSteps, CopySteps
  <2> QED
    BY <2>5, <2>6, <2>7 DEF HostInv
<1> QED
  BY <1>2, <1>3 DEF Check

LEMMA BeginFreshTargetKeepsInv ==
    ASSUME HostInv, BeginFreshTarget
    PROVE  HostInv'
<1>1. /\ UNCHANGED <<serving, copy, newest, stray, runs>> /\ op.step = "begin"
      /\ op.dir = "forward" /\ op \in Operations /\ stray \in BOOLEAN /\ runs \in 0..MaxRuns
      /\ op.guard \in 0..MaxRuns
  BY DEF BeginFreshTarget, HostInv, MigrationTypeOK, Operations
<1>2. CASE Fail /\ UNCHANGED <<journal, mishaps>>
  BY <1>1, <1>2, WorldStays, Failed, MishapTyped
<1>3. CASE /\ FreshTarget
           /\ journal' = [phase |-> "preparing", forward |-> op.guard, back |-> 0]
           /\ EffectThen("prepare")
  <2>1. mishaps' \in 0..MaxMishaps
    BY <1>3, MishapTyped DEF EffectThen
  <2>2. journal' \in Journals /\ journal'.phase = "preparing" /\ journal.phase = "absent"
    BY <1>1, <1>3, MigrationAssumption DEF Journals, FreshTarget, Absent
  <2>3. WorldTyped' /\ HomeIsCurrent'
    BY <1>1, <2>1, <2>2 DEF HostInv, MigrationTypeOK, WorldTyped, HomeIsCurrent, Home
  <2>4. CASE Fail
    BY <1>1, <2>3, <2>4, Failed
  <2>5. CASE Proceed("prepare")
    <3>1. /\ MigrationTypeOK' /\ ReportsAreTrue'
          /\ op'.step = "prepare" /\ op'.dir = op.dir
      BY <1>1, <2>3, <2>5, Proceeds DEF Steps, SameRun
    <3>2. RunsAreJournalled' /\ SourceIsFrozen' /\ StagedIsSource'
      BY <1>1, <2>2, <3>1 DEF RunsAreJournalled, SourceIsFrozen, StagedIsSource, CopyingSteps,
                              FrozenSteps, CopySteps
    <3> QED
      BY <2>3, <3>1, <3>2 DEF HostInv
  <2> QED
    BY <1>3, <2>4, <2>5 DEF EffectThen
<1> QED
  BY <1>2, <1>3 DEF BeginFreshTarget

LEMMA BeginRollbackKeepsInv ==
    ASSUME HostInv, BeginRollback
    PROVE  HostInv'
<1>1. /\ UNCHANGED <<serving, copy, newest, stray, runs>> /\ op.step = "begin"
      /\ op.dir = "rollback" /\ op \in Operations /\ stray \in BOOLEAN /\ runs \in 0..MaxRuns
      /\ op.guard \in 0..MaxRuns /\ journal \in Journals /\ lockAlive \in BOOLEAN
  BY DEF BeginRollback, HostInv, MigrationTypeOK, Operations
<1>2. CASE Fail /\ UNCHANGED <<journal, mishaps>>
  BY <1>1, <1>2, WorldStays, Failed, MishapTyped
<1>3. CASE /\ journal.phase = "committed"
           /\ journal' = [journal EXCEPT !.phase = "rollback-preparing", !.back = op.guard]
           /\ \/ /\ op' = [op EXCEPT !.step = "prepare", !.owned = TRUE]
                 /\ UNCHANGED <<lockAlive, told, mishaps>>
              \/ Fail /\ Mishap
  <2>1. mishaps' \in 0..MaxMishaps
    BY <1>3, MishapTyped
  <2>2. journal' \in Journals /\ journal'.phase = "rollback-preparing"
    BY <1>1, <1>3 DEF Journals
  <2>3. WorldTyped' /\ HomeIsCurrent'
    BY <1>1, <1>3, <2>1, <2>2 DEF HostInv, MigrationTypeOK, WorldTyped, HomeIsCurrent, Home
  <2>4. CASE Fail
    BY <1>1, <2>3, <2>4, Failed
  <2>5. CASE op' = [op EXCEPT !.step = "prepare", !.owned = TRUE] /\ UNCHANGED <<lockAlive, told>>
    <3> DEFINE moved == [op EXCEPT !.step = "prepare"]
    <3>1. moved \in Operations /\ moved.step = "prepare" /\ moved.dir = op.dir
      <4>1. op \in Operations /\ "prepare" \in Steps
        BY <1>1 DEF Steps
      <4> QED
        BY <4>1, StepSet DEF SameRun
    <3>2. op' = [moved EXCEPT !.owned = TRUE]
      BY <2>5
    <3> HIDE DEF moved
    <3>3. op' \in Operations /\ op'.step = "prepare" /\ op'.dir = op.dir
      BY <3>1, <3>2, FlagsSet DEF SameRun
    <3>4. MigrationTypeOK' /\ ReportsAreTrue'
      BY <1>1, <2>3, <2>5, <3>3, GoesOn
    <3>5. RunsAreJournalled' /\ SourceIsFrozen' /\ StagedIsSource'
      BY <1>1, <2>2, <3>3 DEF RunsAreJournalled, SourceIsFrozen, StagedIsSource, CopyingSteps,
                              FrozenSteps, CopySteps
    <3> QED
      BY <2>3, <3>4, <3>5 DEF HostInv
  <2> QED
    BY <1>3, <2>4, <2>5
<1> QED
  BY <1>2, <1>3 DEF BeginRollback

\* A run that copies does so from the home to another host.
LEMMA SourceIsHome ==
    ASSUME HostInv, op.step \in CopyingSteps
    PROVE  /\ Source = Home /\ Destination # Home /\ op.dir \in {"forward", "rollback"}
           /\ Source \in Hosts /\ Destination \in Hosts
           /\ op.step # "off" /\ op \in Operations /\ lockAlive \in BOOLEAN
           /\ stray \in BOOLEAN /\ runs \in 0..MaxRuns
BY DEF HostInv, MigrationTypeOK, RunsAreJournalled, Source, Destination, Home, Hosts,
       CopyingSteps, FrozenSteps, CopySteps

LEMMA PrepareKeepsInv ==
    ASSUME HostInv, Prepare
    PROVE  HostInv'
<1>1. /\ op.step = "prepare" /\ UNCHANGED <<serving, newest, journal, stray, runs>>
      /\ copy' = [copy EXCEPT ![Destination] = Partial] /\ EffectThen("freeze")
  BY DEF Prepare
<1>2. op.step \in CopyingSteps
  BY <1>1 DEF CopyingSteps
<1>3. mishaps' \in 0..MaxMishaps
  BY <1>1, MishapTyped DEF EffectThen
<1>4. copy' \in [Hosts -> Partial..MaxWrites] /\ copy'[Home] = copy[Home]
  <2>1. copy \in [Hosts -> Partial..MaxWrites] /\ Partial \in Partial..MaxWrites /\ Home \in Hosts
    BY MigrationAssumption DEF HostInv, MigrationTypeOK, Partial, Home, Hosts
  <2> QED
    BY <1>1, <1>2, <2>1, SourceIsHome
<1>5. WorldTyped' /\ HomeIsCurrent'
  BY <1>1, <1>3, <1>4 DEF HostInv, MigrationTypeOK, WorldTyped, HomeIsCurrent, Home
<1>6. CASE Fail
  BY <1>1, <1>2, <1>5, <1>6, Failed, SourceIsHome
<1>7. CASE Proceed("freeze")
  <2>1. /\ MigrationTypeOK' /\ ReportsAreTrue'
        /\ op'.step = "freeze" /\ op'.dir = op.dir
    BY <1>2, <1>5, <1>7, Proceeds, SourceIsHome DEF Steps, SameRun
  <2>2. RunsAreJournalled' /\ SourceIsFrozen' /\ StagedIsSource'
    BY <1>1, <2>1 DEF HostInv, RunsAreJournalled, SourceIsFrozen, StagedIsSource, CopyingSteps,
                      FrozenSteps, CopySteps
  <2> QED
    BY <1>5, <2>1, <2>2 DEF HostInv
<1> QED
  BY <1>1, <1>6, <1>7 DEF EffectThen

LEMMA FreezeKeepsInv ==
    ASSUME HostInv, Freeze
    PROVE  HostInv'
<1>1. op.step = "freeze" /\ UNCHANGED <<copy, newest, journal, lockAlive, stray, told, runs>>
  BY DEF Freeze
<1>2. op.step \in CopyingSteps
  BY <1>1 DEF CopyingSteps
<1>3. serving' \subseteq serving /\ mishaps' \in 0..MaxMishaps
  BY MishapTyped DEF Freeze
<1>4. WorldTyped' /\ HomeIsCurrent'
  BY <1>1, <1>3 DEF HostInv, MigrationTypeOK, WorldTyped, HomeIsCurrent, Home
<1>5. ASSUME NEW s \in Steps, op' = [op EXCEPT !.frozen = TRUE, !.step = s]
      PROVE  op' \in Operations /\ op'.step = s /\ op'.dir = op.dir
  <2> DEFINE held == [op EXCEPT !.frozen = TRUE]
  <2>1. held \in Operations /\ held.dir = op.dir
    BY <1>2, FlagsSet, SourceIsHome DEF SameRun
  <2>2. op' = [held EXCEPT !.step = s]
    BY <1>5
  <2> HIDE DEF held
  <2> QED
    BY <2>1, <2>2, StepSet DEF SameRun
<1>6. CASE op' = [op EXCEPT !.frozen = TRUE, !.step = "recover"]
  <2>1. op' \in Operations /\ op'.step = "recover"
    BY <1>5, <1>6 DEF Steps
  <2> QED
    BY <1>1, <1>2, <1>4, <2>1, GoesToSafety, SourceIsHome
<1>7. CASE serving' = serving \ {Source} /\ op' = [op EXCEPT !.frozen = TRUE, !.step = "inspect"]
  <2>1. op' \in Operations /\ op'.step = "inspect" /\ op'.dir = op.dir
    BY <1>5, <1>7 DEF Steps
  <2>2. MigrationTypeOK' /\ ReportsAreTrue'
    BY <1>1, <1>2, <1>4, <2>1, GoesOn, SourceIsHome
  <2>3. serving' = {}
    BY <1>2, <1>7, SourceIsHome DEF HostInv, HomeIsCurrent
  <2>4. RunsAreJournalled' /\ SourceIsFrozen' /\ StagedIsSource'
    BY <1>1, <2>1, <2>3 DEF HostInv, RunsAreJournalled, SourceIsFrozen, StagedIsSource,
                            CopyingSteps, FrozenSteps, CopySteps
  <2> QED
    BY <1>4, <2>2, <2>4 DEF HostInv
<1> QED
  BY <1>6, <1>7 DEF Freeze

\* A step of the copy that leaves the world alone.
LEMMA CopyGoesOn ==
    ASSUME HostInv, op.step \in FrozenSteps, UNCHANGED <<serving, copy, newest, journal, told>>,
           WorldTyped', lockAlive' \in BOOLEAN, op' \in Operations,
           op'.step \in FrozenSteps \ {"mark"}, op'.dir = op.dir,
           op'.step \in {"recheck", "promote"} => StagedMatches',
           op'.step = "promote" => copy[Source] = op'.before
    PROVE  HostInv'
<1>1. op.step \in CopyingSteps /\ op.step # "off"
  BY DEF CopyingSteps, FrozenSteps, CopySteps
<1>2. MigrationTypeOK' /\ ReportsAreTrue'
  BY <1>1, GoesOn
<1>3. HomeIsCurrent' /\ SourceIsFrozen'
  BY DEF HostInv, HomeIsCurrent, Home, SourceIsFrozen
<1>4. RunsAreJournalled'
  BY <1>1 DEF HostInv, RunsAreJournalled, CopyingSteps, FrozenSteps, CopySteps
<1>5. StagedIsSource'
  BY DEF StagedIsSource, Source, FrozenSteps, CopySteps
<1> QED
  BY <1>2, <1>3, <1>4, <1>5 DEF HostInv

\* The same, to the recovery.
LEMMA CopyFails ==
    ASSUME HostInv, op.step \in FrozenSteps, UNCHANGED <<serving, copy, newest, journal>>, Fail,
           WorldTyped'
    PROVE  HostInv'
<1>1. op.step # "off" /\ HomeIsCurrent'
  BY DEF HostInv, HomeIsCurrent, Home, FrozenSteps, CopySteps
<1> QED
  BY <1>1, Failed

LEMMA InspectKeepsInv ==
    ASSUME HostInv, Inspect
    PROVE  HostInv'
<1>1. op.step = "inspect" /\ UNCHANGED <<serving, copy, newest, journal, stray, runs, mishaps>>
  BY DEF Inspect
<1>2. op.step \in CopyingSteps /\ op.step \in FrozenSteps
  BY <1>1 DEF CopyingSteps, FrozenSteps, CopySteps
<1>3. WorldTyped'
  BY <1>1, <1>2, WorldStays, SourceIsHome, MishapTyped
<1>4. CASE op' = [op EXCEPT !.step = "stream", !.before = SourceInventory]
           /\ UNCHANGED <<lockAlive, told>>
  <2> DEFINE moved == [op EXCEPT !.step = "stream"]
  <2>1. moved \in Operations /\ moved.step = "stream" /\ moved.dir = op.dir
    <3>1. op \in Operations /\ "stream" \in Steps
      BY <1>2, SourceIsHome DEF Steps
    <3> QED
      BY <3>1, StepSet DEF SameRun
  <2>2. op' = [moved EXCEPT !.before = SourceInventory]
    BY <1>4
  <2>3. SourceInventory \in Partial..MaxWrites
    BY <1>2, SourceIsHome DEF SourceInventory, HostInv, MigrationTypeOK
  <2> HIDE DEF moved
  <2>4. op' \in Operations /\ op'.step = "stream" /\ op'.dir = op.dir
    BY <2>1, <2>2, <2>3, BeforeSet
  <2>5. "stream" \in FrozenSteps \ {"mark"} /\ "stream" \notin {"recheck", "promote"}
    BY DEF FrozenSteps, CopySteps
  <2> QED
    BY <1>1, <1>2, <1>3, <1>4, <2>4, <2>5, CopyGoesOn, SourceIsHome
<1> QED
  BY <1>1, <1>2, <1>3, <1>4, CopyFails DEF Inspect

LEMMA StreamKeepsInv ==
    ASSUME HostInv, StreamDatabase \/ StreamAttachments \/ StreamReleases
    PROVE  HostInv'
<1>1. PICK part \in Parts, next \in {"attachments", "releases", "compare"} :
          op.step \in {"stream", "attachments", "releases"} /\ Receive(part, next)
  BY DEF StreamDatabase, StreamAttachments, StreamReleases, Parts
<1>2. UNCHANGED <<serving, copy, newest, journal, lockAlive, stray, told, runs>>
  BY <1>1 DEF Receive
<1>3. op.step \in CopyingSteps /\ op.step \in FrozenSteps
  BY <1>1 DEF CopyingSteps, FrozenSteps, CopySteps
<1>4. mishaps' \in 0..MaxMishaps
  BY <1>1, MishapTyped DEF Receive
<1>5. WorldTyped'
  BY <1>2, <1>3, <1>4, WorldStays, SourceIsHome
<1>6. PICK v \in Damaged..MaxWrites : op' = [op EXCEPT !.step = next, !.staged[part] = v]
  <2>1. SourceInventory \in Damaged..MaxWrites /\ Damaged \in Damaged..MaxWrites
    <3>1. copy[Source] \in Partial..MaxWrites
      BY <1>3, SourceIsHome DEF HostInv, MigrationTypeOK
    <3> QED
      BY <3>1, MigrationAssumption DEF SourceInventory, Damaged, Partial
  <2> QED
    BY <1>1, <2>1 DEF Receive
<1> DEFINE moved == [op EXCEPT !.step = next]
<1>7. moved \in Operations /\ moved.step = next /\ moved.dir = op.dir
  <2>1. next \in Steps
    BY DEF Steps
  <2> QED
    BY <1>3, <2>1, StepSet, SourceIsHome DEF SameRun
<1>8. op' = [moved EXCEPT !.staged[part] = v]
  BY <1>6
<1> HIDE DEF moved
<1>9. op' \in Operations /\ op'.step = next /\ op'.dir = op.dir
  BY <1>7, <1>8, StagedSet
<1>10. next \in FrozenSteps \ {"mark"} /\ next \notin {"recheck", "promote"}
  BY DEF FrozenSteps, CopySteps
<1> QED
  BY <1>2, <1>3, <1>5, <1>9, <1>10, CopyGoesOn, SourceIsHome

LEMMA CompareKeepsInv ==
    ASSUME HostInv, Compare
    PROVE  HostInv'
<1>1. op.step = "compare" /\ UNCHANGED <<serving, copy, newest, journal, stray, runs, mishaps>>
  BY DEF Compare
<1>2. op.step \in CopyingSteps /\ op.step \in FrozenSteps
  BY <1>1 DEF CopyingSteps, FrozenSteps, CopySteps
<1>3. WorldTyped'
  BY <1>1, <1>2, WorldStays, SourceIsHome, MishapTyped
<1>4. CASE StagedMatches /\ Proceed("recheck")
  <2>1. op' \in Operations /\ op'.step = "recheck" /\ SameRun(op, op')
    BY <1>2, <1>4, StepSet, SourceIsHome DEF Proceed, Steps
  <2>2. StagedMatches' /\ op'.dir = op.dir
    BY <1>4, <2>1 DEF StagedMatches, SameRun
  <2>3. "recheck" \in FrozenSteps \ {"mark"} /\ "recheck" # "promote"
    BY DEF FrozenSteps, CopySteps
  <2>4. UNCHANGED <<lockAlive, told>>
    BY <1>4 DEF Proceed
  <2> QED
    BY <1>1, <1>2, <1>3, <2>1, <2>2, <2>3, <2>4, CopyGoesOn, SourceIsHome
<1> QED
  BY <1>1, <1>2, <1>3, <1>4, CopyFails DEF Compare

LEMMA RecheckKeepsInv ==
    ASSUME HostInv, Recheck
    PROVE  HostInv'
<1>1. op.step = "recheck" /\ UNCHANGED <<serving, copy, newest, journal, stray, runs, mishaps>>
  BY DEF Recheck
<1>2. op.step \in CopyingSteps /\ op.step \in FrozenSteps
  BY <1>1 DEF CopyingSteps, FrozenSteps, CopySteps
<1>3. WorldTyped'
  BY <1>1, <1>2, WorldStays, SourceIsHome, MishapTyped
<1>4. CASE SourceUnchanged /\ Proceed("promote")
  <2>1. op' \in Operations /\ op'.step = "promote" /\ SameRun(op, op')
    BY <1>2, <1>4, StepSet, SourceIsHome DEF Proceed, Steps
  <2>2. StagedMatches' /\ op'.dir = op.dir
    BY <1>1, <2>1 DEF HostInv, StagedIsSource, StagedMatches, SameRun
  <2>3. copy[Source] = op'.before
    BY <1>4, <2>1 DEF SourceUnchanged, SourceInventory, SameRun
  <2>4. "promote" \in FrozenSteps \ {"mark"}
    BY DEF FrozenSteps, CopySteps
  <2>5. UNCHANGED <<lockAlive, told>>
    BY <1>4 DEF Proceed
  <2> QED
    BY <1>1, <1>2, <1>3, <2>1, <2>2, <2>3, <2>4, <2>5, CopyGoesOn, SourceIsHome
<1> QED
  BY <1>1, <1>2, <1>3, <1>4, CopyFails DEF Recheck

LEMMA PromoteRemoteKeepsInv ==
    ASSUME HostInv, PromoteRemote
    PROVE  HostInv'
<1>1. /\ op.step = "promote" /\ op.dir = "forward"
      /\ UNCHANGED <<serving, newest, stray, runs>>
  BY DEF PromoteRemote
<1>2. op.step \in CopyingSteps /\ op.step \in FrozenSteps
  BY <1>1 DEF CopyingSteps, FrozenSteps, CopySteps
<1>3. mishaps' \in 0..MaxMishaps
  BY MishapTyped DEF PromoteRemote
<1>4. CASE Fail /\ UNCHANGED <<copy, journal, mishaps>>
  BY <1>1, <1>2, <1>3, <1>4, CopyFails, WorldStays, SourceIsHome
<1>5. CASE /\ copy' = [copy EXCEPT !["unraid"] = op.staged["database"]]
           /\ journal' = [journal EXCEPT !.phase = "committed"]
           /\ EndRun("committed") \/ Fail
  <2>1. op.staged["database"] = newest /\ serving = {} /\ newest \in 0..MaxWrites
    BY <1>1, <1>2, SourceIsHome
       DEF HostInv, MigrationTypeOK, HomeIsCurrent, StagedIsSource, StagedMatches, Parts,
           SourceIsFrozen
  <2>2. copy' \in [Hosts -> Partial..MaxWrites] /\ copy'["unraid"] = newest
    <3>1. newest \in Partial..MaxWrites /\ copy \in [Hosts -> Partial..MaxWrites]
      BY <2>1, MigrationAssumption DEF Partial, HostInv, MigrationTypeOK
    <3> QED
      BY <1>5, <2>1, <3>1 DEF Hosts
  <2>3. journal' \in Journals /\ journal'.phase = "committed"
    BY <1>5 DEF HostInv, MigrationTypeOK, Journals
  <2>4. WorldTyped' /\ HomeIsCurrent'
    BY <1>1, <1>3, <2>1, <2>2, <2>3
       DEF HostInv, MigrationTypeOK, WorldTyped, HomeIsCurrent, Home
  <2>5. "committed" \in Reports
    BY PhasesNamed DEF Phases
  <2> QED
    BY <1>2, <1>5, <2>3, <2>4, <2>5, Ended, Failed, SourceIsHome
<1> QED
  BY <1>4, <1>5 DEF PromoteRemote

LEMMA PromoteLocalKeepsInv ==
    ASSUME HostInv, PromoteLocal
    PROVE  HostInv'
<1>1. /\ op.step = "promote" /\ op.dir = "rollback"
      /\ UNCHANGED <<serving, newest, journal, stray, runs>>
  BY DEF PromoteLocal
<1>2. op.step \in CopyingSteps /\ op.step \in FrozenSteps
  BY <1>1 DEF CopyingSteps, FrozenSteps, CopySteps
<1>3. mishaps' \in 0..MaxMishaps
  BY MishapTyped DEF PromoteLocal, EffectThen
<1>4. CASE Fail /\ UNCHANGED <<copy, mishaps>>
  BY <1>1, <1>2, <1>3, <1>4, CopyFails, WorldStays, SourceIsHome
<1>5. CASE /\ copy' = [copy EXCEPT !["rollback"] = op.staged["database"]]
           /\ EffectThen("mark")
  <2>1. op.staged["database"] = newest /\ serving = {} /\ newest \in 0..MaxWrites
    BY <1>1, <1>2, SourceIsHome
       DEF HostInv, MigrationTypeOK, HomeIsCurrent, StagedIsSource, StagedMatches, Parts,
           SourceIsFrozen
  <2>2. copy' \in [Hosts -> Partial..MaxWrites] /\ copy'["rollback"] = newest
        /\ copy'["unraid"] = copy["unraid"]
    <3>1. newest \in Partial..MaxWrites /\ copy \in [Hosts -> Partial..MaxWrites]
      BY <2>1, MigrationAssumption DEF Partial, HostInv, MigrationTypeOK
    <3> QED
      BY <1>5, <2>1, <3>1 DEF Hosts
  <2>3. Home = "unraid" /\ Home' = "unraid"
    BY <1>1, <1>2, SourceIsHome DEF Source, Home
  <2>4. WorldTyped' /\ HomeIsCurrent'
    BY <1>1, <1>3, <2>1, <2>2, <2>3 DEF HostInv, MigrationTypeOK, WorldTyped, HomeIsCurrent
  <2>5. CASE Fail
    BY <1>2, <2>4, <2>5, Failed, SourceIsHome
  <2>6. CASE Proceed("mark")
    <3>1. /\ MigrationTypeOK' /\ ReportsAreTrue'
          /\ op'.step = "mark" /\ op'.dir = op.dir
      BY <1>2, <2>4, <2>6, Proceeds, SourceIsHome DEF Steps, SameRun
    <3>2. RunsAreJournalled' /\ SourceIsFrozen' /\ StagedIsSource'
      BY <1>1, <1>2, <2>1, <2>2, <3>1
         DEF HostInv, RunsAreJournalled, SourceIsFrozen, StagedIsSource, CopyingSteps,
             FrozenSteps, CopySteps
    <3> QED
      BY <2>4, <3>1, <3>2 DEF HostInv
  <2> QED
    BY <1>5, <2>5, <2>6 DEF EffectThen
<1> QED
  BY <1>4, <1>5 DEF PromoteLocal

LEMMA MarkKeepsInv ==
    ASSUME HostInv, MarkRollbackCommitted
    PROVE  HostInv'
<1>1. op.step = "mark" /\ UNCHANGED <<serving, copy, newest, stray, runs>>
  BY DEF MarkRollbackCommitted
<1>2. op.step \in CopyingSteps /\ op.step \in FrozenSteps
  BY <1>1 DEF CopyingSteps, FrozenSteps, CopySteps
<1>3. mishaps' \in 0..MaxMishaps
  BY MishapTyped DEF MarkRollbackCommitted
<1>4. CASE Fail /\ UNCHANGED <<journal, mishaps>>
  BY <1>1, <1>2, <1>3, <1>4, CopyFails, WorldStays, SourceIsHome
<1>5. CASE /\ journal' = [journal EXCEPT !.phase = "rollback-committed"]
           /\ EndRun("rollback-committed") \/ Fail
  <2>1. copy["rollback"] = newest /\ serving = {}
    BY <1>1, <1>2 DEF HostInv, StagedIsSource, SourceIsFrozen
  <2>2. journal' \in Journals /\ journal'.phase = "rollback-committed"
    BY <1>5 DEF HostInv, MigrationTypeOK, Journals
  <2>3. WorldTyped' /\ HomeIsCurrent'
    BY <1>1, <1>3, <2>1, <2>2 DEF HostInv, MigrationTypeOK, WorldTyped, HomeIsCurrent, Home
  <2>4. "rollback-committed" \in Reports
    BY PhasesNamed DEF Phases
  <2> QED
    BY <1>2, <1>5, <2>2, <2>3, <2>4, Ended, Failed, SourceIsHome
<1> QED
  BY <1>4, <1>5 DEF MarkRollbackCommitted

\* What recover_failure does once it knows the phase: the source is started only where
\* it is the home.
LEMMA Recovered ==
    ASSUME HostInv, op.step # "off", NEW p \in Reports, NEW safe \in BOOLEAN,
           AfterRecovery(p, safe), lockAlive' \in BOOLEAN, WorldTyped', HomeIsCurrent',
           safe => Source = Home',
           p \in {"committed", "rollback-committed"} => journal'.phase = p
    PROVE  HostInv'
<1>1. CASE op' = NoMove /\ told' = p
  BY <1>1, Stopped
<1>2. CASE /\ safe /\ op' = [op EXCEPT !.step = "restart", !.phase = p]
           /\ UNCHANGED told
  <2> DEFINE moved == [op EXCEPT !.step = "restart"]
  <2>1. moved \in Operations /\ moved.step = "restart" /\ moved.dir = op.dir
    BY StepSet DEF HostInv, MigrationTypeOK, Steps, SameRun
  <2>2. op' = [moved EXCEPT !.phase = p]
    BY <1>2
  <2> HIDE DEF moved
  <2>3. op' \in Operations /\ op'.step = "restart" /\ op'.dir = op.dir
    BY <2>1, <2>2, PhaseSet DEF SameRun
  <2>4. MigrationTypeOK' /\ ReportsAreTrue'
    BY <1>2, <2>3, GoesOn
  <2>5. RunsAreJournalled' /\ SourceIsFrozen' /\ StagedIsSource'
    BY <1>2, <2>3 DEF RunsAreJournalled, SourceIsFrozen, StagedIsSource, CopyingSteps,
                      FrozenSteps, CopySteps, Source
  <2> QED
    BY <2>4, <2>5 DEF HostInv
<1> QED
  BY <1>1, <1>2 DEF AfterRecovery

\* Erasing the target a forward run was preparing.
LEMMA TornDownIsSafe ==
    ASSUME HostInv, journal.phase = "preparing", journal' = TornDown,
           copy' = [copy EXCEPT !["unraid"] = Nothing],
           UNCHANGED <<serving, newest, stray, runs>>, mishaps' \in 0..MaxMishaps
    PROVE  WorldTyped' /\ HomeIsCurrent' /\ Home' = "legacy" /\ journal'.phase = "forward-cleaned"
<1>1. journal' \in Journals /\ journal'.phase = "forward-cleaned"
  BY DEF HostInv, MigrationTypeOK, Journals, TornDown
<1>2. Home = "legacy" /\ Home' = "legacy"
  BY <1>1 DEF Home
<1>3. copy' \in [Hosts -> Partial..MaxWrites] /\ copy'["legacy"] = copy["legacy"]
  <2>1. Nothing \in Partial..MaxWrites /\ copy \in [Hosts -> Partial..MaxWrites]
    BY MigrationAssumption DEF Nothing, Partial, HostInv, MigrationTypeOK
  <2> QED
    BY <2>1 DEF Hosts
<1> QED
  BY <1>1, <1>2, <1>3 DEF HostInv, MigrationTypeOK, WorldTyped, HomeIsCurrent

LEMMA RecoverForwardKeepsInv ==
    ASSUME HostInv, RecoverForward
    PROVE  HostInv'
<1>1. /\ op.step = "recover" /\ op.dir = "forward" /\ UNCHANGED <<serving, newest, stray, runs>>
      /\ stray \in BOOLEAN /\ runs \in 0..MaxRuns /\ op.step # "off"
  BY DEF RecoverForward, HostInv, MigrationTypeOK
<1>2. lockAlive \in BOOLEAN /\ lockAlive' \in BOOLEAN
  BY DEF RecoverForward, HostInv, MigrationTypeOK
<1>3. mishaps' \in 0..MaxMishaps
  BY MishapTyped DEF RecoverForward
<1>4. "indeterminate" \in Reports /\ ForwardOutcome \in Reports
      /\ "indeterminate" \notin {"committed", "rollback-committed"}
  BY PhasesNamed DEF ForwardOutcome, Phases
<1>5. /\ ForwardOutcome \in {"committed", "rollback-committed"} => journal.phase = ForwardOutcome
      /\ ForwardOutcome \in SafeOutcomes => journal.phase \in {"absent", "preparing", "forward-cleaned"}
  BY DEF ForwardOutcome, SafeOutcomes, Absent
<1>6. Source = "legacy"
  BY <1>1 DEF Source
<1> DEFINE safe == lockAlive /\ ForwardOutcome \in SafeOutcomes
<1>7. safe \in BOOLEAN
  BY <1>2
<1>8. CASE UNCHANGED <<copy, journal>>
  <2>1. WorldTyped' /\ HomeIsCurrent' /\ Home' = Home
    BY <1>1, <1>3, <1>8, WorldStays
  <2>2. safe => Source = Home'
    BY <1>5, <1>6, <2>1 DEF Home
  <2>3. CASE AfterRecovery("indeterminate", FALSE)
    BY <1>1, <1>2, <1>4, <2>1, <2>3, Recovered
  <2>4. CASE AfterRecovery(ForwardOutcome, safe)
    <3>1. ForwardOutcome \in {"committed", "rollback-committed"} => journal'.phase = ForwardOutcome
      BY <1>5, <1>8
    <3> HIDE DEF safe
    <3> QED
      BY <1>1, <1>2, <1>4, <1>7, <2>1, <2>2, <2>4, <3>1, Recovered
  <2> QED
    BY <2>3, <2>4 DEF RecoverForward
<1>9. CASE /\ ForwardOutcome = "forward-cleaned" /\ journal.phase = "preparing"
           /\ copy' = [copy EXCEPT !["unraid"] = Nothing] /\ journal' = TornDown
  <2>1. WorldTyped' /\ HomeIsCurrent' /\ Home' = "legacy"
    BY <1>1, <1>3, <1>9, TornDownIsSafe
  <2>2. CASE AfterRecovery("indeterminate", FALSE)
    BY <1>1, <1>2, <1>4, <2>1, <2>2, Recovered
  <2>3. CASE AfterRecovery(ForwardOutcome, safe)
    <3>1. ForwardOutcome \notin {"committed", "rollback-committed"}
      BY <1>9
    <3> HIDE DEF safe
    <3> QED
      BY <1>1, <1>2, <1>4, <1>6, <1>7, <2>1, <2>3, <3>1, Recovered
  <2> QED
    BY <2>2, <2>3 DEF RecoverForward
<1> QED
  BY <1>8, <1>9 DEF RecoverForward

LEMMA RecoverRollbackKeepsInv ==
    ASSUME HostInv, RecoverRollback
    PROVE  HostInv'
<1>1. /\ op.step = "recover" /\ op.dir = "rollback" /\ op.step # "off"
      /\ UNCHANGED <<serving, copy, newest, journal, stray, runs>>
      /\ stray \in BOOLEAN /\ runs \in 0..MaxRuns /\ lockAlive \in BOOLEAN
  BY DEF RecoverRollback, HostInv, MigrationTypeOK
<1>2. mishaps' \in 0..MaxMishaps
  BY MishapTyped DEF RecoverRollback
<1>3. WorldTyped' /\ HomeIsCurrent' /\ Home' = Home
  BY <1>1, <1>2, WorldStays
<1>4. /\ {"not-started", "indeterminate"} \subseteq Reports /\ RollbackOutcome \in Reports
      /\ RollbackOutcome \in {"committed", "rollback-committed"} => journal.phase = RollbackOutcome
      /\ RollbackOutcome = "rollback-preparing" => journal.phase = "rollback-preparing"
  BY PhasesNamed DEF RollbackOutcome, Phases
<1>5. ASSUME NEW p \in {"not-started", "indeterminate"}, EndRun(p) PROVE HostInv'
  BY <1>3, <1>4, <1>5, Ended
<1>6. CASE EndRun(RollbackOutcome)
  BY <1>1, <1>3, <1>4, <1>6, Ended
<1>7. CASE /\ RollbackOutcome = "rollback-preparing" /\ UNCHANGED <<lockAlive, told>>
           /\ op' = [op EXCEPT !.step = "clean", !.phase = RollbackOutcome]
  <2> DEFINE moved == [op EXCEPT !.step = "clean"]
  <2>1. moved \in Operations /\ moved.step = "clean" /\ moved.dir = op.dir
    BY StepSet DEF HostInv, MigrationTypeOK, Steps, SameRun
  <2>2. op' = [moved EXCEPT !.phase = RollbackOutcome]
    BY <1>7
  <2> HIDE DEF moved
  <2>3. op' \in Operations /\ op'.step = "clean" /\ op'.dir = op.dir /\ op'.phase = RollbackOutcome
    BY <1>4, <2>1, <2>2, PhaseSet DEF SameRun
  <2>4. MigrationTypeOK' /\ ReportsAreTrue'
    BY <1>1, <1>3, <1>7, <2>3, GoesOn
  <2>5. RunsAreJournalled' /\ SourceIsFrozen' /\ StagedIsSource'
    BY <1>1, <1>3, <1>4, <1>7, <2>3
       DEF RunsAreJournalled, SourceIsFrozen, StagedIsSource, CopyingSteps, FrozenSteps,
           CopySteps, Home
  <2> QED
    BY <1>3, <2>4, <2>5 DEF HostInv
<1> QED
  BY <1>5, <1>6, <1>7 DEF RecoverRollback

LEMMA CleanKeepsInv ==
    ASSUME HostInv, Clean
    PROVE  HostInv'
<1>1. /\ op.step = "clean" /\ op.step # "off" /\ UNCHANGED <<newest, journal, stray, runs>>
      /\ op.dir \in {"rollback", "recover-rollback"} /\ op.phase = journal.phase
      /\ Home = "unraid" /\ Home' = "unraid" /\ op.phase \in Reports
      /\ lockAlive \in BOOLEAN
  BY DEF Clean, HostInv, MigrationTypeOK, RunsAreJournalled, Home, Operations
<1>2. Source = "unraid" /\ serving' \subseteq serving
  BY <1>1 DEF Source, Clean
<1>3. mishaps' \in 0..MaxMishaps
  BY MishapTyped DEF Clean
<1>4. copy' \in [Hosts -> Partial..MaxWrites] /\ copy'["unraid"] = copy["unraid"]
  <2>1. Nothing \in Partial..MaxWrites /\ Partial \in Partial..MaxWrites
        /\ copy \in [Hosts -> Partial..MaxWrites]
    BY MigrationAssumption DEF Nothing, Partial, HostInv, MigrationTypeOK
  <2> QED
    BY <2>1 DEF Hosts, Clean
<1>5. WorldTyped' /\ HomeIsCurrent'
  BY <1>1, <1>2, <1>3, <1>4 DEF HostInv, MigrationTypeOK, WorldTyped, HomeIsCurrent
<1>6. CASE EndRun("none")
  BY <1>5, <1>6, EndedSilently
<1>7. CASE AfterRecovery(op.phase, TRUE) /\ lockAlive' = (lockAlive /\ op' # NoMove)
  <2>1. lockAlive' \in BOOLEAN
    BY <1>1, <1>7
  <2> QED
    BY <1>1, <1>2, <1>5, <1>7, <2>1, Recovered
<1>8. CASE Proceed("restart")
  <2>1. /\ MigrationTypeOK' /\ ReportsAreTrue'
        /\ op'.step = "restart" /\ op'.dir = op.dir
    BY <1>1, <1>5, <1>8, Proceeds DEF Steps, SameRun
  <2>2. RunsAreJournalled' /\ SourceIsFrozen' /\ StagedIsSource'
    BY <1>1, <1>2, <2>1 DEF RunsAreJournalled, SourceIsFrozen, StagedIsSource, CopyingSteps,
                            FrozenSteps, CopySteps, Source
  <2> QED
    BY <1>5, <2>1, <2>2 DEF HostInv
<1> QED
  BY <1>6, <1>7, <1>8 DEF Clean

LEMMA RestartKeepsInv ==
    ASSUME HostInv, Restart
    PROVE  HostInv'
<1>1. /\ op.step = "restart" /\ op.step # "off" /\ UNCHANGED <<copy, newest, journal, stray, runs>>
      /\ Source = Home /\ Home \in Hosts
  BY DEF Restart, HostInv, RunsAreJournalled, Home, Hosts
<1>2. serving' \subseteq serving \cup {Home}
  BY <1>1 DEF Restart
<1>3. mishaps' \in 0..MaxMishaps
  BY MishapTyped DEF Restart
<1>4. WorldTyped' /\ HomeIsCurrent'
  BY <1>1, <1>2, <1>3 DEF HostInv, MigrationTypeOK, WorldTyped, HomeIsCurrent, Home
<1>5. CASE EndRun("none")
  BY <1>4, <1>5, EndedSilently
<1>6. CASE Proceed("complete")
  <2>1. op' \in Operations /\ op'.step = "complete" /\ UNCHANGED <<lockAlive, told>>
    BY <1>6, StepSet DEF HostInv, MigrationTypeOK, Proceed, Steps
  <2> QED
    BY <1>1, <1>4, <2>1, GoesToSafety DEF HostInv, MigrationTypeOK
<1> QED
  BY <1>5, <1>6 DEF Restart

LEMMA CompleteJournalKeepsInv ==
    ASSUME HostInv, CompleteJournal
    PROVE  HostInv'
<1>1. UNCHANGED <<serving, copy, newest, stray, runs>>
  BY DEF CompleteJournal
<1>2. mishaps' \in 0..MaxMishaps
  BY MishapTyped DEF CompleteJournal
<1>3. ASSUME Completable
      PROVE  Completed \in Journals /\ Completed.phase \in Reports
             /\ (journal' = Completed => Home' = Home)
  <2>1. journal \in Journals /\ journal.phase = op.phase
    BY <1>3 DEF HostInv, MigrationTypeOK, Completable
  <2>2. CASE op.phase = "forward-cleaned"
    BY <2>1, <2>2, PhasesNamed, MigrationAssumption DEF Completed, Absent, Journals, Phases, Home
  <2>3. CASE op.phase = "rollback-preparing"
    <3>1. Completed = [journal EXCEPT !.phase = "committed", !.back = 0]
      BY <2>3 DEF Completed
    <3>2. Completed \in Journals /\ Completed.phase = "committed"
      <4> DEFINE kept == [journal EXCEPT !.phase = "committed"]
      <4>1. kept \in Journals /\ kept.phase = "committed"
        BY <2>1 DEF Journals
      <4>2. Completed = [kept EXCEPT !.back = 0] /\ 0 \in 0..MaxRuns
        BY <3>1, MigrationAssumption
      <4> HIDE DEF kept
      <4> QED
        BY <4>1, <4>2 DEF Journals
    <3> QED
      BY <2>1, <2>3, <3>2, PhasesNamed DEF Phases, Home
  <2>4. CASE op.phase \notin {"forward-cleaned", "rollback-preparing"}
    BY <2>1, <2>4, PhasesNamed DEF Completed, Journals, Phases, Home
  <2> QED
    BY <2>2, <2>3, <2>4
<1>4. journal' \in Journals /\ Home' = Home
  <2>1. journal' = journal \/ (Completable /\ journal' = Completed)
    BY DEF CompleteJournal
  <2> QED
    BY <1>3, <2>1 DEF HostInv, MigrationTypeOK, Home
<1>5. WorldTyped' /\ HomeIsCurrent'
  BY <1>1, <1>2, <1>4 DEF HostInv, MigrationTypeOK, WorldTyped, HomeIsCurrent
<1>6. CASE EndRun("none")
  BY <1>5, <1>6, EndedSilently
<1>7. CASE Completable /\ journal' = Completed /\ EndRun(Completed.phase)
  BY <1>3, <1>5, <1>7, Ended
<1> QED
  BY <1>6, <1>7 DEF CompleteJournal

LEMMA AdoptForwardKeepsInv ==
    ASSUME HostInv, AdoptForward
    PROVE  HostInv'
<1>1. /\ op.step = "recover" /\ op.dir = "recover-forward" /\ op.step # "off"
      /\ UNCHANGED <<serving, newest, stray, runs>>
      /\ stray \in BOOLEAN /\ runs \in 0..MaxRuns /\ lockAlive \in BOOLEAN
      /\ op \in Operations /\ journal \in Journals
  BY DEF AdoptForward, HostInv, MigrationTypeOK
<1>2. mishaps' \in 0..MaxMishaps
  BY MishapTyped DEF AdoptForward
<1>3. WorldTyped' /\ HomeIsCurrent'
      /\ (journal.phase \in {"preparing", "forward-cleaned"} => Home' = "legacy")
  <2>1. CASE UNCHANGED <<copy, journal>> /\ journal.phase # "preparing"
    BY <1>1, <1>2, <2>1, WorldStays DEF Home
  <2>2. CASE /\ journal.phase = "preparing" /\ journal' = TornDown
             /\ copy' = [copy EXCEPT !["unraid"] = Nothing]
    BY <1>1, <1>2, <2>2, TornDownIsSafe
  <2>3. CASE UNCHANGED <<copy, journal>> /\ EndRun("none")
    BY <1>1, <1>2, <2>3, WorldStays DEF Home
  <2> QED
    BY <2>1, <2>2, <2>3 DEF AdoptForward
<1>4. CASE EndRun("none")
  BY <1>3, <1>4, EndedSilently
<1>5. CASE EndRun(journal.phase) /\ UNCHANGED journal
  <2>1. journal.phase \in Reports
    BY <1>1 DEF Reports
  <2> QED
    BY <1>3, <1>5, <2>1, Ended
<1>6. CASE /\ op' = [op EXCEPT !.step = "restart", !.phase = "forward-cleaned"]
           /\ UNCHANGED <<lockAlive, told>>
           /\ journal.phase \in {"preparing", "forward-cleaned"}
  <2> DEFINE moved == [op EXCEPT !.step = "restart"]
  <2>1. moved \in Operations /\ moved.step = "restart" /\ moved.dir = op.dir
    BY <1>1, StepSet DEF Steps, SameRun
  <2>2. op' = [moved EXCEPT !.phase = "forward-cleaned"]
    BY <1>6
  <2>3. "forward-cleaned" \in Reports
    BY PhasesNamed DEF Phases
  <2> HIDE DEF moved
  <2>4. op' \in Operations /\ op'.step = "restart" /\ op'.dir = op.dir
    BY <2>1, <2>2, <2>3, PhaseSet DEF SameRun
  <2>5. MigrationTypeOK' /\ ReportsAreTrue'
    BY <1>1, <1>3, <1>6, <2>4, GoesOn
  <2>6. Source' = "legacy" /\ Home' = "legacy"
    BY <1>1, <1>3, <1>6, <2>4 DEF Source
  <2>7. RunsAreJournalled' /\ SourceIsFrozen' /\ StagedIsSource'
    BY <2>4, <2>6 DEF RunsAreJournalled, SourceIsFrozen, StagedIsSource, CopyingSteps,
                      FrozenSteps, CopySteps
  <2> QED
    BY <1>3, <2>5, <2>7 DEF HostInv
<1> QED
  BY <1>4, <1>5, <1>6 DEF AdoptForward

LEMMA AdoptRollbackKeepsInv ==
    ASSUME HostInv, AdoptRollback
    PROVE  HostInv'
<1>1. /\ op.step = "recover" /\ op.dir = "recover-rollback" /\ op.step # "off"
      /\ UNCHANGED <<serving, copy, newest, journal, stray, runs, mishaps>>
      /\ stray \in BOOLEAN /\ runs \in 0..MaxRuns /\ lockAlive \in BOOLEAN
      /\ op \in Operations /\ journal \in Journals
  BY DEF AdoptRollback, HostInv, MigrationTypeOK
<1>2. WorldTyped' /\ HomeIsCurrent' /\ Home' = Home
  BY <1>1, WorldStays, MishapTyped
<1>3. CASE EndRun("none")
  BY <1>2, <1>3, EndedSilently
<1>4. CASE EndRun("rollback-committed") /\ journal.phase = "rollback-committed"
  <2>1. "rollback-committed" \in Reports
    BY PhasesNamed DEF Phases
  <2> QED
    BY <1>1, <1>2, <1>4, <2>1, Ended
<1>5. CASE /\ op' = [op EXCEPT !.step = "clean", !.phase = journal.phase]
           /\ journal.phase \in RollbackToUndo /\ UNCHANGED <<lockAlive, told>>
  <2> DEFINE moved == [op EXCEPT !.step = "clean"]
  <2>1. moved \in Operations /\ moved.step = "clean" /\ moved.dir = op.dir
    BY <1>1, StepSet DEF Steps, SameRun
  <2>2. op' = [moved EXCEPT !.phase = journal.phase]
    BY <1>5
  <2>3. journal.phase \in Reports
    BY <1>1 DEF Reports
  <2> HIDE DEF moved
  <2>4. op' \in Operations /\ op'.step = "clean" /\ op'.dir = op.dir /\ op'.phase = journal.phase
    BY <2>1, <2>2, <2>3, PhaseSet DEF SameRun
  <2>5. MigrationTypeOK' /\ ReportsAreTrue'
    BY <1>1, <1>2, <1>5, <2>4, GoesOn
  <2>6. RunsAreJournalled' /\ SourceIsFrozen' /\ StagedIsSource'
    BY <1>1, <1>2, <1>5, <2>4
       DEF RunsAreJournalled, SourceIsFrozen, StagedIsSource, CopyingSteps, FrozenSteps,
           CopySteps, Home, RollbackToUndo
  <2> QED
    BY <1>2, <2>5, <2>6 DEF HostInv
<1> QED
  BY <1>3, <1>4, <1>5 DEF AdoptRollback

LEMMA MishapKeepsInv ==
    ASSUME HostInv, CommandFails \/ OrchestratorDies
    PROVE  HostInv'
<1>1. UNCHANGED <<serving, copy, newest, journal, stray, runs>> /\ Mishap
  BY DEF CommandFails, OrchestratorDies
<1>2. WorldTyped' /\ HomeIsCurrent'
  BY <1>1, MishapTyped, WorldStays DEF HostInv, MigrationTypeOK
<1>3. CASE op.step # "off" /\ Fail
  BY <1>2, <1>3, Failed
<1>4. CASE EndRun("none")
  BY <1>2, <1>4, EndedSilently
<1> QED
  BY <1>3, <1>4 DEF CommandFails, OrchestratorDies

\* A step that leaves the orchestrator, the journal and the reports alone.
LEMMA RunStays ==
    ASSUME HostInv, UNCHANGED <<journal, op, told>>, WorldTyped', HomeIsCurrent',
           lockAlive' \in BOOLEAN, serving' = {} \/ op.step \notin FrozenSteps,
           op.step \in {"promote", "mark"} => UNCHANGED <<copy, newest>>
    PROVE  HostInv'
<1>1. MigrationTypeOK' /\ ReportsAreTrue'
  BY DEF HostInv, MigrationTypeOK, WorldTyped, ReportsAreTrue
<1>2. RunsAreJournalled'
  BY DEF HostInv, RunsAreJournalled, Home, Source
<1>3. SourceIsFrozen'
  BY DEF SourceIsFrozen
<1>4. StagedIsSource'
  BY DEF HostInv, StagedIsSource, StagedMatches, Source
<1> QED
  BY <1>1, <1>2, <1>3, <1>4 DEF HostInv

LEMMA LockDiesKeepsInv ==
    ASSUME HostInv, LockDies \/ StrayGone
    PROVE  HostInv'
<1>1. /\ UNCHANGED <<serving, copy, newest, journal, op, told, runs>>
      /\ lockAlive' \in BOOLEAN /\ stray' \in BOOLEAN /\ (Mishap \/ UNCHANGED mishaps)
  BY DEF LockDies, StrayGone, HostInv, MigrationTypeOK
<1>2. WorldTyped' /\ HomeIsCurrent'
  BY <1>1, MishapTyped, WorldStays DEF HostInv, MigrationTypeOK
<1>3. serving' = {} \/ op.step \notin FrozenSteps
  BY <1>1 DEF HostInv, SourceIsFrozen
<1> QED
  BY <1>1, <1>2, <1>3, RunStays

LEMMA AcceptWriteKeepsInv ==
    ASSUME HostInv, NEW h \in Hosts, AcceptWrite(h)
    PROVE  HostInv'
<1>1. /\ h \in serving /\ newest' = newest + 1 /\ copy' = [copy EXCEPT ![h] = newest + 1]
      /\ newest < MaxWrites
      /\ UNCHANGED <<serving, journal, op, lockAlive, stray, told, runs, mishaps>>
  BY DEF AcceptWrite
<1>2. newest' \in 0..MaxWrites /\ newest' \in Partial..MaxWrites
  BY <1>1, MigrationAssumption DEF HostInv, MigrationTypeOK, Partial
<1>3. copy' \in [Hosts -> Partial..MaxWrites] /\ copy'[h] = newest'
  BY <1>1, <1>2 DEF HostInv, MigrationTypeOK
<1>4. h = Home /\ Home' = Home
  BY <1>1 DEF HostInv, HomeIsCurrent, Home
<1>5. WorldTyped' /\ HomeIsCurrent'
  BY <1>1, <1>2, <1>3, <1>4 DEF HostInv, MigrationTypeOK, WorldTyped, HomeIsCurrent
<1>6. op.step \notin FrozenSteps /\ op.step \notin {"promote", "mark"}
  BY <1>1 DEF HostInv, SourceIsFrozen, FrozenSteps
<1>7. lockAlive' \in BOOLEAN
  BY <1>1 DEF HostInv, MigrationTypeOK
<1> QED
  BY <1>1, <1>5, <1>6, <1>7, RunStays

LEMMA StraySessionKeepsInv ==
    ASSUME HostInv, StraySession
    PROVE  HostInv'
<1>1. /\ op.step \in CopySteps /\ UNCHANGED <<serving, journal, op, lockAlive, told, runs>>
      /\ stray' \in BOOLEAN /\ (Mishap \/ UNCHANGED mishaps)
  BY DEF StraySession, HostInv, MigrationTypeOK
<1>2. op.step \in CopyingSteps /\ op.step \in FrozenSteps /\ op.step \notin {"promote", "mark"}
  BY <1>1 DEF CopyingSteps, FrozenSteps, CopySteps
<1>3. serving' = {} /\ lockAlive' \in BOOLEAN /\ mishaps' \in 0..MaxMishaps
  BY <1>1, <1>2, MishapTyped DEF HostInv, SourceIsFrozen, MigrationTypeOK
<1>4. CASE UNCHANGED <<copy, newest>>
  <2>1. WorldTyped' /\ HomeIsCurrent'
    BY <1>1, <1>3, <1>4, WorldStays DEF HostInv, MigrationTypeOK
  <2> QED
    BY <1>1, <1>3, <1>4, <2>1, RunStays
<1>5. CASE newest < MaxWrites /\ newest' = newest + 1 /\ copy' = [copy EXCEPT ![Source] = newest + 1]
  <2>1. newest' \in 0..MaxWrites /\ newest' \in Partial..MaxWrites
    BY <1>5, MigrationAssumption DEF HostInv, MigrationTypeOK, Partial
  <2>2. Source = Home /\ Source \in Hosts
    BY <1>2, SourceIsHome
  <2>3. copy' \in [Hosts -> Partial..MaxWrites] /\ copy'[Home] = newest'
    BY <1>5, <2>1, <2>2 DEF HostInv, MigrationTypeOK
  <2>4. Home' = Home
    BY <1>1 DEF Home
  <2>5. WorldTyped' /\ HomeIsCurrent'
    BY <1>1, <1>3, <2>1, <2>3, <2>4 DEF HostInv, MigrationTypeOK, WorldTyped, HomeIsCurrent
  <2> QED
    BY <1>1, <1>2, <1>3, <2>5, RunStays
<1> QED
  BY <1>4, <1>5 DEF StraySession

LEMMA StartDestinationKeepsInv ==
    ASSUME HostInv, StartDestination
    PROVE  HostInv'
<1>1. /\ op = NoMove /\ UNCHANGED <<copy, newest, journal, op, lockAlive, stray, told, runs, mishaps>>
      /\ told \in {"committed", "rollback-committed"}
      /\ \/ told = "committed" /\ serving' = serving \cup {"unraid"}
         \/ told = "rollback-committed" /\ serving' = serving \cup {"rollback"}
  BY DEF StartDestination
<1>2. journal.phase = told
  BY <1>1 DEF HostInv, ReportsAreTrue
<1>3. serving' = serving \cup {Home} /\ Home \in Hosts /\ Home' = Home
  BY <1>1, <1>2 DEF Home, Hosts
<1>4. WorldTyped' /\ HomeIsCurrent'
  BY <1>1, <1>3 DEF HostInv, MigrationTypeOK, WorldTyped, HomeIsCurrent
<1>5. op.step \notin FrozenSteps
  BY <1>1, NoMoveTyped DEF FrozenSteps, CopySteps
<1>6. lockAlive' \in BOOLEAN
  BY <1>1 DEF HostInv, MigrationTypeOK
<1> QED
  BY <1>1, <1>4, <1>5, <1>6, RunStays

-----------------------------------------------------------------------------

LEMMA MigrationStep ==
    ASSUME HostInv, [MigrationNext]_migrationVars
    PROVE  HostInv'
<1>1. CASE UNCHANGED migrationVars
  <2>1. UNCHANGED <<serving, copy, newest, journal, op, lockAlive, stray, told, runs, mishaps>>
    BY <1>1 DEF migrationVars
  <2> QED
    BY <2>1 DEF HostInv, MigrationTypeOK, HomeIsCurrent, Home, ReportsAreTrue, RunsAreJournalled,
                SourceIsFrozen, StagedIsSource, StagedMatches, Source
<1>2. CASE Orchestrate
  BY <1>2, CheckKeepsInv, BeginFreshTargetKeepsInv, BeginRollbackKeepsInv, PrepareKeepsInv,
     FreezeKeepsInv, InspectKeepsInv, StreamKeepsInv, CompareKeepsInv, RecheckKeepsInv,
     PromoteRemoteKeepsInv, PromoteLocalKeepsInv, MarkKeepsInv, RecoverForwardKeepsInv,
     RecoverRollbackKeepsInv, CleanKeepsInv, RestartKeepsInv, CompleteJournalKeepsInv,
     AdoptForwardKeepsInv, AdoptRollbackKeepsInv, Zenon DEF Orchestrate
<1> QED
  BY <1>1, <1>2, StartRunKeepsInv, MishapKeepsInv, LockDiesKeepsInv, AcceptWriteKeepsInv,
     StraySessionKeepsInv, StartDestinationKeepsInv, Zenon DEF MigrationNext

\* The invariant gives the property.
LEMMA HostInvSuffices == HostInv => OneCurrentServer
<1> SUFFICES ASSUME HostInv PROVE OneCurrentServer
  OBVIOUS
<1>1. Cardinality(serving) <= 1
  <2>1. IsFiniteSet({Home}) /\ Cardinality({Home}) = 1
    BY FS_Singleton
  <2>2. Cardinality(serving) <= Cardinality({Home})
    BY <2>1, FS_Subset DEF HostInv, HomeIsCurrent
  <2> QED
    BY <2>1, <2>2
<1>2. Home \in Hosts
  BY DEF Home, Hosts
<1> QED
  BY <1>1, <1>2 DEF HostInv, HomeIsCurrent, OneCurrentServer, OneServer, ServingIsCurrent,
                    NewestCopyKept

\* Whatever dies between two steps of a migration, a rollback or a recovery, and however
\* often, at most one stack accepts writes and it holds every write accepted before.
THEOREM OneHostServes == MigrationSpec => []OneCurrentServer
<1>1. ASSUME MigrationInit PROVE HostInv
  <2>1. op.step = "off" /\ op.dir = "off" /\ op \in Operations
    BY <1>1, NoMoveTyped DEF MigrationInit
  <2>2. journal \in Journals /\ journal.phase = "absent"
    BY <1>1, MigrationAssumption DEF MigrationInit, Absent, Journals
  <2>3. told = "none" /\ told \in Reports
    BY <1>1 DEF MigrationInit, Reports
  <2>4. /\ copy \in [Hosts -> Partial..MaxWrites]
        /\ copy["legacy"] = 0
    BY <1>1, MigrationAssumption DEF MigrationInit, Hosts, Nothing, Partial
  <2>5. MigrationTypeOK
    <3>1. serving \subseteq Hosts
      BY <1>1 DEF MigrationInit, Hosts
    <3>2. /\ newest \in 0..MaxWrites /\ runs \in 0..MaxRuns
          /\ mishaps \in 0..MaxMishaps
      BY <1>1, MigrationAssumption DEF MigrationInit
    <3>3. lockAlive \in BOOLEAN /\ stray \in BOOLEAN
      BY <1>1 DEF MigrationInit
    <3> QED
      BY <2>1, <2>2, <2>3, <2>4, <3>1, <3>2, <3>3 DEF MigrationTypeOK
  <2>6. HomeIsCurrent
    BY <1>1, <2>2, <2>4 DEF MigrationInit, HomeIsCurrent, Home
  <2>7. ReportsAreTrue
    BY <2>3 DEF ReportsAreTrue
  <2>8. RunsAreJournalled
    BY <2>1 DEF RunsAreJournalled, CopyingSteps, FrozenSteps, CopySteps
  <2>9. SourceIsFrozen /\ StagedIsSource
    BY <2>1 DEF SourceIsFrozen, StagedIsSource, FrozenSteps, CopySteps
  <2> QED
    BY <2>5, <2>6, <2>7, <2>8, <2>9 DEF HostInv
<1> QED
  BY <1>1, MigrationStep, HostInvSuffices, PTL DEF MigrationSpec

-----------------------------------------------------------------------------
(* The console: administrator access is proven.                            *)

\* One PIN at most can be used, or one setup go on, never both.
OneWayIn ==
    /\ \A i, j \in CurrentPins : i = j
    /\ \A i, j \in LiveSetups : i = j
    /\ CurrentPins = {} \/ LiveSetups = {}

\* A setup enables the factor exactly when the account had none.
SetupsFollowFactor == \A i \in LiveSetups : setups[i].mfaRequired <=> ~mfa.enabled

\* Secrets are numbered, and a replacement is not the secret in force.
SecretsAreStaged ==
    /\ mfa.secret <= mfa.staged /\ mfa.pending <= mfa.staged
    /\ mfa.enabled /\ mfa.pending # 0 => mfa.pending # mfa.secret

CodeRows == {"recovery", "totp"} \X (0..MaxSecrets) \X (0..LastStep + 1)

\* What a row remembers of a code that was accepted under its secret.
Remembers(row, c) ==
    c[2] = row.secret => IF c[1] = "totp" THEN c[3] <= row.last ELSE ~row.recovery

\* An accepted code is remembered while its secret is in force, and no secret
\* still to come has one.
SpentStaysSpent ==
    /\ spent \subseteq CodeRows
    /\ \A c \in spent :
          /\ Remembers(mfa, c) /\ c[2] <= mfa.staged
          /\ mfa.pending # 0 => c[2] # mfa.pending

\* A request was admitted with a session that exists.
PrincipalsExist ==
    /\ Len(adminSessions) <= MaxAdminSessions
    /\ \A r \in AdminSlots : principal[r] # 0 => principal[r] \in DOMAIN adminSessions

AdminInv ==
    /\ AdminTypeOK /\ OneWayIn /\ SetupsFollowFactor /\ SecretsAreStaged /\ SpentStaysSpent
    /\ PrincipalsExist /\ LiveSessionsHaveLiveDevices /\ ApprovedAfterProof /\ CodesWorkOnce

\* The bounds are numbers.
LEMMA AdminNumbers ==
    /\ PinAttempts \in Nat /\ MaxPins \in Nat /\ MaxChallenges \in Nat
    /\ MaxAdminSessions \in Nat /\ MaxSecrets \in Nat /\ LastStep \in Nat
BY AdminAssumption

\* A table updated row by row has the same rows, in number and place.
LEMMA RowsUpdated ==
    ASSUME NEW S, NEW s \in Seq(S), NEW f \in [DOMAIN s -> S]
    PROVE  f \in Seq(S) /\ DOMAIN f = DOMAIN s /\ Len(f) = Len(s)
<1>1. DOMAIN s = 1..Len(s) /\ Len(s) \in Nat
  OBVIOUS
<1>2. f \in Seq(S)
  BY <1>1, SeqDef
<1> QED
  BY <1>1, <1>2

\* A row added to a table leaves the others in place.
LEMMA RowAdded ==
    ASSUME NEW S, NEW s \in Seq(S), NEW x \in S
    PROVE  /\ Append(s, x) \in Seq(S) /\ Len(Append(s, x)) = Len(s) + 1
           /\ DOMAIN Append(s, x) = DOMAIN s \cup {Len(s) + 1}
           /\ Len(s) + 1 \notin DOMAIN s
           /\ \A i \in DOMAIN s : Append(s, x)[i] = s[i]
           /\ Append(s, x)[Len(s) + 1] = x
OBVIOUS

\* The greater of two numbers.
LEMMA GreaterOf ==
    ASSUME NEW a \in Nat, NEW b \in Nat, a <= b
    PROVE  Max({a, b}) = b
<1> DEFINE IsMax(x) == x \in {a, b} /\ \A y \in {a, b} : x >= y
<1>1. IsMax(b) /\ \A x : IsMax(x) => x = b
  OBVIOUS
<1> QED
  BY <1>1 DEF Max

LEMMA LesserOf ==
    ASSUME NEW a \in Nat, NEW b \in Nat
    PROVE  Min({a, b}) \in Nat /\ Min({a, b}) \in {a, b}
<1> DEFINE IsMin(x) == x \in {a, b} /\ \A y \in {a, b} : x <= y
<1>1. IsMin(a) \/ IsMin(b)
  OBVIOUS
<1>2. IsMin(Min({a, b}))
  BY <1>1 DEF Min
<1> QED
  BY <1>2

\* The next secret is a new one.
LEMMA NextSecretIsNew == AdminInv => NextSecret = mfa.staged + 1
<1> SUFFICES ASSUME AdminInv PROVE NextSecret = mfa.staged + 1
  OBVIOUS
<1>1. mfa.secret \in Nat /\ mfa.staged \in Nat /\ mfa.secret <= mfa.staged
  BY DEF AdminInv, AdminTypeOK, MfaRows, SecretsAreStaged
<1> QED
  BY <1>1, GreaterOf DEF NextSecret

\* Sessions and setups are of keys.
LEMMA KeysOfRows ==
    ASSUME AdminInv
    PROVE  /\ \A i \in DOMAIN adminSessions : adminSessions[i].device \in DeviceKeys
           /\ \A i \in DOMAIN setups : setups[i].device \in DeviceKeys
<1>1. /\ \A i \in DOMAIN adminSessions : adminSessions[i] \in AdminSessionRows
      /\ \A i \in DOMAIN setups : setups[i] \in SetupRows
  BY DEF AdminInv, AdminTypeOK
<1> QED
  BY <1>1 DEF AdminSessionRows, SetupRows

LEMMA CountersTyped == AdminInv => Counters \subseteq 0..LastStep + 1
BY AdminNumbers DEF AdminInv, AdminTypeOK, Counters

-----------------------------------------------------------------------------
(* What most steps leave alone                                             *)

LEMMA FactorAlone ==
    ASSUME AdminInv, UNCHANGED <<mfa, spent, replayed>>
    PROVE  SecretsAreStaged' /\ SpentStaysSpent' /\ CodesWorkOnce'
BY DEF AdminInv, SecretsAreStaged, SpentStaysSpent, CodesWorkOnce, Remembers, CodeRows

LEMMA SetupsAlone ==
    ASSUME AdminInv, UNCHANGED <<pins, setups>>, mfa'.enabled = mfa.enabled
    PROVE  OneWayIn' /\ SetupsFollowFactor'
BY DEF AdminInv, OneWayIn, SetupsFollowFactor, CurrentPins, LiveSetups

LEMMA DevicesAlone ==
    ASSUME AdminInv, UNCHANGED <<devices, adminSessions>>, mfa.enabled => mfa'.enabled
    PROVE  LiveSessionsHaveLiveDevices' /\ ApprovedAfterProof'
BY DEF AdminInv, LiveSessionsHaveLiveDevices, ApprovedAfterProof, LiveDevice

LEMMA PrincipalsAlone ==
    ASSUME AdminInv, UNCHANGED <<principal, adminSessions>>
    PROVE  PrincipalsExist' /\ principal' \in [AdminSlots -> 0..MaxAdminSessions]
BY DEF AdminInv, PrincipalsExist, AdminTypeOK

\* A request that ends.
LEMMA PrincipalEnds ==
    ASSUME AdminInv, NEW r \in AdminSlots, principal' = [principal EXCEPT ![r] = 0],
           DOMAIN adminSessions \subseteq DOMAIN adminSessions',
           Len(adminSessions') <= MaxAdminSessions
    PROVE  PrincipalsExist' /\ principal' \in [AdminSlots -> 0..MaxAdminSessions]
BY AdminNumbers DEF AdminInv, PrincipalsExist, AdminTypeOK

\* Whoever holds a live session holds it on an account with a factor.
LEMMA SessionNeedsFactor ==
    ASSUME AdminInv, NEW r \in AdminSlots, principal[r] # 0, StillAdmitted(principal[r])
    PROVE  /\ principal[r] \in DOMAIN adminSessions /\ mfa.enabled
           /\ adminSessions[principal[r]].device \in DeviceKeys
           /\ LiveDevice(adminSessions[principal[r]].device)
<1>1. principal[r] \in DOMAIN adminSessions
  BY DEF AdminInv, PrincipalsExist
<1>2. adminSessions[principal[r]] \in AdminSessionRows
  BY <1>1 DEF AdminInv, AdminTypeOK
<1> QED
  BY <1>1, <1>2
     DEF AdminInv, AdminSessionRows, StillAdmitted, Admitted, LiveDevice, ApprovedAfterProof

-----------------------------------------------------------------------------
(* Codes                                                                   *)

\* The pending secret becomes the factor.
LEMMA EnabledTyped ==
    ASSUME AdminInv, NEW code \in {"totp"} \X {mfa.pending} \X Counters
    PROVE  /\ Enabled(code) \in MfaRows
           /\ Enabled(code).enabled /\ Enabled(code).secret = mfa.pending
           /\ Enabled(code).pending = 0 /\ Enabled(code).staged = mfa.staged
           /\ Enabled(code).last = code[3] /\ Enabled(code).recovery
<1>1. code[1] = "totp" /\ code[2] = mfa.pending /\ code[3] \in 0..LastStep + 1
  BY CountersTyped
<1>2. mfa.pending \in 0..MaxSecrets /\ mfa \in MfaRows
  BY DEF AdminInv, AdminTypeOK, MfaRows
<1> DEFINE a == [mfa EXCEPT !.enabled = TRUE]
           b == [a EXCEPT !.secret = code[2]]
           c == [b EXCEPT !.pending = 0]
           d == [c EXCEPT !.last = code[3]]
           e == [d EXCEPT !.recovery = TRUE]
<1>3. a \in MfaRows /\ a.enabled /\ a.staged = mfa.staged
  BY <1>2 DEF MfaRows
<1>4. Enabled(code) = e
  BY DEF Enabled
<1> HIDE DEF a
<1>5. b \in MfaRows /\ b.enabled /\ b.staged = mfa.staged /\ b.secret = mfa.pending
  BY <1>1, <1>2, <1>3 DEF MfaRows
<1> HIDE DEF b
<1>6. /\ c \in MfaRows /\ c.enabled /\ c.staged = mfa.staged /\ c.secret = mfa.pending
      /\ c.pending = 0
  BY <1>5, AdminNumbers DEF MfaRows
<1> HIDE DEF c
<1>7. /\ d \in MfaRows /\ d.enabled /\ d.staged = mfa.staged /\ d.secret = mfa.pending
      /\ d.pending = 0 /\ d.last = code[3]
  <2>1. code[3] \in -1..LastStep + 1
    BY <1>1, AdminNumbers
  <2> QED
    BY <1>1, <1>6, <2>1 DEF MfaRows
<1> HIDE DEF d
<1>8. /\ e \in MfaRows /\ e.enabled /\ e.staged = mfa.staged /\ e.secret = mfa.pending
      /\ e.pending = 0 /\ e.last = code[3] /\ e.recovery
  BY <1>7 DEF MfaRows
<1> QED
  BY <1>4, <1>8

\* A code that was not accepted before is accepted for the first time.
LEMMA SpentOnce ==
    ASSUME AdminInv, NEW code, code \notin spent, Spend(code)
    PROVE  CodesWorkOnce' /\ replayed' \in BOOLEAN
<1>1. ~replayed /\ replayed' = (replayed \/ code \in spent)
  BY DEF AdminInv, CodesWorkOnce, Spend
<1> QED
  BY <1>1, Zenon DEF CodesWorkOnce

LEMMA EnablingKeeps ==
    ASSUME AdminInv, mfa.pending # 0,
           NEW code \in {"totp"} \X {mfa.pending} \X Counters, mfa' = Enabled(code), Spend(code)
    PROVE  /\ SecretsAreStaged' /\ SpentStaysSpent' /\ CodesWorkOnce'
           /\ mfa' \in MfaRows /\ mfa'.enabled /\ replayed' \in BOOLEAN
<1>1. /\ mfa' \in MfaRows /\ mfa'.enabled /\ mfa'.secret = mfa.pending /\ mfa'.pending = 0
      /\ mfa'.staged = mfa.staged /\ mfa'.last = code[3] /\ mfa'.recovery
  BY EnabledTyped
<1>2. /\ code \in CodeRows /\ code[1] = "totp" /\ code[2] = mfa.pending
      /\ code[3] \in 0..LastStep + 1
  BY CountersTyped DEF AdminInv, AdminTypeOK, MfaRows, CodeRows
<1>3. code \notin spent
  BY <1>2 DEF AdminInv, SpentStaysSpent
<1>4. /\ mfa.secret \in Nat /\ mfa.pending \in Nat /\ mfa.staged \in Nat
      /\ mfa.pending <= mfa.staged
  BY DEF AdminInv, AdminTypeOK, MfaRows, SecretsAreStaged
<1>5. spent' = spent \cup {code}
  BY DEF Spend
<1>6. SecretsAreStaged'
  BY <1>1, <1>4 DEF SecretsAreStaged
<1>7. ASSUME NEW c \in spent' PROVE Remembers(mfa, c)' /\ c[2] <= mfa'.staged
  <2>1. CASE c = code
    BY <1>1, <1>2, <1>4, <2>1 DEF Remembers
  <2>2. CASE c \in spent
    BY <1>1, <1>4, <2>2 DEF Remembers, AdminInv, SpentStaysSpent
  <2> QED
    BY <1>5, <2>1, <2>2
<1>8. SpentStaysSpent'
  BY <1>1, <1>2, <1>5, <1>7 DEF SpentStaysSpent, AdminInv, CodeRows
<1>9. CodesWorkOnce' /\ replayed' \in BOOLEAN
  BY <1>3, SpentOnce
<1> QED
  BY <1>1, <1>6, <1>8, <1>9

\* A code of the factor in force that is accepted was not accepted before, and
\* will not be again.
LEMMA RememberKeeps ==
    ASSUME AdminInv, NEW code \in Codes, CodeAccepted(code), Spend(code)
    PROVE  LET n == Remember(mfa, code) IN
           /\ n \in MfaRows /\ n.enabled = mfa.enabled /\ n.secret = mfa.secret
           /\ n.pending = mfa.pending /\ n.staged = mfa.staged
           /\ CodesWorkOnce' /\ replayed' \in BOOLEAN /\ spent' \subseteq CodeRows
           /\ \A c \in spent' : Remembers(n, c)
           /\ \A c \in spent' : c \in spent \/ c[2] = mfa.secret
<1> DEFINE n == Remember(mfa, code)
<1>1. /\ code \in CodeRows /\ code[2] = mfa.secret /\ code[1] \in {"recovery", "totp"}
      /\ code[1] = "totp" => code[3] \in 0..LastStep + 1
  <2>1. Counters \subseteq 0..LastStep + 1 /\ mfa.secret \in 0..MaxSecrets /\ 0 \in 0..LastStep + 1
    BY CountersTyped, AdminNumbers DEF AdminInv, AdminTypeOK, MfaRows
  <2>2. CASE code \in {"recovery"} \X {mfa.secret} \X {0}
    BY <2>1, <2>2 DEF CodeRows
  <2>3. CASE code \in {"totp"} \X {mfa.secret} \X Counters
    BY <2>1, <2>3 DEF CodeRows
  <2> QED
    BY <2>2, <2>3 DEF Codes
<1>2. /\ mfa \in MfaRows /\ mfa.last \in -1..LastStep + 1 /\ mfa.recovery \in BOOLEAN
      /\ \A c \in spent : c \in CodeRows /\ c[3] \in Nat /\ Remembers(mfa, c)
  BY DEF AdminInv, AdminTypeOK, MfaRows, SpentStaysSpent, CodeRows
<1>3. IF code[1] = "totp" THEN code[3] > mfa.last ELSE mfa.recovery
  BY DEF CodeAccepted
<1>4. code \notin spent
  BY <1>1, <1>2, <1>3 DEF Remembers
<1>5. spent' = spent \cup {code}
  BY DEF Spend
<1>6. /\ n \in MfaRows /\ n.enabled = mfa.enabled /\ n.secret = mfa.secret
      /\ n.pending = mfa.pending /\ n.staged = mfa.staged
      /\ IF code[1] = "totp" THEN n.last = code[3] /\ n.recovery = mfa.recovery
                             ELSE n.last = mfa.last /\ ~n.recovery
  <2>1. CASE code[1] = "recovery"
    <3>1. n = [mfa EXCEPT !.recovery = FALSE]
      BY <2>1 DEF Remember
    <3> QED
      BY <1>2, <2>1, <3>1 DEF MfaRows
  <2>2. CASE code[1] = "totp"
    <3>1. n = [mfa EXCEPT !.last = code[3]]
      BY <2>2 DEF Remember
    <3>2. code[3] \in -1..LastStep + 1
      BY <1>1, <2>2, AdminNumbers
    <3> QED
      BY <1>2, <2>2, <3>1, <3>2 DEF MfaRows
  <2> QED
    BY <1>1, <2>1, <2>2
<1> HIDE DEF n
<1>7. ASSUME NEW c \in spent' PROVE Remembers(n, c) /\ (c \in spent \/ c[2] = mfa.secret)
  <2>1. CASE c = code
    BY <1>1, <1>6, <2>1 DEF Remembers
  <2>2. CASE c \in spent
    BY <1>1, <1>2, <1>3, <1>6, <2>2 DEF Remembers
  <2> QED
    BY <1>5, <2>1, <2>2
<1>8. spent' \subseteq CodeRows
  BY <1>1, <1>2, <1>5
<1>9. CodesWorkOnce' /\ replayed' \in BOOLEAN
  BY <1>4, SpentOnce
<1> QED
  BY <1>6, <1>7, <1>8, <1>9 DEF n

-----------------------------------------------------------------------------
(* Tables                                                                  *)

LEMMA ChallengeIssued ==
    ASSUME AdminInv, NEW k \in DeviceKeys, NEW purpose \in {"bootstrap", "session"},
           NewChallenge(k, purpose)
    PROVE  challenges' \in Seq(ChallengeRows)
<1> DEFINE row == [device |-> k, purpose |-> purpose, open |-> TRUE]
<1>1. row \in ChallengeRows /\ challenges \in Seq(ChallengeRows)
  BY DEF ChallengeRows, AdminInv, AdminTypeOK
<1>2. challenges' = Append(challenges, row)
  BY DEF NewChallenge
<1> HIDE DEF row
<1> QED
  BY <1>1, <1>2, RowAdded

LEMMA ChallengeConsumed ==
    ASSUME AdminInv, NEW c \in DOMAIN challenges, NEW k, NEW purpose, Consumes(c, k, purpose)
    PROVE  challenges' \in Seq(ChallengeRows)
<1>1. challenges \in Seq(ChallengeRows) /\ \A i \in DOMAIN challenges : challenges[i] \in ChallengeRows
  BY DEF AdminInv, AdminTypeOK
<1>2. [challenges[c] EXCEPT !.open = FALSE] \in ChallengeRows
  BY <1>1 DEF ChallengeRows
<1>3. challenges' \in [DOMAIN challenges -> ChallengeRows]
  BY <1>1, <1>2 DEF Consumes
<1> QED
  BY <1>1, <1>3, RowsUpdated

\* A new session of a device that lives.
LEMMA SessionAdded ==
    ASSUME NEW rows \in Seq(AdminSessionRows), NEW k \in DeviceKeys
    PROVE  /\ WithSession(rows, k) \in Seq(AdminSessionRows)
           /\ DOMAIN WithSession(rows, k) = DOMAIN rows \cup {Len(rows) + 1}
           /\ \A i \in DOMAIN rows : WithSession(rows, k)[i] = rows[i]
           /\ WithSession(rows, k)[Len(rows) + 1] = [device |-> k, revoked |-> FALSE]
<1>1. [device |-> k, revoked |-> FALSE] \in AdminSessionRows
  BY DEF AdminSessionRows
<1> QED
  BY <1>1, RowAdded DEF WithSession

\* Every session ends.
LEMMA SessionsEnd ==
    ASSUME NEW rows \in Seq(AdminSessionRows)
    PROVE  /\ AllRevoked(rows) \in Seq(AdminSessionRows)
           /\ DOMAIN AllRevoked(rows) = DOMAIN rows
           /\ \A i \in DOMAIN rows : AllRevoked(rows)[i].revoked
<1>1. \A i \in DOMAIN rows : rows[i] \in AdminSessionRows
  OBVIOUS
<1>2. AllRevoked(rows) \in [DOMAIN rows -> AdminSessionRows]
  BY <1>1 DEF AllRevoked, AdminSessionRows
<1>3. \A i \in DOMAIN rows : AllRevoked(rows)[i].revoked
  BY <1>1 DEF AllRevoked, AdminSessionRows
<1> QED
  BY <1>2, <1>3, RowsUpdated

\* A session is added for a device that lives, to sessions of devices that live or to
\* none that is live.
LEMMA SignedIn ==
    ASSUME AdminInv, NEW rows \in Seq(AdminSessionRows), NEW k \in DeviceKeys,
           DOMAIN rows = DOMAIN adminSessions,
           \A i \in DOMAIN rows : rows[i].revoked \/ rows[i] = adminSessions[i],
           adminSessions' = WithSession(rows, k), RoomForSession,
           devices'[k].approved, ~devices'[k].revoked,
           \A q \in DeviceKeys : LiveDevice(q) => devices'[q].approved /\ ~devices'[q].revoked
    PROVE  /\ adminSessions' \in Seq(AdminSessionRows) /\ Len(adminSessions') <= MaxAdminSessions
           /\ DOMAIN adminSessions \subseteq DOMAIN adminSessions'
           /\ LiveSessionsHaveLiveDevices'
<1>1. /\ adminSessions' \in Seq(AdminSessionRows)
      /\ DOMAIN adminSessions' = DOMAIN rows \cup {Len(rows) + 1}
      /\ \A i \in DOMAIN rows : adminSessions'[i] = rows[i]
      /\ adminSessions'[Len(rows) + 1] = [device |-> k, revoked |-> FALSE]
  BY SessionAdded
<1>2. \A i \in DOMAIN adminSessions : adminSessions[i].device \in DeviceKeys
  BY KeysOfRows
<1>3. ASSUME NEW i \in DOMAIN adminSessions', ~adminSessions'[i].revoked
      PROVE  LET q == adminSessions'[i].device IN devices'[q].approved /\ ~devices'[q].revoked
  <2>1. CASE i \in DOMAIN rows
    <3>1. adminSessions'[i] = adminSessions[i]
      BY <1>1, <1>3, <2>1
    <3>2. LiveDevice(adminSessions[i].device)
      BY <1>3, <2>1, <3>1 DEF AdminInv, LiveSessionsHaveLiveDevices
    <3> QED
      BY <1>2, <2>1, <3>1, <3>2
  <2>2. CASE i = Len(rows) + 1
    BY <1>1, <2>2
  <2> QED
    BY <1>1, <1>3, <2>1, <2>2
<1>4. LiveSessionsHaveLiveDevices'
  BY <1>3 DEF LiveSessionsHaveLiveDevices, LiveDevice
<1>5. Len(adminSessions') <= MaxAdminSessions
  <2>1. Len(rows) = Len(adminSessions)
    BY DEF AdminInv, AdminTypeOK
  <2>2. Len(adminSessions') = Len(rows) + 1
    BY RowAdded DEF WithSession, AdminSessionRows
  <2> QED
    BY <2>1, <2>2, AdminNumbers DEF RoomForSession, AdminInv, AdminTypeOK
<1> QED
  BY <1>1, <1>4, <1>5

-----------------------------------------------------------------------------
(* The steps                                                               *)

LEMMA AdminInitInv == AdminInit => AdminInv
<1> SUFFICES ASSUME AdminInit PROVE AdminInv
  OBVIOUS
<1>1. AdminTypeOK
  <2>1. devices \in [DeviceKeys -> DeviceRows]
    BY DEF AdminInit, DeviceRows, NewDevice
  <2>2. mfa \in MfaRows
    <3>1. 0 \in 0..MaxSecrets /\ -1 \in -1..LastStep + 1
      BY AdminNumbers
    <3> QED
      BY <3>1 DEF AdminInit, MfaRows
  <2>3. /\ pins \in Seq(PinRows) /\ setups \in Seq(SetupRows)
        /\ challenges \in Seq(ChallengeRows) /\ adminSessions \in Seq(AdminSessionRows)
    BY DEF AdminInit
  <2>4. step \in 0..LastStep /\ principal \in [AdminSlots -> 0..MaxAdminSessions]
    BY AdminNumbers DEF AdminInit
  <2>5. replayed \in BOOLEAN
    BY DEF AdminInit
  <2> QED
    BY <2>1, <2>2, <2>3, <2>4, <2>5 DEF AdminTypeOK
<1>2. OneWayIn /\ SetupsFollowFactor
  BY DEF AdminInit, OneWayIn, SetupsFollowFactor, CurrentPins, LiveSetups
<1>3. SecretsAreStaged /\ SpentStaysSpent /\ PrincipalsExist /\ CodesWorkOnce
  BY AdminNumbers
     DEF AdminInit, SecretsAreStaged, SpentStaysSpent, PrincipalsExist, CodesWorkOnce
<1>4. LiveSessionsHaveLiveDevices /\ ApprovedAfterProof
  BY DEF AdminInit, LiveSessionsHaveLiveDevices, ApprovedAfterProof, NewDevice
<1> QED
  BY <1>1, <1>2, <1>3, <1>4 DEF AdminInv

\* A new PIN ends the other ways in, and revokes only devices that are not in use.
LEMMA IssuePinInv == ASSUME AdminInv, IssuePin PROVE AdminInv'
<1> USE DEF AdminInv
<1>1. /\ UNCHANGED <<mfa, spent, replayed>> /\ UNCHANGED <<principal, adminSessions>>
      /\ UNCHANGED <<challenges, step>>
  BY DEF IssuePin
<1> DEFINE pin == [status |-> "open", failed |-> 0, expired |-> FALSE]
<1>2. /\ InvalidatedPins \in Seq(PinRows)
      /\ DOMAIN InvalidatedPins = DOMAIN pins
      /\ \A i \in DOMAIN pins : InvalidatedPins[i].status # "open"
  <2>1. \A i \in DOMAIN pins : pins[i] \in PinRows
    BY DEF AdminTypeOK
  <2>2. InvalidatedPins \in [DOMAIN pins -> PinRows]
    BY <2>1 DEF InvalidatedPins, PinRows
  <2>3. \A i \in DOMAIN pins : InvalidatedPins[i].status # "open"
    BY <2>1 DEF InvalidatedPins, PinRows
  <2> QED
    BY <2>2, <2>3, RowsUpdated DEF AdminTypeOK
<1>3. pin \in PinRows /\ pin.status = "open"
  BY DEF PinRows
<1>4. /\ pins' \in Seq(PinRows) /\ CurrentPins' = {Len(InvalidatedPins) + 1}
  <2> HIDE DEF pin
  <2>1. pins' = Append(InvalidatedPins, pin)
    BY DEF IssuePin, pin
  <2> QED
    BY <1>2, <1>3, <2>1, RowAdded DEF CurrentPins
<1>5. setups' \in Seq(SetupRows) /\ LiveSetups' = {}
  <2>1. \A i \in DOMAIN setups : setups[i] \in SetupRows
    BY DEF AdminTypeOK
  <2>2. \A i \in DOMAIN setups : LET row == [setups[i] EXCEPT !.expired = TRUE, !.completed = @ \/ i \in LiveSetups]
                                 IN row \in SetupRows /\ row.expired
    BY <2>1 DEF SetupRows
  <2>3. setups' \in [DOMAIN setups -> SetupRows] /\ \A i \in DOMAIN setups : setups'[i].expired
    BY <2>2 DEF IssuePin
  <2> QED
    BY <2>3, RowsUpdated DEF AdminTypeOK, LiveSetups
<1>6. /\ devices' \in [DeviceKeys -> DeviceRows]
      /\ \A k \in DeviceKeys : /\ devices'[k].approved = devices[k].approved
                               /\ devices'[k].proven = devices[k].proven
                               /\ devices[k].approved => devices'[k] = devices[k]
  <2>1. \A k \in DeviceKeys : devices[k] \in DeviceRows
    BY DEF AdminTypeOK
  <2> QED
    BY <2>1 DEF IssuePin, DeviceRows
<1>7. OneWayIn' /\ SetupsFollowFactor'
  BY <1>4, <1>5 DEF OneWayIn, SetupsFollowFactor
<1>8. LiveSessionsHaveLiveDevices'
  <2>1. \A i \in DOMAIN adminSessions : adminSessions[i].device \in DeviceKeys
    BY KeysOfRows
  <2> QED
    BY <1>1, <1>6, <2>1 DEF LiveSessionsHaveLiveDevices, LiveDevice
<1>9. ApprovedAfterProof'
  BY <1>1, <1>6 DEF ApprovedAfterProof
<1> QED
  BY <1>1, <1>4, <1>5, <1>6, <1>7, <1>8, <1>9, FactorAlone, PrincipalsAlone DEF AdminTypeOK

LEMMA WrongPinInv == ASSUME AdminInv, WrongPin PROVE AdminInv'
<1> USE DEF AdminInv
<1>1. /\ UNCHANGED <<mfa, spent, replayed>> /\ UNCHANGED <<principal, adminSessions>>
      /\ UNCHANGED <<challenges, step>> /\ UNCHANGED <<devices, adminSessions>> /\ setups' = setups
  BY DEF WrongPin
<1>2. PICK i \in CurrentPins :
          LET failed == Min({PinAttempts, pins[i].failed + 1}) IN
          pins' = [pins EXCEPT ![i].failed = failed,
                               ![i].status = IF failed = PinAttempts THEN "invalidated" ELSE "open"]
  BY DEF WrongPin
<1> DEFINE failed == Min({PinAttempts, pins[i].failed + 1})
           status == IF failed = PinAttempts THEN "invalidated" ELSE "open"
<1>3. i \in DOMAIN pins /\ \A j \in DOMAIN pins : pins[j] \in PinRows
  BY DEF CurrentPins, AdminTypeOK
<1>4. failed \in Nat /\ status \in {"open", "consumed", "invalidated"}
  BY <1>3, AdminNumbers, LesserOf DEF PinRows
<1> HIDE DEF failed, status
<1>5. [pins[i] EXCEPT !.failed = failed, !.status = status] \in PinRows
  BY <1>3, <1>4 DEF PinRows
<1>6. pins' = [pins EXCEPT ![i] = [pins[i] EXCEPT !.failed = failed, !.status = status]]
  BY <1>2, <1>3 DEF failed, status
<1>7. pins' \in [DOMAIN pins -> PinRows] /\ CurrentPins' \subseteq CurrentPins
  BY <1>3, <1>5, <1>6 DEF CurrentPins
<1>8. pins' \in Seq(PinRows)
  BY <1>7, RowsUpdated DEF AdminTypeOK
<1>9. OneWayIn' /\ SetupsFollowFactor'
  BY <1>1, <1>7 DEF OneWayIn, SetupsFollowFactor, LiveSetups
<1> QED
  BY <1>1, <1>8, <1>9, FactorAlone, PrincipalsAlone, DevicesAlone DEF AdminTypeOK

\* Staging a key that is not live ends no session, and the PIN is used up.
LEMMA StartBootstrapInv == ASSUME AdminInv, NEW k \in DeviceKeys, StartBootstrap(k) PROVE AdminInv'
<1> USE DEF AdminInv
<1>1. /\ UNCHANGED <<principal, adminSessions>> /\ UNCHANGED <<step, spent, replayed>>
      /\ CanStage(k) /\ devices' = [devices EXCEPT ![k] = Staged]
  BY DEF StartBootstrap
<1>2. challenges' \in Seq(ChallengeRows)
  <2>1. NewChallenge(k, "bootstrap")
    BY DEF StartBootstrap, NewChallenge
  <2> QED
    BY <2>1, ChallengeIssued
<1>3. /\ mfa' \in MfaRows /\ mfa'.enabled = mfa.enabled
      /\ IF mfa.enabled THEN mfa' = mfa
         ELSE /\ mfa'.secret = mfa.staged + 1 /\ mfa'.pending = mfa.staged + 1
              /\ mfa'.staged = mfa.staged + 1
  <2>1. NextSecret = mfa.staged + 1 /\ mfa \in MfaRows
    BY NextSecretIsNew DEF AdminTypeOK
  <2>2. CASE mfa.enabled
    BY <2>1, <2>2 DEF StartBootstrap
  <2>3. CASE ~mfa.enabled
    <3>1. /\ mfa' = [mfa EXCEPT !.secret = NextSecret, !.pending = NextSecret, !.staged = NextSecret]
          /\ NextSecret \in 0..MaxSecrets
      BY <2>1, <2>3, AdminNumbers DEF StartBootstrap, MfaRows
    <3> QED
      BY <2>1, <2>3, <3>1 DEF MfaRows
  <2> QED
    BY <2>2, <2>3
<1>4. \A c \in spent : c[2] \in Nat /\ c[2] <= mfa.staged
  BY DEF SpentStaysSpent, CodeRows
<1>5. SecretsAreStaged'
  BY <1>3 DEF SecretsAreStaged, AdminTypeOK, MfaRows
<1>6. SpentStaysSpent'
  <2>1. CASE mfa.enabled
    BY <1>1, <1>3, <2>1 DEF SpentStaysSpent, Remembers, CodeRows
  <2>2. CASE ~mfa.enabled
    <3>1. mfa.staged \in Nat
      BY DEF AdminTypeOK, MfaRows
    <3>2. \A c \in spent : Remembers(mfa', c) /\ c[2] <= mfa'.staged /\ c[2] # mfa'.pending
      BY <1>3, <1>4, <2>2, <3>1 DEF Remembers
    <3> QED
      BY <1>1, <3>2 DEF SpentStaysSpent, Remembers, CodeRows
  <2> QED
    BY <2>1, <2>2
<1>7. PICK i \in CurrentPins : pins' = [pins EXCEPT ![i] = PinAfterUse(pins[i])]
  BY DEF StartBootstrap
<1>8. pins' \in Seq(PinRows) /\ CurrentPins' = {} /\ LiveSetups = {}
  <2>1. i \in DOMAIN pins /\ \A j \in DOMAIN pins : pins[j] \in PinRows
    BY DEF CurrentPins, AdminTypeOK
  <2>2. PinAfterUse(pins[i]) \in PinRows /\ PinAfterUse(pins[i]).status = "consumed"
    BY <2>1 DEF PinAfterUse, PinRows
  <2>3. pins' \in [DOMAIN pins -> PinRows]
    BY <1>7, <2>1, <2>2
  <2>4. \A j \in DOMAIN pins : pins[j].status = "open" => j = i
    BY DEF OneWayIn, CurrentPins
  <2>5. CurrentPins' = {}
    BY <1>7, <2>1, <2>2, <2>4 DEF CurrentPins
  <2> QED
    BY <1>7, <2>3, <2>5, RowsUpdated DEF AdminTypeOK, OneWayIn
<1> DEFINE row == [device |-> k, confirmed |-> FALSE, mfaRequired |-> ~mfa.enabled,
                   completed |-> FALSE, expired |-> FALSE]
<1>9. row \in SetupRows /\ ~row.expired /\ (row.mfaRequired <=> ~mfa.enabled)
  BY DEF SetupRows, AdminTypeOK, MfaRows
<1>10. setups' = Append(setups, row)
  BY DEF StartBootstrap
<1> HIDE DEF row
<1>11. /\ setups' \in Seq(SetupRows) /\ LiveSetups' = {Len(setups) + 1}
       /\ setups'[Len(setups) + 1] = row
  BY <1>8, <1>9, <1>10, RowAdded DEF AdminTypeOK, LiveSetups
<1>12. OneWayIn' /\ SetupsFollowFactor'
  BY <1>3, <1>8, <1>9, <1>11 DEF OneWayIn, SetupsFollowFactor
<1>13. /\ devices' \in [DeviceKeys -> DeviceRows] /\ ~devices'[k].approved
       /\ \A q \in DeviceKeys \ {k} : devices'[q] = devices[q]
  BY <1>1 DEF Staged, NewDevice, DeviceRows, AdminTypeOK
<1>14. LiveSessionsHaveLiveDevices'
  <2>1. \A s \in DOMAIN adminSessions : adminSessions[s].device \in DeviceKeys
    BY KeysOfRows
  <2> QED
    BY <1>1, <1>13, <2>1 DEF LiveSessionsHaveLiveDevices, LiveDevice, CanStage
<1>15. ApprovedAfterProof'
  BY <1>3, <1>13 DEF ApprovedAfterProof
<1>16. CodesWorkOnce' /\ replayed' \in BOOLEAN /\ step' \in 0..LastStep
  BY <1>1 DEF CodesWorkOnce, AdminTypeOK
<1> QED
  BY <1>2, <1>3, <1>5, <1>6, <1>8, <1>11, <1>12, <1>13, <1>14, <1>15, <1>16,
     <1>1, PrincipalsAlone DEF AdminTypeOK

\* Steps that only issue a challenge.
LEMMA ChallengeOnlyInv ==
    ASSUME AdminInv, NEW k \in DeviceKeys, NEW purpose \in {"bootstrap", "session"},
           NewChallenge(k, purpose),
           UNCHANGED <<pins, setups, devices, adminSessions, mfa, step, principal, spent, replayed>>
    PROVE  AdminInv'
<1> USE DEF AdminInv
<1>1. /\ UNCHANGED <<mfa, spent, replayed>> /\ UNCHANGED <<principal, adminSessions>>
      /\ UNCHANGED <<pins, setups>> /\ UNCHANGED <<devices, adminSessions>> /\ step' = step
  OBVIOUS
<1>2. AdminTypeOK'
  BY <1>1, ChallengeIssued DEF AdminTypeOK
<1> QED
  BY <1>1, <1>2, FactorAlone, SetupsAlone, DevicesAlone, PrincipalsAlone

\* Completing a setup: its device is proven and the account has a factor.
LEMMA CompleteKeeps ==
    ASSUME AdminInv, NEW i \in DOMAIN setups, ~devices[setups[i].device].revoked,
           NEW rows \in Seq(AdminSessionRows), DOMAIN rows = DOMAIN adminSessions,
           \A s \in DOMAIN rows : rows[s].revoked \/ rows[s] = adminSessions[s],
           setups'[i].confirmed, setups'[i].device = setups[i].device,
           Complete(i, rows), mfa'.enabled
    PROVE  /\ devices' \in [DeviceKeys -> DeviceRows]
           /\ adminSessions' \in Seq(AdminSessionRows) /\ Len(adminSessions') <= MaxAdminSessions
           /\ DOMAIN adminSessions \subseteq DOMAIN adminSessions'
           /\ LiveSessionsHaveLiveDevices' /\ ApprovedAfterProof'
<1> DEFINE k == setups[i].device
           approved == [devices[k] EXCEPT !.approved = TRUE]
           credited == [approved EXCEPT !.credential = TRUE]
           proven == [credited EXCEPT !.proven = TRUE]
<1>1. k \in DeviceKeys
  BY KeysOfRows
<1>2. devices[k] \in DeviceRows
  BY <1>1 DEF AdminInv, AdminTypeOK
<1>3. /\ proven \in DeviceRows /\ proven.approved /\ proven.proven
      /\ proven.revoked = devices[k].revoked
  BY <1>2 DEF DeviceRows
<1>4. devices' = [devices EXCEPT ![k] = proven]
  BY <1>1, <1>2 DEF Complete, Approved, KeyProven, AdminInv, AdminTypeOK, DeviceRows
<1> HIDE DEF proven
<1>5. /\ devices' \in [DeviceKeys -> DeviceRows] /\ devices'[k].approved /\ ~devices'[k].revoked
      /\ \A q \in DeviceKeys : LiveDevice(q) => devices'[q].approved /\ ~devices'[q].revoked
  BY <1>1, <1>3, <1>4 DEF AdminInv, AdminTypeOK, LiveDevice
<1>6. ApprovedAfterProof'
  BY <1>1, <1>3, <1>4 DEF AdminInv, AdminTypeOK, ApprovedAfterProof
<1>7. adminSessions' = WithSession(rows, k) /\ RoomForSession
  BY DEF Complete
<1> HIDE DEF k
<1> QED
  BY <1>1, <1>5, <1>6, <1>7, SignedIn

\* A key is proven; the device is approved at once when the account has a factor.
LEMMA ConfirmBootstrapDeviceInv ==
    ASSUME AdminInv, NEW i \in DOMAIN setups, NEW c \in DOMAIN challenges,
           ConfirmBootstrapDevice(i, c)
    PROVE  AdminInv'
<1> USE DEF AdminInv
<1>1. /\ UNCHANGED <<mfa, spent, replayed>> /\ pins' = pins /\ step' = step
      /\ principal' = principal /\ SetupUsable(i, TRUE)
  BY DEF ConfirmBootstrapDevice
<1>2. challenges' \in Seq(ChallengeRows)
  BY ChallengeConsumed DEF ConfirmBootstrapDevice
<1>3. /\ setups' \in Seq(SetupRows) /\ DOMAIN setups' = DOMAIN setups
      /\ setups'[i].confirmed
      /\ \A j \in DOMAIN setups : /\ setups'[j].expired = setups[j].expired
                                  /\ setups'[j].device = setups[j].device
                                  /\ setups'[j].mfaRequired = setups[j].mfaRequired
  <2> DEFINE confirmed == [setups[i] EXCEPT !.confirmed = TRUE]
             row == [confirmed EXCEPT !.completed = @ \/ ~setups[i].mfaRequired]
  <2>1. \A j \in DOMAIN setups : setups[j] \in SetupRows
    BY DEF AdminTypeOK
  <2>2. /\ row \in SetupRows /\ row.confirmed /\ row.expired = setups[i].expired
        /\ row.device = setups[i].device /\ row.mfaRequired = setups[i].mfaRequired
    BY <2>1 DEF SetupRows
  <2>3. setups' = [setups EXCEPT ![i] = row]
    BY <2>1 DEF ConfirmBootstrapDevice, SetupRows
  <2> HIDE DEF row
  <2>4. setups' \in [DOMAIN setups -> SetupRows]
    BY <2>1, <2>2, <2>3
  <2> QED
    BY <2>2, <2>3, <2>4, RowsUpdated DEF AdminTypeOK
<1>4. OneWayIn' /\ SetupsFollowFactor'
  BY <1>1, <1>3 DEF OneWayIn, SetupsFollowFactor, LiveSetups, CurrentPins
<1>5. /\ devices' \in [DeviceKeys -> DeviceRows]
      /\ adminSessions' \in Seq(AdminSessionRows) /\ Len(adminSessions') <= MaxAdminSessions
      /\ DOMAIN adminSessions \subseteq DOMAIN adminSessions'
      /\ LiveSessionsHaveLiveDevices' /\ ApprovedAfterProof'
  <2>1. CASE UNCHANGED <<devices, adminSessions>>
    BY <1>1, <2>1, DevicesAlone DEF AdminTypeOK, PrincipalsExist
  <2>2. CASE ~setups[i].mfaRequired /\ Complete(i, adminSessions)
    <3>1. i \in LiveSetups /\ ~devices[setups[i].device].revoked
      BY <1>1 DEF LiveSetups, SetupUsable
    <3>2. mfa'.enabled
      BY <1>1, <2>2, <3>1 DEF SetupsFollowFactor, AdminTypeOK, MfaRows
    <3> QED
      BY <1>3, <2>2, <3>1, <3>2, CompleteKeeps DEF AdminTypeOK
  <2> QED
    BY <2>1, <2>2 DEF ConfirmBootstrapDevice
<1>6. PrincipalsExist'
  BY <1>1, <1>5 DEF PrincipalsExist
<1> QED
  BY <1>1, <1>2, <1>3, <1>4, <1>5, <1>6, FactorAlone DEF AdminTypeOK

\* The first code of the pending secret: the account has its factor from now on.
LEMMA ConfirmBootstrapMfaInv ==
    ASSUME AdminInv, NEW i \in DOMAIN setups, ConfirmBootstrapMfa(i) PROVE AdminInv'
<1> USE DEF AdminInv
<1>1. /\ pins' = pins /\ challenges' = challenges /\ step' = step /\ principal' = principal
      /\ SetupUsable(i, FALSE) /\ mfa.pending # 0 /\ setups[i].confirmed
  BY DEF ConfirmBootstrapMfa, MfaReady, KeyProven
<1>2. PICK code \in {"totp"} \X {mfa.pending} \X Counters : mfa' = Enabled(code) /\ Spend(code)
  BY DEF ConfirmBootstrapMfa
<1>3. /\ SecretsAreStaged' /\ SpentStaysSpent' /\ CodesWorkOnce'
      /\ mfa' \in MfaRows /\ mfa'.enabled /\ replayed' \in BOOLEAN
  BY <1>1, <1>2, EnablingKeeps
<1>4. /\ setups' \in Seq(SetupRows) /\ DOMAIN setups' = DOMAIN setups
      /\ ~setups'[i].mfaRequired /\ setups'[i].confirmed /\ setups'[i].device = setups[i].device
      /\ \A j \in DOMAIN setups : setups'[j].expired = setups[j].expired
  <2> DEFINE known == [setups[i] EXCEPT !.mfaRequired = FALSE]
             row == [known EXCEPT !.completed = TRUE]
  <2>1. \A j \in DOMAIN setups : setups[j] \in SetupRows
    BY DEF AdminTypeOK
  <2>2. /\ row \in SetupRows /\ ~row.mfaRequired /\ row.expired = setups[i].expired
        /\ row.device = setups[i].device /\ row.confirmed = setups[i].confirmed
    BY <2>1 DEF SetupRows
  <2>3. setups' = [setups EXCEPT ![i] = row]
    BY <2>1 DEF ConfirmBootstrapMfa, SetupRows
  <2> HIDE DEF row
  <2>4. setups' \in [DOMAIN setups -> SetupRows]
    BY <2>1, <2>2, <2>3
  <2> QED
    BY <1>1, <2>2, <2>3, <2>4, RowsUpdated DEF AdminTypeOK
<1>5. LiveSetups' = {i}
  BY <1>1, <1>4 DEF OneWayIn, LiveSetups, SetupUsable
<1>6. OneWayIn' /\ SetupsFollowFactor'
  <2>1. LiveSetups = {i}
    BY <1>1 DEF OneWayIn, LiveSetups, SetupUsable
  <2> QED
    BY <1>1, <1>3, <1>4, <1>5, <2>1 DEF OneWayIn, SetupsFollowFactor, CurrentPins
<1>7. /\ devices' \in [DeviceKeys -> DeviceRows]
      /\ adminSessions' \in Seq(AdminSessionRows) /\ Len(adminSessions') <= MaxAdminSessions
      /\ DOMAIN adminSessions \subseteq DOMAIN adminSessions'
      /\ LiveSessionsHaveLiveDevices' /\ ApprovedAfterProof'
  <2>1. /\ AllRevoked(adminSessions) \in Seq(AdminSessionRows)
        /\ DOMAIN AllRevoked(adminSessions) = DOMAIN adminSessions
        /\ \A s \in DOMAIN adminSessions : AllRevoked(adminSessions)[s].revoked
    BY SessionsEnd DEF AdminTypeOK
  <2>2. ~devices[setups[i].device].revoked /\ Complete(i, AllRevoked(adminSessions))
    BY <1>1 DEF SetupUsable, ConfirmBootstrapMfa
  <2> QED
    BY <1>3, <1>4, <2>1, <2>2, CompleteKeeps
<1>8. PrincipalsExist'
  BY <1>1, <1>7 DEF PrincipalsExist
<1> QED
  BY <1>1, <1>3, <1>4, <1>6, <1>7, <1>8 DEF AdminTypeOK

\* A device signs in.
LEMMA PasswordSessionInv ==
    ASSUME AdminInv, NEW k \in DeviceKeys, NEW c \in DOMAIN challenges, PasswordSession(k, c)
    PROVE  AdminInv'
<1> USE DEF AdminInv
<1>1. /\ UNCHANGED <<pins, setups>> /\ devices' = devices /\ step' = step /\ principal' = principal
      /\ LiveDevice(k) /\ mfa.enabled /\ RoomForSession
      /\ adminSessions' = WithSession(adminSessions, k)
  BY DEF PasswordSession
<1>2. challenges' \in Seq(ChallengeRows)
  BY ChallengeConsumed DEF PasswordSession
<1>3. PICK code \in Codes : CodeAccepted(code) /\ mfa' = Remember(mfa, code) /\ Spend(code)
  BY DEF PasswordSession
<1>4. /\ mfa' \in MfaRows /\ mfa'.enabled = mfa.enabled /\ mfa'.secret = mfa.secret
      /\ mfa'.pending = mfa.pending /\ mfa'.staged = mfa.staged
      /\ CodesWorkOnce' /\ replayed' \in BOOLEAN /\ spent' \subseteq CodeRows
      /\ \A x \in spent' : Remembers(mfa', x)
      /\ \A x \in spent' : x \in spent \/ x[2] = mfa.secret
  BY <1>3, RememberKeeps
<1>5. SecretsAreStaged'
  BY <1>4 DEF SecretsAreStaged
<1>6. SpentStaysSpent'
  <2>1. \A x \in spent' : x[2] <= mfa'.staged /\ (mfa'.pending # 0 => x[2] # mfa'.pending)
    BY <1>1, <1>4 DEF SpentStaysSpent, SecretsAreStaged
  <2> QED
    BY <1>4, <2>1 DEF SpentStaysSpent, CodeRows, Remembers
<1>7. /\ adminSessions' \in Seq(AdminSessionRows) /\ Len(adminSessions') <= MaxAdminSessions
      /\ DOMAIN adminSessions \subseteq DOMAIN adminSessions'
      /\ LiveSessionsHaveLiveDevices'
  BY <1>1, SignedIn DEF LiveDevice, AdminTypeOK
<1>8. ApprovedAfterProof' /\ PrincipalsExist'
  BY <1>1, <1>4, <1>7 DEF ApprovedAfterProof, PrincipalsExist
<1> QED
  BY <1>1, <1>2, <1>4, <1>5, <1>6, <1>7, <1>8, SetupsAlone DEF AdminTypeOK

LEMMA DeviceSessionInv ==
    ASSUME AdminInv, NEW k \in DeviceKeys, NEW c \in DOMAIN challenges, DeviceSession(k, c)
    PROVE  AdminInv'
<1> USE DEF AdminInv
<1>1. /\ UNCHANGED <<pins, setups>> /\ devices' = devices /\ step' = step /\ principal' = principal
      /\ UNCHANGED <<mfa, spent, replayed>>
      /\ LiveDevice(k) /\ RoomForSession /\ adminSessions' = WithSession(adminSessions, k)
  BY DEF DeviceSession
<1>2. challenges' \in Seq(ChallengeRows)
  BY ChallengeConsumed DEF DeviceSession
<1>3. /\ adminSessions' \in Seq(AdminSessionRows) /\ Len(adminSessions') <= MaxAdminSessions
      /\ DOMAIN adminSessions \subseteq DOMAIN adminSessions'
      /\ LiveSessionsHaveLiveDevices'
  BY <1>1, SignedIn DEF LiveDevice, AdminTypeOK
<1>4. ApprovedAfterProof' /\ PrincipalsExist'
  BY <1>1, <1>3 DEF ApprovedAfterProof, PrincipalsExist
<1> QED
  BY <1>1, <1>2, <1>3, <1>4, SetupsAlone, FactorAlone DEF AdminTypeOK

\* A request is admitted with a session that exists, or refused.
LEMMA AdmissionInv ==
    ASSUME AdminInv, NEW r \in AdminSlots, AdmitPrincipal(r) \/ AdminRefused(r) PROVE AdminInv'
<1> USE DEF AdminInv
<1>1. /\ UNCHANGED <<mfa, spent, replayed>> /\ UNCHANGED <<devices, adminSessions>>
      /\ UNCHANGED <<pins, setups>> /\ challenges' = challenges /\ step' = step
  BY DEF AdmitPrincipal, AdminRefused
<1>2. PrincipalsExist' /\ principal' \in [AdminSlots -> 0..MaxAdminSessions]
  <2>1. CASE AdmitPrincipal(r)
    <3>1. PICK s \in DOMAIN adminSessions : principal' = [principal EXCEPT ![r] = s]
      BY <2>1 DEF AdmitPrincipal
    <3>2. s \in 0..MaxAdminSessions
      BY AdminNumbers DEF PrincipalsExist, AdminTypeOK
    <3> QED
      BY <1>1, <3>1, <3>2 DEF PrincipalsExist, AdminTypeOK
  <2>2. CASE AdminRefused(r)
    BY <1>1, <2>2, PrincipalEnds DEF AdminRefused, PrincipalsExist
  <2> QED
    BY <2>1, <2>2
<1>3. AdminTypeOK'
  BY <1>1, <1>2 DEF AdminTypeOK
<1> QED
  BY <1>1, <1>2, <1>3, FactorAlone, SetupsAlone, DevicesAlone

\* A replacement is staged under a number no code was accepted for.
LEMMA StartMfaInv == ASSUME AdminInv, NEW r \in AdminSlots, StartMfa(r) PROVE AdminInv'
<1> USE DEF AdminInv
<1>1. /\ UNCHANGED <<pins, setups>> /\ UNCHANGED <<devices, adminSessions>>
      /\ challenges' = challenges /\ step' = step
      /\ principal[r] # 0 /\ StillAdmitted(principal[r])
      /\ principal' = [principal EXCEPT ![r] = 0] /\ NextSecret <= MaxSecrets
  BY DEF StartMfa
<1>2. mfa.enabled /\ NextSecret = mfa.staged + 1 /\ NextSecret \in 0..MaxSecrets
  <2>1. mfa.enabled /\ NextSecret = mfa.staged + 1
    BY <1>1, SessionNeedsFactor, NextSecretIsNew
  <2>2. mfa.staged \in Nat
    BY DEF AdminTypeOK, MfaRows
  <2> QED
    BY <1>1, <2>1, <2>2, AdminNumbers
<1>3. PICK code \in Codes :
          /\ CodeAccepted(code)
          /\ mfa' = [Remember(mfa, code) EXCEPT !.pending = NextSecret, !.staged = NextSecret]
          /\ Spend(code)
  BY DEF StartMfa
<1> DEFINE n == Remember(mfa, code)
<1>4. /\ n \in MfaRows /\ n.enabled = mfa.enabled /\ n.secret = mfa.secret
      /\ n.pending = mfa.pending /\ n.staged = mfa.staged
      /\ CodesWorkOnce' /\ replayed' \in BOOLEAN /\ spent' \subseteq CodeRows
      /\ \A x \in spent' : Remembers(n, x)
      /\ \A x \in spent' : x \in spent \/ x[2] = mfa.secret
  BY <1>3, RememberKeeps
<1>5. mfa' = [n EXCEPT !.pending = NextSecret, !.staged = NextSecret]
  BY <1>3
<1> HIDE DEF n
<1>6. /\ mfa' \in MfaRows /\ mfa'.enabled = mfa.enabled /\ mfa'.secret = mfa.secret
      /\ mfa'.pending = mfa.staged + 1 /\ mfa'.staged = mfa.staged + 1
      /\ mfa'.last = n.last /\ mfa'.recovery = n.recovery
  BY <1>2, <1>4, <1>5 DEF MfaRows
<1>7. mfa.staged \in Nat /\ mfa.secret \in Nat /\ mfa.secret <= mfa.staged
  BY DEF AdminTypeOK, MfaRows, SecretsAreStaged
<1>8. SecretsAreStaged'
  BY <1>6, <1>7 DEF SecretsAreStaged
<1>9. SpentStaysSpent'
  <2>1. ASSUME NEW x \in spent' PROVE x[2] \in Nat /\ x[2] <= mfa.staged
    BY <1>4, <1>7 DEF SpentStaysSpent, CodeRows
  <2>2. \A x \in spent' : Remembers(mfa', x)
    BY <1>4, <1>6 DEF Remembers
  <2>3. \A x \in spent' : x[2] <= mfa'.staged /\ x[2] # mfa'.pending
    BY <1>6, <1>7, <2>1
  <2> QED
    BY <1>4, <2>2, <2>3 DEF SpentStaysSpent, CodeRows, Remembers
<1>10. PrincipalsExist' /\ principal' \in [AdminSlots -> 0..MaxAdminSessions]
  BY <1>1, PrincipalEnds DEF PrincipalsExist
<1> QED
  BY <1>1, <1>4, <1>6, <1>8, <1>9, <1>10, SetupsAlone, DevicesAlone DEF AdminTypeOK

LEMMA PendingExpiresInv == ASSUME AdminInv, PendingExpires PROVE AdminInv'
<1> USE DEF AdminInv
<1>1. /\ UNCHANGED <<pins, setups>> /\ UNCHANGED <<devices, adminSessions>>
      /\ UNCHANGED <<principal, adminSessions>> /\ UNCHANGED <<challenges, step, spent, replayed>>
      /\ mfa.enabled /\ mfa.pending # 0 /\ mfa' = [mfa EXCEPT !.pending = 0]
  BY DEF PendingExpires
<1>2. /\ mfa' \in MfaRows /\ mfa'.enabled = mfa.enabled /\ mfa'.secret = mfa.secret
      /\ mfa'.pending = 0 /\ mfa'.staged = mfa.staged
      /\ mfa'.last = mfa.last /\ mfa'.recovery = mfa.recovery
  <2>1. 0 \in 0..MaxSecrets
    BY AdminNumbers
  <2> QED
    BY <1>1, <2>1 DEF AdminTypeOK, MfaRows
<1>3. AdminTypeOK'
  BY <1>1, <1>2 DEF AdminTypeOK
<1>4. SecretsAreStaged'
  BY <1>2 DEF SecretsAreStaged, AdminTypeOK, MfaRows
<1>5. SpentStaysSpent' /\ CodesWorkOnce'
  BY <1>1, <1>2 DEF SpentStaysSpent, CodesWorkOnce, CodeRows, Remembers
<1> QED
  BY <1>1, <1>2, <1>3, <1>4, <1>5, SetupsAlone, DevicesAlone, PrincipalsAlone

\* The replacement is in force: every session ends but the caller's new one.
LEMMA ConfirmMfaInv == ASSUME AdminInv, NEW r \in AdminSlots, ConfirmMfa(r) PROVE AdminInv'
<1> USE DEF AdminInv
<1> DEFINE k == adminSessions[principal[r]].device
<1>1. /\ UNCHANGED <<pins, setups>> /\ devices' = devices /\ challenges' = challenges
      /\ step' = step /\ principal[r] # 0 /\ StillAdmitted(principal[r]) /\ mfa.pending # 0
      /\ principal' = [principal EXCEPT ![r] = 0]
      /\ adminSessions' = WithSession(AllRevoked(adminSessions), k) /\ RoomForSession
  BY DEF ConfirmMfa
<1>2. mfa.enabled /\ k \in DeviceKeys /\ LiveDevice(k)
  BY <1>1, SessionNeedsFactor
<1>3. PICK code \in {"totp"} \X {mfa.pending} \X Counters : mfa' = Enabled(code) /\ Spend(code)
  BY DEF ConfirmMfa
<1>4. /\ SecretsAreStaged' /\ SpentStaysSpent' /\ CodesWorkOnce'
      /\ mfa' \in MfaRows /\ mfa'.enabled /\ replayed' \in BOOLEAN
  BY <1>1, <1>3, EnablingKeeps
<1> HIDE DEF k
<1>5. /\ adminSessions' \in Seq(AdminSessionRows) /\ Len(adminSessions') <= MaxAdminSessions
      /\ DOMAIN adminSessions \subseteq DOMAIN adminSessions'
      /\ LiveSessionsHaveLiveDevices'
  BY <1>1, <1>2, SessionsEnd, SignedIn DEF LiveDevice, AdminTypeOK
<1>6. PrincipalsExist' /\ principal' \in [AdminSlots -> 0..MaxAdminSessions]
  BY <1>1, <1>5, PrincipalEnds
<1>7. ApprovedAfterProof'
  BY <1>1, <1>4 DEF ApprovedAfterProof
<1>8. mfa'.enabled = mfa.enabled
  BY <1>2, <1>4 DEF MfaRows, AdminTypeOK
<1> QED
  BY <1>1, <1>4, <1>5, <1>6, <1>7, <1>8, SetupsAlone DEF AdminTypeOK

\* A device is revoked together with its sessions.
LEMMA RevokeDeviceInv ==
    ASSUME AdminInv, NEW r \in AdminSlots, NEW k \in DeviceKeys, RevokeDevice(r, k)
    PROVE  AdminInv'
<1> USE DEF AdminInv
<1>1. /\ UNCHANGED <<mfa, spent, replayed>> /\ UNCHANGED <<pins, setups>>
      /\ challenges' = challenges /\ step' = step /\ principal' = [principal EXCEPT ![r] = 0]
  BY DEF RevokeDevice
<1> DEFINE revoked == [devices[k] EXCEPT !.revoked = TRUE]
           gone == [revoked EXCEPT !.credential = FALSE]
<1>2. /\ gone \in DeviceRows /\ gone.approved = devices[k].approved
      /\ gone.proven = devices[k].proven
  BY DEF AdminTypeOK, DeviceRows
<1>3. devices' = [devices EXCEPT ![k] = gone]
  BY DEF RevokeDevice, AdminTypeOK, DeviceRows
<1> HIDE DEF gone
<1>4. /\ devices' \in [DeviceKeys -> DeviceRows]
      /\ \A q \in DeviceKeys \ {k} : devices'[q] = devices[q]
      /\ devices'[k] = gone
  BY <1>2, <1>3 DEF AdminTypeOK
<1>5. /\ adminSessions' \in Seq(AdminSessionRows) /\ DOMAIN adminSessions' = DOMAIN adminSessions
      /\ Len(adminSessions') = Len(adminSessions)
      /\ \A i \in DOMAIN adminSessions :
            /\ adminSessions'[i].device = adminSessions[i].device
            /\ adminSessions'[i].revoked <=> adminSessions[i].revoked \/ adminSessions[i].device = k
  <2>1. \A i \in DOMAIN adminSessions : adminSessions[i] \in AdminSessionRows
    BY DEF AdminTypeOK
  <2>2. \A i \in DOMAIN adminSessions :
            LET row == [adminSessions[i] EXCEPT !.revoked = @ \/ adminSessions[i].device = k] IN
            /\ row \in AdminSessionRows /\ row.device = adminSessions[i].device
            /\ row.revoked <=> adminSessions[i].revoked \/ adminSessions[i].device = k
    BY <2>1 DEF AdminSessionRows
  <2>3. /\ adminSessions' \in [DOMAIN adminSessions -> AdminSessionRows]
        /\ \A i \in DOMAIN adminSessions :
            /\ adminSessions'[i].device = adminSessions[i].device
            /\ adminSessions'[i].revoked <=> adminSessions[i].revoked \/ adminSessions[i].device = k
    BY <2>2 DEF RevokeDevice
  <2> QED
    BY <2>3, RowsUpdated DEF AdminTypeOK
<1>6. LiveSessionsHaveLiveDevices'
  <2>1. \A i \in DOMAIN adminSessions : adminSessions[i].device \in DeviceKeys
    BY KeysOfRows
  <2> QED
    BY <1>4, <1>5, <2>1 DEF LiveSessionsHaveLiveDevices, LiveDevice
<1>7. ApprovedAfterProof'
  BY <1>1, <1>2, <1>4 DEF ApprovedAfterProof
<1>8. PrincipalsExist' /\ principal' \in [AdminSlots -> 0..MaxAdminSessions]
  BY <1>1, <1>5, PrincipalEnds DEF PrincipalsExist
<1> QED
  BY <1>1, <1>4, <1>5, <1>6, <1>7, <1>8, FactorAlone, SetupsAlone DEF AdminTypeOK

LEMMA AdminTimeInv == ASSUME AdminInv, AdminTime PROVE AdminInv'
<1> USE DEF AdminInv
<1>1. /\ UNCHANGED <<mfa, spent, replayed>> /\ UNCHANGED <<principal, adminSessions>>
      /\ UNCHANGED <<devices, adminSessions>> /\ challenges' = challenges
  BY DEF AdminTime
<1>2. /\ pins' \in Seq(PinRows) /\ setups' \in Seq(SetupRows) /\ step' \in 0..LastStep
      /\ CurrentPins' \subseteq CurrentPins /\ LiveSetups' \subseteq LiveSetups
      /\ \A j \in LiveSetups' : setups'[j] = setups[j]
  <2>1. CASE \E i \in CurrentPins : pins' = [pins EXCEPT ![i].expired = TRUE] /\ UNCHANGED <<setups, step>>
    <3>1. PICK i \in CurrentPins : pins' = [pins EXCEPT ![i].expired = TRUE] /\ UNCHANGED <<setups, step>>
      BY <2>1
    <3>2. \A j \in DOMAIN pins : pins[j] \in PinRows
      BY DEF AdminTypeOK
    <3>3. [pins[i] EXCEPT !.expired = TRUE] \in PinRows /\ i \in DOMAIN pins
          /\ [pins[i] EXCEPT !.expired = TRUE].status = pins[i].status
      BY <3>2 DEF PinRows, CurrentPins
    <3>4. pins' \in [DOMAIN pins -> PinRows] /\ CurrentPins' \subseteq CurrentPins
      BY <3>1, <3>2, <3>3 DEF CurrentPins
    <3>5. pins' \in Seq(PinRows)
      BY <3>4, RowsUpdated DEF AdminTypeOK
    <3> QED
      BY <3>1, <3>4, <3>5 DEF AdminTypeOK, LiveSetups
  <2>2. CASE \E i \in LiveSetups : setups' = [setups EXCEPT ![i].expired = TRUE] /\ UNCHANGED <<pins, step>>
    <3>1. PICK i \in LiveSetups : setups' = [setups EXCEPT ![i].expired = TRUE] /\ UNCHANGED <<pins, step>>
      BY <2>2
    <3>2. \A j \in DOMAIN setups : setups[j] \in SetupRows
      BY DEF AdminTypeOK
    <3>3. [setups[i] EXCEPT !.expired = TRUE] \in SetupRows /\ i \in DOMAIN setups
          /\ [setups[i] EXCEPT !.expired = TRUE].expired
      BY <3>2 DEF SetupRows, LiveSetups
    <3>4. setups' \in [DOMAIN setups -> SetupRows] /\ LiveSetups' \subseteq LiveSetups \ {i}
          /\ \A j \in DOMAIN setups \ {i} : setups'[j] = setups[j]
      BY <3>1, <3>2, <3>3 DEF LiveSetups
    <3>5. setups' \in Seq(SetupRows) /\ LiveSetups \subseteq DOMAIN setups
      BY <3>4, RowsUpdated DEF AdminTypeOK, LiveSetups
    <3> QED
      BY <3>1, <3>4, <3>5 DEF AdminTypeOK, CurrentPins
  <2>3. CASE step < LastStep /\ step' = step + 1 /\ UNCHANGED <<pins, setups>>
    BY <2>3, AdminNumbers DEF AdminTypeOK, CurrentPins, LiveSetups
  <2> QED
    BY <2>1, <2>2, <2>3 DEF AdminTime
<1>3. OneWayIn' /\ SetupsFollowFactor'
  BY <1>1, <1>2 DEF OneWayIn, SetupsFollowFactor
<1> QED
  BY <1>1, <1>2, <1>3, FactorAlone, PrincipalsAlone, DevicesAlone DEF AdminTypeOK

LEMMA AdminStep == AdminInv /\ [AdminNext]_adminVars => AdminInv'
<1> SUFFICES ASSUME AdminInv, [AdminNext]_adminVars PROVE AdminInv'
  OBVIOUS
<1>1. ASSUME NEW i \in DOMAIN setups, SetupUsable(i, TRUE), NewChallenge(setups[i].device, "bootstrap"),
             UNCHANGED <<pins, setups, devices, adminSessions, mfa, step, principal, spent, replayed>>
      PROVE  AdminInv'
  <2>1. setups[i].device \in DeviceKeys
    BY KeysOfRows
  <2> QED
    BY <1>1, <2>1, ChallengeOnlyInv
<1>2. CASE RefreshChallenge
  BY <1>1, <1>2 DEF RefreshChallenge
<1>3. ASSUME NEW k \in DeviceKeys, DeviceChallenge(k) PROVE AdminInv'
  BY <1>3, ChallengeOnlyInv DEF DeviceChallenge
<1>4. CASE UNCHANGED adminVars
  <2>1. /\ UNCHANGED <<mfa, spent, replayed>> /\ UNCHANGED <<principal, adminSessions>>
        /\ UNCHANGED <<pins, setups>> /\ UNCHANGED <<devices, adminSessions>>
        /\ UNCHANGED <<challenges, step>>
    BY <1>4 DEF adminVars
  <2>2. AdminTypeOK'
    BY <2>1 DEF AdminInv, AdminTypeOK
  <2> QED
    BY <2>1, <2>2, FactorAlone, SetupsAlone, DevicesAlone, PrincipalsAlone DEF AdminInv
<1> QED
  BY <1>2, <1>3, <1>4, IssuePinInv, WrongPinInv, PendingExpiresInv, AdminTimeInv,
     StartBootstrapInv, ConfirmBootstrapMfaInv, ConfirmBootstrapDeviceInv, PasswordSessionInv,
     DeviceSessionInv, AdmissionInv, StartMfaInv, ConfirmMfaInv, RevokeDeviceInv, Zenon
     DEF AdminNext

\* A set of at most one element is finite and small.
LEMMA AtMostOne ==
    ASSUME NEW S, \A x, y \in S : x = y
    PROVE  IsFiniteSet(S) /\ Cardinality(S) \in Nat /\ Cardinality(S) <= 1
           /\ (S = {} => Cardinality(S) = 0)
<1>1. CASE S = {}
  BY <1>1, FS_EmptySet
<1>2. CASE S # {}
  <2>1. PICK x : x \in S
    BY <1>2
  <2>2. S = {x}
    BY <2>1
  <2>3. IsFiniteSet({x}) /\ Cardinality({x}) = 1
    BY FS_Singleton
  <2> QED
    BY <1>2, <2>2, <2>3
<1> QED
  BY <1>1, <1>2

LEMMA AdminInvSuffices == AdminInv => AdminAccessIsProven
<1> SUFFICES ASSUME AdminInv PROVE OnePinOneSetup
  BY DEF AdminInv, AdminAccessIsProven
<1> QED
  BY AtMostOne DEF AdminInv, OneWayIn, OnePinOneSetup

\* Administrator access rests on a proven, approved device, on one PIN and on codes used
\* once, however enrolment, sign-in, MFA replacement and revocation interleave.
THEOREM AdminAccessProven == AdminSpec => []AdminAccessIsProven
  BY AdminInitInv, AdminStep, AdminInvSuffices, PTL DEF AdminSpec
=============================================================================
