# Little Orbit: TLA+ models and proofs

Little Orbit is a private space for two people: a FastAPI server with
PostgreSQL (`services/api`), background workers (mail, maintenance, a media
worker, one shared-GPU AI worker), an Android phone application with a widget
and a Wear OS companion (`apps/android`), a static web site and host scripts.
This directory models the parts of it whose correctness depends on the order of
steps of several actors, checks the models with TLC on small instances, and
proves the most important results with TLAPS for instances of every size.

Paths in this document are relative to the repository.
`A/` stands for `services/api/src/little_orbit_api/`.

- [1. Inventory](#1-inventory)
- [2. What is modelled and how it corresponds to the code](#2-what-is-modelled-and-how-it-corresponds-to-the-code)
- [3. Runs](#3-runs)
- [4. Proofs](#4-proofs)
- [5. Where the code and its documents disagree](#5-where-the-code-and-its-documents-disagree)
- [6. What is not modelled, and the plan](#6-what-is-not-modelled-and-the-plan)

## 1. Inventory

For every part: the state it keeps, what changes it, whom it talks to, what is
hard about it and what makes it correct.

| Part | State | Operations | Interacts with | Hard behaviour | Correct when |
|---|---|---|---|---|---|
| AI work queue (`A/ai_work_queue.py`, `ai_work_runner.py`, `gpu_coordination.py`, claims in `quiz_learning_service.py`, `admin_operations.py`) | queue rows with lease token, heartbeat and next attempt; `AiRun`; `AdminJobRequest`; host lock file | enqueue weekly and admin work, defer, claim, heartbeat, complete, retry, quarantine | console (requests jobs), worker loop, the GPU of the host | takeover of a stale lease, death of a process, cancellation, failed GPU release, two hosts | completion means the work is done, outcomes are final, the GPU has one user |
| Shared-note transformation (`A/domain/notes.py`) | none | `apply_edit`, `transform` | used by the edit service | overlapping ranges, ties, empty edits | concurrent edits converge, keep their meaning and stay applicable |
| Live note editing (`A/note_edit_service.py`, `routes/notes.py`, `notes_hub.py`; `NoteSocketClient`, `NoteDocumentSession` and helpers on the phone) | note body and revision, operation log, hub sockets; screen, draft, socket session, callback queue | edit transaction, broadcast, snapshot, ack, conflict, autosave, review, reload | both phones through one server | a broadcast overtaking a snapshot, retries, lost sockets, socket thread against UI thread | no typed text is lost, phones hold real revisions, nothing is overwritten silently |
| Pairing, unpairing, consent, deletion (`A/routes/pairing.py`, `relationship_service.py`, `couple_access.py`, `routes/couples.py`, `routes/account.py`, `account_deletion.py`) | accounts, pair codes, couples, memberships, consent flags, samples | create, redeem and confirm a code, unpair, toggle consent, upload, delete, erase | every couple feature asks it for membership | state read before a lock and used after it; lock order; deadlock victims | nobody is in two couples, a couple is whole, nothing is shared after its end or without consent |
| Note library: creation, archive, forks, duplicates (`A/routes/notes.py`, `routes/note_forks.py`, `note_deduplication.py`, `NoteCreationCoordinator`, `NoteDraftStore`) | notes with operation id, archive and purge dates; the open document, its identity and its draft | create with operation id, rename, archive, restore, fork, purge, remove duplicates | live editing, attachments, maintenance | lost answers, retries with a changed text, process death, late copies of a request | one note per document, what the phone takes for saved is stored, nothing is purged early |
| Sessions and one-use tokens (`A/routes/auth.py`, `account_entry.py`, `security.py`, `rate_limit.py`, `SessionStore`) | sessions, links, password, rate windows | register, verify, sign in, rotate, sign out, recover, suspend, delete | every authenticated request, mail, console | requests that wait for the account row, replayed links, rotation races | every session and link is warranted by the present account and works once |
| Partner notifications (`A/notification_service.py`, `routes/notifications.py`, `PartnerNotificationWorker`) | events, devices, deliveries, preferences | create, register, fetch, post, acknowledge, expire | smooches, notes, countdowns, quizzes | registration or a changed choice racing an event, runs that fail half-way | no event of a disabled kind, no unseen acknowledgement, no event that waits for ever |
| Daily quizzes (`A/quiz_v2_service.py`, `quiz_v2_mutations.py`, `routes/quizzes_v2.py` to `v4`) | day, members, drafts, operations | materialise, draft, finish, reopen, reveal | generation pools, feedback | both partners finishing at once, retries | answers are revealed once, to both, and then frozen |
| Question supply: reserve, generated pools, feedback, learning (`A/quiz_generation_pool_service.py`, `quiz_learning_service.py`, `quiz_feedback_service.py`, `services/ai/.../reserve.py`) | pools per date with an edition, jobs, reserve use, feedback, policies | select, fill from the reserve, lock, replace, publish, draw, regenerate; rate, learn | AI queue, daily quizzes, console | overlapping jobs of one date, a couple that draws while a pool is replaced, a job that dies between selection and write | a published pool is whole, no reserve entry is used twice, what was drawn stays |
| Countdowns with offline edits (`A/routes/countdowns.py`, `CountdownSyncWorker`, `CountdownOfflineStore`) | countdown rows, operations; the queue of the phone | create, update, delete, replay | notifications | replay after lost answers, conflicts in a queue | each queued edit takes effect once or is shown as a conflict |
| Attachments (`A/routes/attachments.py`, `attachment_media.py`, `attachment_quota.py`, `attachment_maintenance.py`) | attachment and job rows, reserved and stored bytes, three directories | reserve, chunk, complete, delete, claim, scan, publish, reject, clean up | notes, media worker | leases without a fencing token, files outside transactions, stale rows | an available attachment has its file, the ledgers equal what is kept, a status once seen stands |
| Together time (`A/together_time_service.py`, `domain/location.py`, `routes/together_time_v2.py`, `together_time_details.py`) | samples, buckets, day totals, corrections | upload, derive, correct | consent | day borders, clock skew, recomputation | totals do not depend on the order of uploads |
| Smooches (`A/routes/smooches.py`, `SmoochOutbox`, `SmoochSendWorker`) | smooch rows; outbox | send, deliver | notifications, watch | retried sends at the hourly limit | one row per operation, at most five an hour |
| Managed watch (`WearRelationshipGuard`, `WearTargetGuard`, `WearSyncService`, `ManagedWatchCoordinator`, `WearCachePublisher`) | relationship generation, purge markers, cache | publish, accept, purge, expire | phone through the data layer | reordered and late records | nothing of an old relationship is readable |
| Relationship names, photos (`A/relationship_name_service.py`, `routes/profile_photos.py`, `RelationshipNameStore` and the photo editor) | names and images per couple with revisions, replay records; the pending change of the phone | assign, replay, upload, fetch, erase | everything that shows a name | late copies of a request, lost answers, a new couple between two attempts | a change is made once in a couple, acknowledged only if made, and gone with the couple |
| Big Orbit administration (`A/big_orbit_auth.py`, `big_orbit_bootstrap.py`, `routes/admin.py`, `routes/big_orbit_*.py`) | PINs, setups, devices, challenges, sessions, MFA, job requests | enrol, prove, approve, sign in, revoke, replace MFA, request a job | AI queue, host scripts | a session read before the account lock, replayed codes | a live session has a proven, approved device |
| Mail outbox (`A/mail.py`), maintenance (`A/maintenance.py`) | outbox rows, retention cut-offs | write, lock a batch, send, commit, purge | authentication, deletion | death between send and commit, two workers | mail arrives and is repeated only after a rollback |
| Direct migration (`infra/scripts/direct_migration.py`, `migration_*.py`) | copies on three hosts, one-line journal, operation locks | forward, rollback, two recoveries, restart | both hosts over SSH | death at any step, lost answers, a lock whose holder died, a late database session | one host serves, from the newest copy, and service returns |
| Releases, other host operations, AI package, web site, screens | files, manifests | publish, verify, back up, render | | mostly I/O | |

The server's actors are database sessions: one per request, several workers.
They share rows, not memory; `SELECT ... FOR UPDATE` on accounts (in UUID order)
and then on the couple is the intended order of locks. The phones' actors are
threads: the socket thread, the UI thread, periodic workers. The hazards this
creates, each with its line, are in `PROJECT.json` under `hazards`.

## 2. What is modelled and how it corresponds to the code

| Module | Models |
|---|---|
| `AiWorkQueue` | queue rows, AI runs, admin jobs, host lock, one worker cycle after another |
| `NoteEdits` | `Insert`, `Delete`, `apply_edit`, `transform` as pure operators |
| `NoteSync` | one note, the server and two phones; extends `NoteEdits` |
| `NoteLibrary` | creation, identity, archive, restore, purge, forks, duplicates and the phone's open document |
| `Relationship` | accounts, codes, couples, consent and samples under row locks |
| `AccountAccess` | one account's password, links and sessions |
| `Throttle` | the fixed-window limiter with its two ordered rules |
| `MailDelivery` | the outbox and its workers |
| `AdminDevices` | PINs, setups, device keys, challenges, sessions and one-time codes of the console |
| `Attachments`, `AttachmentLife` | upload, worker, ledgers, files and clean-up; the abstract life of an attachment |
| `HostMigration` | the move of the service between hosts, its journal and its recovery |
| `WatchAuthority` | the two guards of the watch and the phone's publications |
| `SmoochSending` | a Smooch from watch or phone through both queues to the server |
| `PartnerAlerts` | events, choices, deliveries and the phone's notification worker |
| `CountdownSync` | countdown revisions and the phone's offline queue |
| `TogetherTime` | the interval algorithm, recomputation, day totals, the phones' queues |
| `QuizDay` | a quiz day, its drafts, completion, reveal, reports, custom questions, consent |
| `QuestionPools` | the reserve, the jobs that write a date's pool, the operator's regeneration, what couples draw |
| `PartnerProfile` | the name and the image one member gives the other, the phone's pending change and the server's replay records |
| `NoteEditProofs`, `NoteProofs`, `RelationshipProofs`, `AccountAccessProofs`, `DeliveryProofs`, `QuestionPoolsProofs`, `OperatorProofs`, `AiWorkQueueProofs` | the theorems, one module per proved component or pair of components (section 4) |
| `MCAiWorkQueue`, `MCNoteEdits`, `MCNoteSync`, `MCRelationship`, `MCQuizDay` | instances TLC checks |
| `MCServer`, `MCDevices`, `MCLive` | sums of instances that share no state (section 3) |

`PROJECT.json` maps every definition to its lines. Operators whose comment
begins with `Mutant:` are not part of the models: they are wrong versions of
the definition that follows, and TLC must find the property they are meant to
break.

### AiWorkQueue

An action is one transaction, one lock operation or one asyncio outcome of one
worker. A worker goes through `run_ai_work_cycle`: the two enqueue
transactions, `try_acquire_gpu_lock`, the idle probe, `claim_due_work` (two
statements, two steps), the execution (`claim_ai_run`, the work, `finish_ai_run`,
planning, the admin job), `_release_gpu`, `complete_work` or `retry_work`. The
heartbeat task (`HeartbeatWork`) and the runtime limit (`Abort`) interleave with
the execution; `Crash` ends a process at any point, frees its file lock and
leaves its rows as they are. `Skippable` is what `SKIP LOCKED` may pass over:
any pending rows another transaction can hold at that moment. Prompts and
generated content are the success or the failure of the work. Times are small
integers; `QueueAssumption` keeps the relation `_runtime_limit_seconds` is
computed for (runtime plus preparation stays below the stale window and below
`RUN_TAKEOVER_AFTER`). With `Timely = FALSE` a process may be suspended for any
time between two steps.

### NoteEdits and NoteSync

Bodies are sequences of distinct characters, so that each character can be
followed. `Transform` is `transform` with its tie break by operation id;
`EditPlan` is `NoteSocketClient.editPlan` (common prefix and suffix, a deletion
and then an insertion).

A phone is one record: the screen and what `NoteDocumentSession` believes,
`NoteDraftStore`, the autosave timer, the callbacks posted to the UI thread, and
the `EditorSession` of the socket thread. The server has the history of bodies,
the operation log and one task per socket. These are separate steps: the edit
transaction and its broadcast; joining the hub, reading the snapshot and sending
it; handling a message and running the callback it posts. A connection may break
(what is in transit is lost both ways and the socket reconnects), and a user may
leave the editor (`pause` stores the draft) and return (`reloadCurrent` and
`NoteWorkspaceRestoreCoordinator.reconcileBody`). `MCNoteSync!InitOpen` is the
state both phones are in after their first snapshot.

### Relationship

A request is one database session, with its stage and what it has read so far.
Statements that read something the request relies on later are steps of their
own, row locks are taken one at a time and kept to the end of the transaction,
and writes appear at the commit. `lock_accounts` is `LockAccount` (the smallest
remaining UUID first), `lock_couple` and the couple lock of
`lock_active_relationship` are `LockCouple`, `end_active_relationship` is
`EndCouple`. `seen` is the value of `location_enabled` the ORM object was loaded
with: a flush sends an UPDATE only for a value that differs from it.
`CommitUpload` waits for the KEY SHARE lock that the foreign key of a sample takes
on its account row. `AbortVictim` is PostgreSQL's deadlock detector. The
variables `origin` and `wish` are history: the code a couple was made from, and
the preference an account was last told is in force.

### Access to accounts: AccountAccess, Throttle, MailDelivery

A transaction that holds the account row is one action; what a request has read
before it waited for that row (a link, a session) stays in its slot of `asking`
while others run. Sign-in reads nothing before the lock that it does not read
again, so it is one action; a rotation and a sign-out authenticate first. Passwords are numbers, a session
remembers the password it was opened with (`proof`, history). Verification takes
the link before the account, the opposite order of a resend:
`VerificationAborted` is the deadlock victim. In `MailDelivery` a batch is the set of
rows a worker has locked and not decided; it sends the `Oldest` first. The outcome of a
batch is private to its transaction (`outcome`) until `CommitMail`; `RollBack`
forgets it although the mail server has `accepted` what was sent.

### The console: AdminDevices

Every transaction locks the account or the device row; the session a request came
with is read before and checked again (`StillAdmitted`). `proven`, `spent` and
`replayed` are history. Challenges and codes are numbered; the TOTP step is a
small clock.

### Attachments

Rows change in transactions and files do not, so a transaction and the file
operations after it are separate steps, and a process may die between any two.
Deadlines are events. `AttemptDue` says a lease ends only when the attempt under it
has ended or its worker has died: the timeouts of scanner and sanitizers are
per call, and their sum is not bounded by the lease in the code; this is an assumption of the model.
`AttachmentsAreKept` says that an available file has its bytes and that the ledgers
are exact; the latter is stated for ledgers no request has changed through a row it
read before the couple lock; those requests are in the model.
`Life` maps a row to the abstract life `none -> pending -> available | rejected ->
removed`; `ImplementsLife` says every step of the detailed model is one of its
steps or a stutter.

### HostMigration

A copy is the number of the last write it holds. `op` is the orchestrator's
program counter and what it has learnt, `journal` is what survives it, `told` is
what it reported. `CommandFails` covers a command that did not run and one that
ran and lost its answer, `OrchestratorDies` and `LockDies` the rest. A command
whose answer was lost has run or never will; the operator starts only what a report
calls committed (`StartDestination`).

### Phones and watches

`WatchAuthority`: the data layer keeps the newest item of each path (`fresh`) and
delivers paths in any order; content is named by the relationship and generation
that authorised it. A photo transfer is three steps: start, check, store.
`SmoochSending`: `authority` abstracts the pair of generations of `WatchAuthority`;
messages and answers may be lost, `given` records what a rule of the code gave up
(expiry, a full queue, a removed watch, a refused or abandoned send). A queue is a
function from its operations to their places, the oldest first.
`PartnerAlerts`: the worker's five requests are steps, each may fail; the periodic
and the immediate work of one installation may overlap.
`NoteLibrary`: a text stands for title and body; a creation is a call that may be
lost, answered late, or repeated with another text after a process death.
`CountdownSync`: an operation's number is its identity and its content; numbers grow
with age, so the queue is a set and its oldest row the one with the least number.
`TogetherTime`: minutes and points on a line; `Estimate` is the reference the
incremental recomputation is compared with.
`QuizDay`: a handler holds the couple lock, so it is one step; requests a phone has
given up stay on the wire and may be served later.
`PartnerProfile`: every request and answer is a copy that travels on its own;
`executor` is the phone's one thread, `replays` the records that answer a repeated
change, `applied` history.

### The supply of questions: QuestionPools

A question is a model value. A job reads the bank once and then goes from date to
date: it selects (from the bank or what the model came up with), passes the fenced
claim, runs the statement that finds the date's rows (`seen`, a snapshot), waits
for their locks, and writes. These are steps of their own, because other jobs,
the operator's regeneration and the couples' draws come in between. An edition
numbers the writes of pools, so that a row found earlier is told from one written
later. `AbortDay` is the failed unique index, `GenerationRecord` the reason a
day's batch records, by which a later job knows a seed from a generated pool.

## 3. Runs

| Run | Instance | Checks | Distinct states |
|---|---|---|---|
| `ai_queue` | three instances: two workers with one lock file, a learning row and an admin row of the same week, one death, time 0..4; two hosts with unbounded suspension; two hosts that meet their deadlines | `HostGpuExclusive`, `RowCompleteMeansDone`, `TimelyLeaseCoversExecution`, `FinishedStaysFinished`, `HostRespectsTheGap`; no deadlock | 3.6 million |
| `note_live` | two phones, an empty note, an edit by each user, one break (a lost connection or a departure) | `VersionsAreReal`, `TypedTextSurvives`, `UnsavedTextIsDrafted` | |
| `note_untouched`, `note_overwrite` | as `note_live`; both editors open | violated, see section 5 | |
| `pairing` | three accounts, two codes, two couples, two requests: redeem, confirm, unpair, delete, erase | `TypeOK`, `ChecksStillHold`, `CouplesAreWhole`, `CodeMakesOneCouple`, `NoLockCycle` | |
| `sharing` | a couple and three requests: also consent on and off, uploads | `SamplesNeedMutualConsent`, `NoLockCycle` | |
| `preference_race`, `deletion_race` | two accounts, two requests | violated, see section 5 | |
| `server` | the seven server parts: two requests, two links, three sessions, two passwords; two clients and subjects; three mails (one unreadable), two mail workers; two device keys, two PINs; one file uploaded twice, two media workers, two requests; three migration runs with four mishaps; two couples one after the other, two names (one unfit), one image, two changes and two requests on the wire | `ServerTypeOK`, `AccessIsWarranted`, `ThrottleHolds`, `MailIsNotLostOrRepeated`, `AdminAccessIsProven`, `AttachmentsAreKept`, `OneCurrentServer`, `ProfileIsSound`, refinement `ImplementsLife` | 2.16 million |
| `devices` | the seven device parts: two relationships and two watches; three sends with a limit of two an hour; two events; two notes and texts; two offline edits against one of the partner; five location fixes over a day border, sharing switched off and on again; every pair of concurrent edits of bodies of up to five characters that insert up to two | `DevicesTypeOK`, `WatchIsFaithful`, `SmoochesArriveOnce`, `AlertsAreHonest`, `NotesAreKeptOnce`, `EditsCountOnce`, `TogetherTimeIsProven`, `ConcurrentEditsConverge` | 2.1 million |
| `quiz` | two parts. The day: two partners, one question a day over two days with one reserve and one custom question, six calls, one switch of consent or custom question. The supply: two jobs, two dates, one couple, a general and an intimate question in the reserve, an intimate one of the model's, two editions, one mark | `FinishMeansReviewed`, `NothingUnsharedIsShown`, `PoolsAreSound` | 2.2 million |
| `live` | one worker, file, installation or migration at a time, with one or two faults | `CyclesEnd`, `RemovedBytesVanish`, `AlertsAreDealtWith`, `MailArrives`, `ServiceReturns` | 44 thousand |

Most properties of the sums are conjunctions with a name for each part, and
the parts say what is checked: `AccessIsWarranted`, for instance, is
`SessionsFollowPassword`, `StoppedAccountsHaveNoSession`, `RotationIsLinear`,
`LinksWorkOnce` and `OneCurrentLink`.

Sums. The models in `MCServer`, `MCDevices`, `MCQuizDay` and `MCLive` share no variable, so
their product would only multiply states. `MCInit` chooses the `part` that moves and the others
stay in their initial states: the run explores the disjoint union, and each
invariant is checked in every state of its part. In `MCLive` every fairness
conjunct is guarded by `part`.

Bounds. Two workers are enough for every takeover (one old, one new owner), and
time 4 with a gap and a stale window of 3 lets a lease become stale, be taken over
and be finished by either owner. Two edits and one break are enough for a
snapshot that is overtaken by a broadcast, for an ack that is lost and retried,
for a conflict and its review. Three accounts are the smallest number for which
two pairings compete for one person, and two codes and two couples let a code be
confirmed again after its couple has ended. Three requests in `sharing` allow a
waiting upload, a withdrawal of consent and an end of the couple at once. Two
passwords, two requests and three sessions let a session of the old password wait
for a lock across its change. Three mails with a batch of two leave one behind.
Two attempts and one death give a file a second worker while the first one's bytes
are on disk. Three runs with four mishaps let a migration fail, its recovery fail
and the next one succeed. A generation of three on the watch is one relationship,
its end and the next; a clock of two with an expiry of one lets what it shows
expire and be shown again. A Smooch's life of one is shorter than the hour of two,
so that a queued one expires while the limit still holds. Two couples and two
changes let a copy of a change arrive in a couple it was not typed in. Two
editions let one job write what the other found missing. Four instants with a bridge of two, a horizon of two and a
day of two let a late sample undo a bridge over midnight. Every action fires in
some passing run. Larger instances of single parts were explored during
development with the same result: two timely AI hosts (306 thousand states),
attachments with two simultaneous requests (512 thousand), alerts with two events
under fairness (21 thousand), mail with two faults and two rollbacks under
fairness (71 thousand), migrations with three mishaps under fairness (18
thousand).

Symmetry is used only in runs without liveness properties, over values that no
definition compares (accounts are compared, so they are not permuted).

Deadlock is checked for the AI queue, whose workers never stop. The other runs
say `CHECK_DEADLOCK FALSE`: users may do nothing more, and the numbers of edits,
codes, calls, faults and instants are bounded, so a part may stop at its bound.

Fairness.

- AI queue: weak fairness of each worker's cycle. The event loop runs every ready
  task and every await of a cycle is bounded by a timeout or by the database.
- Attachments: weak fairness of the worker's and the maintenance loop's steps and of
  the end of an attempt; strong fairness of a file growing old, since time passes
  for a file however often others are written.
- Alerts: transactions end; strong fairness of the periodic work, which WorkManager
  starts again after a failure (failures are bounded by `MaxFailures`).
- Mail: the polling loop runs for ever, and a minute passes.
- Migration: a run that does not fail goes on; the operator recovers while nothing
  serves, and starts what was reported committed (the procedure the reports ask
  for). Mishaps are bounded.

Nothing is assumed of users, administrators, other stacks of the host or requests.

## 4. Proofs

Eight modules, checked by TLAPS to the last leaf. Each safety result has the same
shape: an inductive invariant, one lemma per action (or per kind of action) that
it is kept, and a temporal step. The constants are arbitrary up to the named
assumptions of the component's module: bounds are naturals, and the distinguished
values are distinct.

| Theorem | States | Invariant |
|---|---|---|
| `RelationshipProofs`: `CommitsAreSafe`, `CouplesStayWhole`, `OneCouplePerCode`, `SamplesAreConsented`, `Types` | `ChecksStillHold`, `CouplesAreWhole`, `CodeMakesOneCouple`, `SamplesNeedMutualConsent`, `TypeOK` | `Inv` |
| `RelationshipProofs`: `NoCycle` | `NoLockCycle` | `Inv` and `WaitInv` |
| `RelationshipProofs`: `ProfileSound` | `ProfileIsSound` | `ProfileInv` |
| `NoteEditProofs`: `TransformApplies` | a transformed edit applies | |
| `NoteEditProofs`: `EitherOrder` | two concurrent edits give the same body in either order | |
| `NoteEditProofs`: `EditsConverge` | `ConcurrentEditsConverge` | `EditInv` |
| `NoteProofs`: `VersionsReal`, `TypedTextKept`, `UnsavedDrafted` | `VersionsAreReal`, `TypedTextSurvives`, `UnsavedTextIsDrafted` | `SyncInv` |
| `NoteProofs`: `AttachmentsLive` | `ImplementsLife`, the refinement of `AttachmentLife` | `LifeInv` |
| `NoteProofs`: `BytesAreServed` | `AvailableHasItsBytes` | `BytesInv` |
| `NoteProofs`: `AttachmentsKept` | `AttachmentsAreKept`: the above and `AccountingIsExact` | `BytesInv`, `AccountInv` |
| `NoteProofs`: `NotesKeptOnce` | `NotesAreKeptOnce` | `LibraryInv` |
| `AccountAccessProofs`: `AccessWarranted` | `AccessIsWarranted` | `AccessInv` |
| `AccountAccessProofs`: `ThrottleBounds` | `ThrottleHolds` | `ThrottleInv` |
| `DeliveryProofs`: `MailNotLostOrRepeated` | `MailIsNotLostOrRepeated` | `MailInv` |
| `DeliveryProofs`: `AlertsHonest` | `AlertsAreHonest` | `AlertsInv` |
| `DeliveryProofs`: `WatchFaithful` | `WatchIsFaithful` | `WatchInv` |
| `DeliveryProofs`: `EditsCountedOnce` | `EditsCountOnce` | `CountdownInv` |
| `DeliveryProofs`: `SmoochesOnce` | `SmoochesArriveOnce` | `SmoochInv` |
| `DeliveryProofs`: `TogetherTimeProven` | `TogetherTimeIsProven` | `TogetherInv` |
| `QuestionPoolsProofs`: `PoolsSound` | `PoolsAreSound` | `PoolsInv` |
| `QuestionPoolsProofs`: `QuizReviewed`, `QuizShared` | `FinishMeansReviewed`, `NothingUnsharedIsShown` | `QuizInv` |
| `OperatorProofs`: `OneHostServes` | `OneCurrentServer` | `HostInv` |
| `OperatorProofs`: `AdminAccessProven` | `AdminAccessIsProven` | `AdminInv` |
| `AiWorkQueueProofs`: `QueueTypes`, `HostLockSerialises` | `TypeOK`, `GpuExclusive` | `QueueInv` |
| `AiWorkQueueProofs`: `LeaseCovers` | `LeaseCoversExecution` | `TimeInv` |
| `AiWorkQueueProofs`: `CompleteRowsAreDone`, `FinishedForGood` | `CompleteMeansDone`, `FinishedStaysFinished`, both under `RunsApart` | `WorkInv` |
| `AiWorkQueueProofs`: `GapRespected` | `[][ClaimsRespectTheGap]_vars`, on one host | `GapInv` |

**`RelationshipProofs`.** For any sets of accounts, codes, couples and
concurrent requests, assuming only that account ids are ordered like naturals,
that `None` is not an id, and that finitely many sessions are open at once, as the
database's connection limit sees to (`RelationshipAssumption`):

- `CommitsAreSafe`: `Spec => []ChecksStillHold`
- `CouplesStayWhole`: `Spec => []CouplesAreWhole`
- `OneCouplePerCode`: `Spec => []CodeMakesOneCouple`
- `SamplesAreConsented`: `Spec => []SamplesNeedMutualConsent`
- `Types`: `Spec => []TypeOK`
- `NoCycle`: `Spec => []NoLockCycle`

None of these is inductive alone, since a commit relies on checks made earlier by
the same request. `Inv` adds who holds which lock at which stage: `PairLocks` (a
pairing request holds the rows of both accounts apart from those it still wants
and those that are gone, and its code still belongs to the creator it read),
`CoupleLocks` (a request past `lock_couple` holds a couple that is active and
contains its actor), `EraseLocks`, `StageOK`, `CodeOK`, `MembersOK` (an upload
about to insert has the consent of both) and `OriginUsed` (the code of a couple
is consumed, or expired and without a creator). The heart of the argument is
`PairHeld` and `PairsApart`: two requests about to commit a pairing hold disjoint
pairs of account rows, and because each pair contains the creator of its code,
they also work on different codes. Deletion and erasure cannot touch those
accounts (`DeletedElsewhere`), and two requests that reached a couple reached
different ones. There is one lemma per action; requests that end without a
commit share `FinishInv`.

`NoCycle` looks at who can wait. `WaitInv` says that a request in `lock_accounts` wants
only rows above those it holds and that the row of an erased account is never locked
(`LockOrder`), that the row of a couple is held by a request that has reached the couple
(`CoupleHeld`), and that an unpairing or a deletion holds the row of its own actor from
`lock_accounts` on, or none (`HoldsActor`). The last needs that nobody erased is in a couple
(`ActiveLive`): a row that is gone is passed over without a lock. So the holder of a
couple waits for nobody unless it uploads (`HolderGoesOn`), and the holder of an account
row waits at most for a later row (`HolderWaitsForRow`). In a deadlock without uploads
everybody would wait for such a holder, and of finitely many the one that waits for
the last row has nobody to wait for (`SomeGreatest`).

`ProfileSound`, of `PartnerProfile`: for any number of names, images, couples, changes
and copies on the wire. A change is made once in a couple, and not because of its replay
record, which maintenance removes: every copy expects the revision it was typed at
(`ChangesAreTyped`) and a couple's revision only grows (`RevisionsMoveOn`).
`AnswersAreTrue` says that the answer the phone holds belongs to its own request and
that an acknowledgement stands for a change that was made.

**`NoteEditProofs`.** For bodies, insertions and deletions of every length:

- `TransformApplies`: the transformation of an applicable edit against an applicable
  edit is applicable to the changed body, so `_transform_since` never makes a
  well-formed concurrent edit invalid. Two lemmas follow `_against_insert` and
  `_against_delete`.
- `EitherOrder`: two edits of one revision give the same body whichever the server
  applies first, for any bodies, repeated characters included, unless one inserts strictly
  inside what the other deletes. `Inserted` and `Erased` say which character stands at
  which position after an edit; two bodies are then compared position by position, in
  the cases of two insertions, of one edit of each kind (`InsertedThenErased`,
  `ErasedThenInserted`) and of two deletions that are apart or overlap (`ErasedApart`,
  `ErasedTogether`).
- `EditsConverge`: the property of the run for every `MaxLen` and `MaxText`. `EditInv` says that
  the body is 1..n and that each author writes numbers of their own, so that a
  character tells where it comes from (`AfterFirstAt`, `MovedAt`); then
  `DeletionTakes` shows that a deletion removes exactly what its author saw in its
  range, `InsertionStays` that an insertion stays between its neighbours, and
  `OrderKept` the agreement of both orders. The exception, an insertion strictly inside the other's
  deletion, is stated in the property: the insertion survives exactly if the deletion
  was applied first.

**`NoteProofs`.** `VersionsReal`, `TypedTextKept`, `UnsavedDrafted`: for any number of phones, revisions,
texts, crashes of the connection and any loaded text (`SyncAssumption`). A version is a
body with the revision it was stored at. `SyncInv` says that everything that carries a
revision carries a version: what the socket and the screen believe, the callbacks posted
to the UI thread, the snapshots, acks and edits on the wire, and what a server task has
read; and that every character is in the loaded text or was typed. The operators
of the phone (`HandleMessage`, `HandleEvent`, `ReconcileBody`, ...) are dealt with once, as
constant-level lemmas about any set of versions (`HandleGood`, `EventGood`, `ReconcileGood`),
so an action has only to show that the set grows. `_transform_since` is a recursive function
of the operation log: that its result types no character the edit did not type
(`TransformedTyped`) follows by the least revision at which it would fail, since a step of
the recursion is one `Transform`.

`AttachmentsLive`: for any number of files, requests and media workers, each of which
may die at any step, every step of `Attachments` is a step of `AttachmentLife` or
leaves all outcomes alone. A worker decides long after its claim, so
`LifeInv` says what still holds then: an undecided attempt has the lease of its file
to itself, and the row is as the claim left it or deleted (`AttemptsAreLeased`); only
genuine bytes get past the upload, and a job follows them (`JobsFollowUploads`); a
request has read a row that exists (`RequestsRefer`).

`BytesAreServed`: an available attachment has its bytes, at the recorded size, unless
the clean-up pass had selected its key before a day-old upload was resumed (`swept`). Files
are removed by delete requests, by rejections and by two steps of the pass, none of
which holds the row while it unlinks. `BytesInv` adds that whoever removes all files of an
attachment acts on an outcome that is final (`WipesAreFinal`), that the orphan pass spares
every file younger than its commit (`OrphansSpareNew`), and that what a worker is about to
mark as available has been published (`MarkedIsPublished`). That outcomes never leave
`Final` is a step of the refinement above, used as a lemma.

`AttachmentsKept` adds the counter: the bytes of the live rows are counted as a set of pairs,
so that a step on one row changes the total by what the old and the new row count for
(`OneRowCounted`), and each action must move `reserved` by the same (`Accounts`). `AccountInv`
needs `AttemptsAreLeased`: a worker releases or adjusts the bytes of a row that is still as it
claimed it or deleted, and `JobsFollowUploads`: a late last chunk cannot bring a row back.
The proof made the one exception, `drifted`, wider: a delete request that read the row
before another one deleted it and a worker's retry made it pending again releases its
bytes a second time. With one file, as in the run, the guard against negative counters
hides that; TLC shows it with two.

`NotesKeptOnce`: for any number of notes, texts, identities and ticks. Retries
cannot make twins because later notes stand in higher slots (`SlotsInOrder`)
and a row nobody touched still has the time it was born with (`RowsRemember`), so a
recent equal row is found by the next request. `ArchivesAreTimed` ties the purge
date to the archive date through restores and second archivings; `AnswersName` says that
what an answer or the open document names has been stored. Every step works on rows
where they stand, adds one row above all others, or moves only the phone.

**`AccountAccessProofs`.** For any number of waiting requests, links, sessions and
password changes and any lives and cool-downs. That a link takes effect once is
not inductive: a verification locks its link and then waits for the account, and
what it found must still be so when it gets there. `AccessInv` adds that a request
refers to rows that exist (`AskingRefers`), that a link in a verification's hands is
unconsumed and in nobody else's (`LinksHeld`), that every effect has left its mark,
a consumed link or a revoked session (`EffectsMarked`), and that nothing was mailed
before the account existed. Rows of a table changed by a condition are followed
by `Updated` and its companions.

`ThrottleBounds`: for any addresses, subjects, limits, window and any retention no
shorter than the window (`ThrottleAssumption`). The counter forgets, the property does not:
`ThrottleInv` says what the open window's counter knows of the requests let through
since it opened, and after its first instant (`OpenWindow`), and that no request let
through in the last window's length is missing when no window is open (`NoWindow`). That
the first instant is counted apart is what makes the bound one less than twice the limit.

**`DeliveryProofs`.** `MailNotLostOrRepeated`: for any number of workers, mails, faults, rollbacks and any
batch size. "Sent at most once more than rolled back" speaks of decided rows;
`MailInv` follows the undecided ones: a row in a worker's hands is pending for all
others and in no other's hands (`HeldRowsArePending`), a decided row is out of the
batch and says what happened (`OutcomesAreTrue`), and the accepted sends of a row
that no open transaction has sent are exactly those rolled back (`SendsAreCounted`).

`AlertsHonest`: for any number of installations, works, kinds and events.
`AlertsInv` adds the lock of the preferences row, held from reading the choices to
writing the event (`ChoicesAreLocked`: two transactions that each look right
would otherwise pass one another), and that a worker acknowledges only what it
has posted on its own installation (`DoneWasPosted`).

`WatchFaithful`: for any number of relationships, generations and kinds of content. Items
of different paths overtake each other, so the watch may hold an item that is no longer
true. `ItemsAreTrue` says that what is on its way is true of the phone or is
superseded by a purge that is also on its way or applied; `GuardFollows` compares
the watch's guard with `LastPurge`, the highest generation whose purge the watch has
applied or will receive, and says that a guard ahead of it means that the phone still
manages this watch.

`EditsCountedOnce`: for any number of edits and any batch size. An edit replaces what its
author saw when the revision still matches, so the invariant is about the versions a
phone knows (`Known`): each shown or edited version (revision `r`, content `c`) is the
countdown's own, or older than it (`Actual`), or never reached the server and then only an
edit that expects revision `r - 1` of this countdown still carries its content
(`Promised`). Versions only ever get older, and the edit that carries a promised one
makes it actual when it is accepted; so knowledge is stable under every step of either
side. `UpdatesHonest` says the same of what has been recorded, including that an
unconfirmed version an update was based on can never be written later. `AnswersTrue`
covers the time an answer is on its way: it stands for a recorded operation and carries a
version its countdown had, even after a sign-out has emptied the queue.

`SmoochesOnce`: for any number of sends, messages and removals, any lifetime, hourly limit
and queue size. A Smooch is in up to three places at once, so "not lost" is about who has
taken it over: the watch forgets one only on a result, and a result is sent only when the
phone has it in its outbox, the server has recorded it or a rule gave it up
(`ResultsSettled`). A row is recorded in time because the worker's run is short against
the clock: what it has read is still fresh (`RunIsShort`). The limit is about every
rolling hour, and the server looks only at the last one: a row recorded now belongs only
to hours that end now or later, and all older rows in such an hour are among those it
counted.

`TogetherTimeProven`: for any places and accuracies, clocks that are ahead by any time,
windows (`Fresh < Bridge <= Horizon < Keep`), batch and queue sizes, day length and number
of samples. A counted minute rests on what happened between two instants at which the members
were near each other, at most `Bridge` apart (`CountedBetween`), so samples later than the
second instant, or earlier than everything else, change nothing (`CountedKept`). A range is
computed from samples up to `Bridge` around it, which is therefore enough (`ContextCounts`).
The minutes computed again reach `Bridge` to both sides of a new sample, and that alone
is not enough: a sample just before an interval could take the first "nearby" away and so a minute
further on. The invariant has why it cannot: a phone sends its rows oldest first
(`SentInOrder`), so when such a sample arrives its member has no later one, and no instant
after it can have been counted (`RecomputedProven`). The server does not check that order: the
result is about an account whose samples come from one phone's queue, as in the model.
`StreamsShow` proves the live state equal over two samples of each member and over
all of them. The summary is a fold over days; `SumOfDays` compares it with the number of counted
minutes by the least set of days for which the two would differ, so no induction rule
is needed.

**`QuestionPoolsProofs`.** For any number of jobs, couples, dates and questions, with
or without `gpu_recovery_proof_mode`. `PoolsInv` describes what a job in its
transaction holds: its selection is complete; the rows its statement found are
older than any pool written since, and so all of the date's pool or none of it
(`FoundRowsAreOld`, `FoundRowsAreWhole`); what it locked is the date's whole pool,
drawn by no couple and locked by no other job (`LocksAreWhole`). A job that locked
nothing while a pool is there meets the unique index. Without the editions the
step from "found" to "locked" does not go through: that is where overlapping jobs
could leave half of one pool and half of another.

`QuizReviewed`, `QuizShared`: for any number of questions, dates, requests, reports and
changes of consent, and any finite set of questions the couple has written
(`QuizAssumption`). `QuizInv` says what a phone knows of a day (`AsKnown`): the answers
on its screen, or in a finish on its way, were the stored ones at the revision it names,
and that revision is not later than the day's. Whatever changes answers or questions
counts the revision up (`DaysGrow`), so a finish that still finds its revision stores what was
reviewed. A revealed day never changes, so an answer read without the lock cannot show
too much (`RepliesHonest`). A replacement is never a question the day already asks: a
curated question in a day has its row in `bank` (`WholeDay`), or the two would be one and
the day would lose a question.

**`OperatorProofs`.** For any number of runs, writes and mishaps. `OneCurrentServer` does
not say why a recovery that has lost everything the orchestrator knew starts the
right host. `HostInv` does: the journal alone names the host that holds every
accepted write (`Home`), and only that host may be running (`HomeIsCurrent`). The
home moves only in the two commands that commit the journal; for these the
invariant has that nobody runs from the freeze on (`SourceIsFrozen`), that what is
promoted is what the source holds (`StagedIsSource`), that a run past its first
steps has its journal entry and one that erases has read it (`RunsAreJournalled`),
and that a report the operator acts on is still what the journal says
(`ReportsAreTrue`).

`AdminAccessProven`: for any number of PINs, device keys, challenges, sessions,
secrets and time steps. The hard part is "a code works once" while a second secret
is being set up: the row forgets the last step of the old secret when the new one
takes its place. `AdminInv` says that an accepted code is remembered as long as its
secret is in force and that no secret still to come has accepted one
(`SpentStaysSpent`), and that a pending secret is never the one in force
(`SecretsAreStaged`). The rest is about the way in: there is one usable PIN or one
live setup, never both (`OneWayIn`); a live setup asks for a second factor exactly
when the account has none (`SetupsFollowFactor`), so no setup can replace a factor
that was enabled meanwhile; a request in progress was admitted with a session that
exists (`PrincipalsExist`).

**`AiWorkQueueProofs`.** For any number of workers, rows, runs and lock files. The run
checks these properties on three small instances, under the names of its sum
(`HostGpuExclusive`, `RowCompleteMeansDone`, `TimelyLeaseCoversExecution`,
`HostRespectsTheGap`); `FinishedStaysFinished` it checks as it is.

- `HostLockSerialises`: a worker past `try_acquire_gpu_lock` holds the lock of its host
  (`LocksAreHeld`), leases carry different numbers (`LeasesAreNumbered`), and while a
  lock is quarantined nobody of that host is past it (`QuarantineHolds`).
- `LeaseCovers`: nothing began in the future (`CyclesBegan`), a worker that is not
  suspended is within its deadlines, and the sign of life its lease was claimed with
  still stands in its row (`DeadlinesHold`). Preparation and execution together are
  shorter than the time after which a row counts as abandoned, so no claim can
  come in between.
- `CompleteRowsAreDone` and `FinishedForGood`: `WorkInv` says what a worker holds beyond
  its lease, the `AiRun` or the admin job it has set to running (`RunsInHand`,
  `JobsInHand`), and that one about to complete its row has done the work or lost
  its lease (`DoneInHand`). The condition `RunsApart` is that no process is suspended
  beyond its deadlines, or that all workers share one lock file, or that no two rows share
  a run. It is needed: `finish_ai_run` looks at the caller's lease and not at the run,
  so with two hosts, a suspended process and a weekly row that shares its run with an
  admin row, TLC finds a run that passed and is then recorded as failed. The
  instances of the run all satisfy `RunsApart`, as do workers that all share one GPU host.
- `GapRespected`: what the first statement of `claim_due_work` read still holds at the
  second, because on one host nobody else is past the lock (`ActivityStillOld`). On two
  hosts it does not, and the theorem says so (`OneHost`).

### Only model-checked

- Liveness (`CyclesEnd`, `RemovedBytesVanish`, `AlertsAreDealtWith`, `MailArrives`,
  `ServiceReturns`): fairness and ENABLED are outside the prover's reach.
- The type invariants of the sums (`ServerTypeOK`, `DevicesTypeOK`): the parts a proof
  needs are conjuncts of its inductive invariant, the others are only checked.

## 5. Where the code and its documents disagree

Each of these is a run that TLC finds violated, and a finding in `PROJECT.json`
with the quoted line.

- `note_untouched`: after a reconnection `handleSnapshot` adopts the newer body and
  then drains towards the text the socket wanted before, so a phone whose user
  typed nothing turns the partner's newer text back. ADR 0038 says a newer server
  revision stops synchronization.
- `note_overwrite`: a partner's ack moves the socket's `serverBody` on at once and
  the screen later, on the UI thread. An autosave in between is diffed against
  the newer body and deletes the partner's text. ADR 0038 says offline work cannot
  silently overwrite a partner's newer revision.
- `preference_race`: `update_preferences` assigns to a member object loaded before
  the couple lock. If another request of the account changed the row in between,
  the assignment may be no change for the ORM: no UPDATE is sent, and the answer
  reports a preference that is not in force.
- `deletion_race`: `schedule_deletion` looks for a couple before it holds the account
  lock and not again afterwards. A confirmation that commits in between leaves a
  deleted account in an active couple.

One more, which the passing runs state: `NoLockCycle` exempts uploads. An upload
holds the couple row when its inserts ask for the account row, while unpairing and
deletion hold the account rows and wait for the couple. The database aborts one
of them; `CouplesAreWhole` and `SamplesNeedMutualConsent` show that this leaves
nothing half done.

### Limits met while modelling

These have no run: the models contain the behaviour where the part is modelled,
and the properties are stated so that they do not claim more than the code does.

- Quiz: a reported custom question becomes due again (`quiz_v2_service.py:147`;
  `routes/quizzes_v2.py:276` answers that it is hidden); a withdrawal of consent
  whose replacement the day already holds fails on the unique index
  (`quiz_v2_service.py:319`); an overdue intimate custom question of a couple
  without consent can be neither edited nor deleted (`quiz_custom_service.py:172`).
- Notes: the second check of `note_deduplication.py:66` reads rows from the
  session's identity map, so a note edited in between may be archived;
  `bodyInFlight` stays set when `update()` finds nothing to send
  (`NoteDocumentSession.java:203`).
- Countdowns: an edit folded into a creation that had reached the server is dropped
  with the replayed answer (`CountdownOfflineStore.java:95`); deleting a local
  countdown whose creation had arrived leaves it on the server; a refused edit does not
  stop the later ones of the queue.
- Attachments: requests act on rows read before the couple lock
  (`routes/attachments.py:253`, `:378`) and may release bytes twice; a late duplicate of a chunk truncates the staged file
  (`:328`); a death in the last attempt leaves its bytes reserved
  (`attachment_media.py:109`).
- Smooches: the screen's callback returns early when the screen is closed, so a
  failed send is neither queued nor shown; `acceptSmooch` validates and enqueues
  in two steps, against the removal of a watch (one step in the model).
- Watch: `DisplayCacheSynchronizer.java:83` compares and then activates.
- Together time: a change of the home timezone does not partition stored days again
  (`routes/couples.py:102`), which `DayTotalsMatch` exempts; switching sharing off
  and on again erases the samples in between.
- Access: verification locks link then account, others account then links
  (`routes/auth.py:170`); the answer with new recovery codes cannot be repeated
  (`routes/big_orbit_bootstrap.py:146`).
- Mail: a body that cannot be decrypted ends its batch in every cycle
  (`mail.py:94`); `MailArrives` is stated without one.
- Migration: a remote command that outlives its lost answer may run during a
  recovery (`migration_recovery.py:57`), and a database session may open after the last
  check (`direct_migration.py:443`).

## 6. What is not modelled, and the plan

Within the modelled parts: archives and exports, note titles and presence,
attachments of forks, reminders, quiz version 1 and what versions 3 and 4 add to an
answer, delivery of a Smooch to its recipient, tiles and image transfer, the
wording, embeddings and rotation of generated questions. Rendering, prompts, signature checks and the web site keep no
state shared between actors. Backups, restores, array recovery and
credential rotation are sequences of commands of one operator under the
operation lock.

Not composed: the parts meet in the database under the couple or account lock,
and each module models the others' effect on its rows (a relationship's end in
`WatchAuthority` and `TogetherTime`, erasure in `MailDelivery`, consent in `QuizDay`).

Next:

1. The Android updater (`AndroidUpdateCoordinator`): a result delivered late, a
   process that dies while it installs.
2. Credential rotation on the host (`unraid-rotate-database-roles.sh`) and its
   rollback.
