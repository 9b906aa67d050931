---------------------------- MODULE SmoochSending ----------------------------
(***************************************************************************)
(* A Smooch on its way from the watch or the phone to the server. The      *)
(* watch keeps its sends in WearSmoochQueue until the phone has answered;  *)
(* the phone checks each one (MobileWearBridgeService, WatchActionPolicy)  *)
(* and keeps it in SmoochOutbox until the server has answered the worker   *)
(* (SmoochSendWorker); routes/smooches.py records it once, within a        *)
(* rolling hourly limit. Messages and answers may be lost.                 *)
(*                                                                         *)
(* authority stands for the pair of generations (relationship, watch) that *)
(* WatchAuthority models. A run of the worker is short against a tick of   *)
(* the clock. Emoji, phrases and encryption are left out.                  *)
(***************************************************************************)
EXTENDS Integers, Sequences, FiniteSets

CONSTANTS
    MaxSends,    \* bound of the model: Smooches a user sends
    MaxWatch,    \* bound of the model: how many of them from the watch
    MaxNow,      \* bound of the model: ticks
    Lifetime,    \* LIFETIME_MILLIS of both queues, in ticks
    Hour,        \* the rolling hour, in ticks
    HourlyLimit, \* HOURLY_LIMIT of the server
    QueueLimit,  \* entries kept by each queue
    MaxRemovals  \* bound of the model: removals of the watch

ASSUME SmoochAssumption ==
    /\ {MaxSends, MaxNow, Lifetime, Hour, HourlyLimit, QueueLimit} \subseteq Nat \ {0}
    /\ {MaxRemovals, MaxWatch} \subseteq Nat

VARIABLES
    now,        \* shared by the devices and the server
    sends,      \* Smooches sent so far: when, from where, under which authority
    smooches,   \* Smooch rows of this sender, in order: operation and sent_at
    wearQueue,  \* operations in WearSmoochQueue, each with its place
    wearAuth,   \* the authority the watch knows, 0 after a purge
    mail,       \* SMOOCH messages on their way to the phone
    results,    \* SMOOCH_RESULT messages on their way to the watch
    authority,  \* the phone's current authority
    outbox,     \* operations in SmoochOutbox, each with its place
    sender,     \* SmoochSendWorker: "none", "enqueued", "running"
    toSend,     \* entries the running worker has read and not handled
    again,      \* its local flag: retry
    given       \* history: operations refused, expired, squeezed out or withdrawn

smoochVars == <<now, sends, smooches, wearQueue, wearAuth, mail, results, authority, outbox,
                sender, toSend, again, given>>

SmoochTypeOK ==
    /\ now \in 1..MaxNow
    /\ Len(sends) <= MaxSends
    /\ \A i \in DOMAIN smooches : smooches[i].op \in DOMAIN sends
    /\ \A queue \in {wearQueue, outbox} :
          /\ DOMAIN queue \subseteq DOMAIN sends /\ Cardinality(DOMAIN queue) <= QueueLimit
          /\ {queue[op] : op \in DOMAIN queue} = 1..Cardinality(DOMAIN queue)
    /\ sender \in {"none", "enqueued", "running"}
    /\ again \in BOOLEAN
    /\ wearAuth \in 0..authority

\* A queue gives each of its operations a place, the oldest entry the first.
EmptyQueue == [op \in {} |-> 0]

SmoochInit ==
    /\ now = 1
    /\ sends = <<>> /\ smooches = <<>>
    /\ wearQueue = EmptyQueue /\ wearAuth = 1 /\ mail = {} /\ results = {}
    /\ authority = 1
    /\ outbox = EmptyQueue /\ sender = "none" /\ toSend = EmptyQueue /\ again = FALSE
    /\ given = {}

-----------------------------------------------------------------------------
(* The server: what send_smooch answers and leaves behind.                  *)

SmoochRecorded(op) == \E i \in DOMAIN smooches : smooches[i].op = op

\* _recent_sends
RecentSends(t) == {i \in DOMAIN smooches : smooches[i].at > t - Hour}

\* Mutant: the operation id is not looked up.
AnswerWithoutPrior(op) ==
    IF Cardinality(RecentSends(now)) >= HourlyLimit THEN "limited" ELSE "new"
\* The prior row comes first, then the limit.
Answer(op) ==
    CASE SmoochRecorded(op) -> "prior"
      [] ~SmoochRecorded(op) /\ Cardinality(RecentSends(now)) >= HourlyLimit -> "limited"
      [] OTHER -> "new"

\* send_smooch
SendSmooch(op) ==
    smooches' = IF Answer(op) = "new" THEN Append(smooches, [op |-> op, at |-> now]) ELSE smooches

-----------------------------------------------------------------------------
(* The phone.                                                               *)

SentAt(op) == sends[op].at
StillWanted(t, op) == SentAt(op) + Lifetime > t

\* The entries that stay keep their order.
Remaining(box, ops) == [op \in ops |-> Cardinality({o \in ops : box[o] <= box[op]})]

Added(box, op) ==
    [o \in DOMAIN box \cup {op} |->
        IF o \in DOMAIN box THEN box[o] ELSE Cardinality(DOMAIN box) + 1]

\* SmoochOutbox.pending: what is too old is dropped from the store.
Pending(box, t) == Remaining(box, {op \in DOMAIN box : StillWanted(t, op)})
Without(box, op) == Remaining(box, DOMAIN box \ {op})

\* Mutant: one entry too many is kept.
SqueezedLate(box) ==
    Remaining(box, {op \in DOMAIN box : box[op] >= Cardinality(DOMAIN box) - QueueLimit})

\* The oldest entries go when the queue is full.
Squeezed(box) ==
    Remaining(box, {op \in DOMAIN box : box[op] > Cardinality(DOMAIN box) - QueueLimit})

\* SmoochOutbox.enqueue: the age of the others is measured at the new entry's creation.
Enqueued(box, op, t) == Squeezed(Added(Pending(box, t), op))

\* What a queue has let go.
Dropped(old, new, op) == (DOMAIN old \cup {op}) \ DOMAIN new

\* SmoochSendWorker.enqueue keeps a request that is waiting or running.
WorkKept == IF sender = "none" THEN "enqueued" ELSE sender

NewSend(from, auth) == Append(sends, [at |-> now, from |-> from, auth |-> auth])
ThisSend == Len(sends) + 1

EnqueueOnPhone(op, t) ==
    /\ outbox' = Enqueued(outbox, op, t)
    /\ given' = given \cup Dropped(outbox, outbox', op)
    /\ sender' = WorkKept

\* SmoochActivity.send: the request is answered; is answered without the phone learning
\* it, or does not arrive, and is queued; or fails in another way, or on a screen that
\* has been closed, and is given up.
PhoneSend ==
    /\ Len(sends) < MaxSends
    /\ sends' = NewSend("phone", 0)
    /\ \/ /\ LET op == ThisSend IN
             IF Cardinality(RecentSends(now)) >= HourlyLimit
             THEN given' = given \cup {op} /\ UNCHANGED smooches
             ELSE smooches' = Append(smooches, [op |-> op, at |-> now]) /\ UNCHANGED given
          /\ UNCHANGED <<outbox, sender>>
       \/ /\ \/ UNCHANGED smooches
             \/ /\ Cardinality(RecentSends(now)) < HourlyLimit
                /\ smooches' = Append(smooches, [op |-> ThisSend, at |-> now])
          /\ outbox' = Enqueued(outbox, ThisSend, now)
          /\ given' = given \cup Dropped(outbox, outbox', ThisSend)
          /\ sender' = WorkKept
       \/ /\ given' = given \cup {ThisSend}
          /\ UNCHANGED <<smooches, outbox, sender>>
    /\ UNCHANGED <<now, wearQueue, wearAuth, mail, results, authority, toSend, again>>

\* WatchActionPolicy.authorized
Authorized(op) == sends[op].auth = authority /\ sends[op].at <= now /\ StillWanted(now, op)

\* MobileWearBridgeService.acceptSmooch and sendResult
AcceptSmooch(op) ==
    /\ op \in mail /\ mail' = mail \ {op}
    /\ results' = results \cup {op}
    /\ IF Authorized(op) THEN EnqueueOnPhone(op, sends[op].at)
       ELSE /\ given' = given \cup (IF op \in DOMAIN outbox \/ SmoochRecorded(op) THEN {} ELSE {op})
            /\ UNCHANGED <<outbox, sender>>
    /\ UNCHANGED <<now, sends, smooches, wearQueue, wearAuth, authority, toSend, again>>

\* ManagedWatchCoordinator.prepareRemoval, with clearWatchOrigin.
RemoveSmoochWatch ==
    /\ authority <= MaxRemovals
    /\ authority' = authority + 1
    /\ outbox' = Remaining(outbox, {op \in DOMAIN outbox : sends[op].from = "phone"})
    /\ given' = given \cup (DOMAIN outbox \ DOMAIN outbox')
    /\ UNCHANGED <<now, sends, smooches, wearQueue, wearAuth, mail, results, sender, toSend, again>>

\* Sign-out or unpairing clears the outbox.
ClearOutbox ==
    /\ outbox # EmptyQueue
    /\ outbox' = EmptyQueue
    /\ given' = given \cup DOMAIN outbox
    /\ UNCHANGED <<now, sends, smooches, wearQueue, wearAuth, mail, results, authority, sender,
                   toSend, again>>

\* SmoochSendWorker.doWork: the pending entries are read ...
StartSending ==
    /\ sender = "enqueued"
    /\ sender' = "running" /\ again' = FALSE
    /\ toSend' = Pending(outbox, now) /\ outbox' = toSend'
    /\ given' = given \cup (DOMAIN outbox \ DOMAIN outbox')
    /\ UNCHANGED <<now, sends, smooches, wearQueue, wearAuth, mail, results, authority>>

\* An answered entry is removed; no answer, 429 and 5xx keep it.
OutboxAfter(op, outcome) == IF outcome = "answered" THEN Without(outbox, op) ELSE outbox

\* ... and sent one after the other.
SendPending ==
    /\ sender = "running"
    /\ \E op \in DOMAIN toSend, outcome \in {"answered", "unanswered", "unsent"} :
          /\ \A o \in DOMAIN toSend : toSend[op] <= toSend[o]
          /\ toSend' = Without(toSend, op)
          /\ outcome = "answered" => Answer(op) # "limited"
          /\ IF outcome = "unsent" THEN UNCHANGED smooches ELSE SendSmooch(op)
          /\ outbox' = OutboxAfter(op, outcome)
          /\ again' = (again \/ outcome # "answered")
    /\ UNCHANGED <<now, sends, wearQueue, wearAuth, mail, results, authority, sender, given>>

\* Result.retry or Result.success
FinishSending ==
    /\ sender = "running" /\ toSend = EmptyQueue
    /\ outbox' = IF again THEN Pending(outbox, now) ELSE outbox
    /\ given' = given \cup (DOMAIN outbox \ DOMAIN outbox')
    /\ sender' = IF again /\ outbox' # EmptyQueue THEN "enqueued" ELSE "none"
    /\ UNCHANGED <<now, sends, smooches, wearQueue, wearAuth, mail, results, authority, toSend,
                   again>>

-----------------------------------------------------------------------------
(* The watch.                                                               *)

\* WearSmoochConfirmActivity.send with WearSmoochQueue.enqueue.
WatchSend ==
    /\ wearAuth > 0 /\ Len(sends) < MaxSends
    /\ Cardinality({o \in DOMAIN sends : sends[o].from = "watch"}) < MaxWatch
    /\ sends' = NewSend("watch", wearAuth)
    /\ wearQueue' = Enqueued(wearQueue, ThisSend, now)
    /\ given' = given \cup (Dropped(wearQueue, wearQueue', ThisSend) \ DOMAIN outbox)
    /\ UNCHANGED <<now, smooches, wearAuth, mail, results, authority, outbox, sender, toSend, again>>

\* WearActionService.flushToNode: everything still pending is sent (again).
FlushToPhone ==
    /\ wearAuth > 0 /\ Pending(wearQueue, now) # EmptyQueue
    /\ mail' = mail \cup DOMAIN Pending(wearQueue, now)
    /\ wearQueue' = Pending(wearQueue, now)
    /\ given' = given \cup (DOMAIN wearQueue \ (DOMAIN wearQueue' \cup DOMAIN outbox))
    /\ UNCHANGED <<now, sends, smooches, wearAuth, results, authority, outbox, sender, toSend, again>>

\* WearActionService.acceptResult: accepted and rejected both end the watch's duty.
AcceptResult(op) ==
    /\ op \in results /\ results' = results \ {op}
    /\ wearQueue' = IF wearAuth > 0 THEN Without(wearQueue, op) ELSE wearQueue
    /\ UNCHANGED <<now, sends, smooches, wearAuth, mail, authority, outbox, sender, toSend, again,
                   given>>

\* The watch applies a purge, or learns the phone's current authority.
WatchLearns ==
    /\ wearAuth # authority
    /\ wearAuth' \in {0, authority}
    /\ wearQueue' = EmptyQueue
    /\ given' = given \cup (DOMAIN wearQueue \ DOMAIN outbox)
    /\ UNCHANGED <<now, sends, smooches, mail, results, authority, outbox, sender, toSend, again>>

LoseMessage ==
    /\ \/ \E op \in mail : mail' = mail \ {op} /\ UNCHANGED results
       \/ \E op \in results : results' = results \ {op} /\ UNCHANGED mail
    /\ UNCHANGED <<now, sends, smooches, wearQueue, wearAuth, authority, outbox, sender, toSend,
                   again, given>>

SmoochTick ==
    /\ now < MaxNow /\ sender # "running" /\ now' = now + 1
    /\ UNCHANGED <<sends, smooches, wearQueue, wearAuth, mail, results, authority, outbox, sender,
                   toSend, again, given>>

SmoochNext ==
    \/ PhoneSend \/ WatchSend \/ FlushToPhone \/ WatchLearns \/ LoseMessage
    \/ \E op \in mail : AcceptSmooch(op)
    \/ \E op \in results : AcceptResult(op)
    \/ RemoveSmoochWatch \/ ClearOutbox
    \/ StartSending \/ SendPending \/ FinishSending
    \/ SmoochTick

SmoochSpec == SmoochInit /\ [][SmoochNext]_smoochVars

-----------------------------------------------------------------------------

\* A Smooch is recorded once, however often the watch and the worker repeat it.
SmoochRecordedOnce ==
    \A i, j \in DOMAIN smooches : smooches[i].op = smooches[j].op => i = j

\* No rolling hour holds more recorded Smooches of one sender than the limit.
HourlyLimitHolds ==
    \A t \in 1..MaxNow :
        Cardinality({i \in DOMAIN smooches : smooches[i].at \in (t - Hour + 1)..t}) <= HourlyLimit

\* A Smooch is not recorded after the time in which its sender expects it.
NoStaleSmooch ==
    \A i \in DOMAIN smooches : smooches[i].at < sends[smooches[i].op].at + Lifetime

\* A Smooch that is neither recorded nor given up is still held by a queue, so that it
\* is sent again.
NoSmoochLost ==
    \A op \in DOMAIN sends :
        \/ SmoochRecorded(op) \/ op \in given
        \/ op \in DOMAIN wearQueue \cup DOMAIN outbox

\* Nothing that a watch sent under an earlier authority waits in the outbox once the
\* watch has been removed.
NothingFromARemovedWatch ==
    \A op \in DOMAIN outbox :
        sends[op].from = "watch" => sends[op].auth = authority

\* A Smooch that is repeated by the watch, the phone and its worker counts once,
\* in time, within the hourly limit, and never for a watch that was removed
\* (send_smooch, SmoochOutbox, MobileWearBridgeService).
SmoochesCountOnce ==
    SmoochRecordedOnce /\ HourlyLimitHolds /\ NoStaleSmooch /\ NothingFromARemovedWatch

\* None is lost on the way, and none counts twice.
SmoochesArriveOnce == SmoochesCountOnce /\ NoSmoochLost
=============================================================================
