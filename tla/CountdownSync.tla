--------------------------- MODULE CountdownSync ---------------------------
(***************************************************************************)
(* Countdowns of a couple: the server (routes/countdowns.py) and one phone *)
(* with its encrypted cache, its ordered queue of unsent edits             *)
(* (CountdownOfflineStore, CountdownDao) and the worker that replays it    *)
(* (CountdownSyncWorker), while the partner edits on the server.           *)
(*                                                                         *)
(* Handlers run under the couple lock, so one is one step. A request may   *)
(* not arrive, or its answer may be lost. The number of an operation id is *)
(* also the content it writes; a countdown is named by the operation that  *)
(* created it, the one that exists at the start by 0. Titles, times,       *)
(* reminders and encryption are left out.                                  *)
(***************************************************************************)
EXTENDS Integers, Sequences, FiniteSets

CONSTANTS
    PhoneOps,    \* bound of the model: edits of the phone's user
    PartnerOps,  \* bound of the model: edits of the partner
    QueueBatch   \* rows CountdownDao.queued returns at most

ASSUME CountdownAssumption == {PhoneOps, PartnerOps, QueueBatch} \subseteq Nat

VARIABLES
    countdowns, \* Countdown rows
    history,    \* countdown_operations, in order, with what each replaced
    cache,      \* countdown_cache of the phone
    queue,      \* queued_countdowns of the phone; operation ids grow with their age
    screen,     \* what CountdownActivity shows: content and revision by key
    work,       \* the unique work request: "none", "enqueued" or "running"
    batch,      \* rows the worker has read and not yet handled
    answer,     \* the answer on its way to the worker, or NoAnswer
    settled,    \* history: operations refused to the user, folded into another
                \* one, or withdrawn by the user or a sign-out
    issued      \* operations issued by the phone's user and by the partner

countdownVars == <<countdowns, history, cache, queue, screen, work, batch, answer,
                   settled, issued>>
phoneVars  == <<cache, queue, screen, work, batch, answer, settled>>
serverVars == <<countdowns, history>>

CountdownOps == 1 .. PhoneOps + PartnerOps
Ids == 0 .. PhoneOps + PartnerOps
Key(kind, id) == <<kind, id>>     \* "srv" ids and "local:" ids of the cache
Keys == {"srv", "local"} \X Ids
NoRow == [pending |-> FALSE, conflict |-> FALSE, content |-> -1, rev |-> -1]
NoAnswer == [op |-> 0, ok |-> FALSE, row |-> NoRow]

CountdownRow == [there : BOOLEAN, deleted : BOOLEAN, rev : Nat, content : Ids]

CountdownTypeOK ==
    /\ countdowns \in [Ids -> CountdownRow]
    /\ DOMAIN cache = Keys
    /\ \A q \in queue \cup batch : q.op \in CountdownOps
    /\ work \in {"none", "enqueued", "running"}
    /\ settled \subseteq CountdownOps
    /\ issued.phone \in 0..PhoneOps /\ issued.partner \in 0..PartnerOps

CountdownInit ==
    /\ countdowns = [i \in Ids |-> [there |-> i = 0, deleted |-> FALSE, rev |-> 0,
                                    content |-> 0]]
    /\ history = <<>>
    /\ cache = [k \in Keys |-> IF k = Key("srv", 0)
                               THEN [NoRow EXCEPT !.content = 0, !.rev = 0] ELSE NoRow]
    /\ screen = cache
    /\ queue = {}
    /\ work = "none" /\ batch = {} /\ answer = NoAnswer
    /\ settled = {}
    /\ issued = [phone |-> 0, partner |-> 0]

-----------------------------------------------------------------------------
(* The server. q: [op, kind, id, expected, content, basis].                 *)

Recorded(op) == \E i \in DOMAIN history : history[i].op = op

\* Mutant: the expected revision is not compared.
AcceptedAtAnyRevision(q) ==
    /\ ~Recorded(q.op)
    /\ \/ q.kind = "create"
       \/ countdowns[q.id].there /\ ~countdowns[q.id].deleted

\* The conditions under which an operation takes effect: not seen before, its
\* countdown visible (a deletion also finds a deleted one) and unchanged.
Accepted(q) ==
    /\ ~Recorded(q.op)
    /\ \/ q.kind = "create"
       \/ /\ countdowns[q.id].there
          /\ \/ q.kind = "delete" /\ countdowns[q.id].deleted
             \/ ~countdowns[q.id].deleted /\ countdowns[q.id].rev = q.expected

\* The answer is a success for what took effect, now or before.
Succeeds(q) == Recorded(q.op) \/ Accepted(q)

Target(q) == IF q.kind = "create" THEN q.op ELSE q.id

\* create_countdown, update_countdown and delete_countdown: the row they write.
Created(q) == [there |-> TRUE, deleted |-> FALSE, rev |-> 0, content |-> q.content]
Updated(q) == [countdowns[q.id] EXCEPT !.rev = @ + 1, !.content = q.content]
Deleted(q) == [countdowns[q.id] EXCEPT !.rev = @ + 1, !.deleted = TRUE]
Written(q) == CASE q.kind = "create" -> Created(q)
                [] q.kind = "update" -> Updated(q)
                [] q.kind = "delete" -> Deleted(q)

\* What _record_operation remembers, and what was replaced.
OperationOf(q) == [op |-> q.op, kind |-> q.kind, basis |-> q.basis, wrote |-> q.content,
                   replaced |-> countdowns[Target(q)].content]

Handle(q) ==
    IF Accepted(q)
    THEN /\ countdowns' = [countdowns EXCEPT ![Target(q)] = Written(q)]
         /\ history' = Append(history, OperationOf(q))
    ELSE UNCHANGED serverVars

\* The row a successful answer carries: that of the recorded operation, as it
\* is then. A deletion answers with a message only.
Carried(q) ==
    LET row == IF Accepted(q) THEN Written(q) ELSE countdowns[Target(q)] IN
    [NoRow EXCEPT !.content = row.content, !.rev = row.rev]

PartnerEdits ==
    \E i \in Ids, kind \in {"update", "delete"} :
        /\ issued.partner < PartnerOps
        /\ countdowns[i].there /\ ~countdowns[i].deleted
        /\ LET o == PhoneOps + issued.partner + 1 IN
           Handle([op |-> o, kind |-> kind, id |-> i, expected |-> countdowns[i].rev,
                   content |-> o, basis |-> countdowns[i].content])
        /\ issued' = [issued EXCEPT !.partner = @ + 1]
        /\ UNCHANGED phoneVars

-----------------------------------------------------------------------------
(* The phone: CountdownSyncGateway and CountdownOfflineStore.               *)

\* list_countdowns.
Remote(k) ==
    IF k[1] = "srv" /\ countdowns[k[2]].there /\ ~countdowns[k[2]].deleted
    THEN [NoRow EXCEPT !.content = countdowns[k[2]].content, !.rev = countdowns[k[2]].rev]
    ELSE NoRow

\* replaceRemote keeps pending and conflicting rows.
Kept(k) == cache[k].pending \/ cache[k].conflict

\* CountdownSyncGateway.load.
Load ==
    /\ cache' = [k \in Keys |-> IF Kept(k) THEN cache[k] ELSE Remote(k)]
    /\ screen' = cache'
    /\ UNCHANGED <<countdowns, history, queue, work, batch, answer, settled, issued>>

LoadOffline ==
    /\ screen' = cache
    /\ UNCHANGED <<countdowns, history, cache, queue, work, batch, answer, settled, issued>>

\* enqueueUniqueWork with KEEP: an unfinished request absorbs the new one.
Schedule == work' = IF work = "none" THEN "enqueued" ELSE work

Optimistic(q) == [NoRow EXCEPT !.pending = TRUE, !.content = q.content,
                              !.rev = IF q.kind = "create" THEN 0 ELSE q.expected + 1]
CacheKey(q) == IF q.kind = "create" THEN Key("local", q.op) ELSE Key("srv", q.id)

\* queueCreate, queueUpdate, queueDelete after a failed request.
Enqueue(q) ==
    /\ cache' = [cache EXCEPT ![CacheKey(q)] = IF q.kind = "delete" THEN NoRow
                                               ELSE Optimistic(q)]
    /\ queue' = queue \cup {q}
    /\ Schedule
    /\ UNCHANGED settled

\* CountdownSyncGateway.create, update, delete: the request is answered, does not
\* arrive, or arrives and its answer is lost; the last two queue it.
Attempt(q) ==
    \/ /\ Handle(q)
       /\ settled' = IF Succeeds(q) THEN settled ELSE settled \cup {q.op}
       /\ UNCHANGED <<cache, queue, work>>
    \/ UNCHANGED serverVars /\ Enqueue(q)
    \/ Handle(q) /\ Enqueue(q)

Issue == issued' = [issued EXCEPT !.phone = @ + 1]
NextOp == issued.phone + 1

UserCreates ==
    /\ issued.phone < PhoneOps
    /\ Attempt([op |-> NextOp, kind |-> "create", id |-> NextOp, expected |-> 0,
                content |-> NextOp, basis |-> NextOp])
    /\ Issue
    /\ UNCHANGED <<screen, batch, answer>>

\* saveEdit or deleteCountdown on a displayed countdown of the server.
UserEdits(i, kind) ==
    LET shown == screen[Key("srv", i)] IN
    /\ issued.phone < PhoneOps
    /\ shown.rev >= 0
    /\ Attempt([op |-> NextOp, kind |-> kind, id |-> i, expected |-> shown.rev,
                content |-> NextOp, basis |-> shown.content])
    /\ Issue
    /\ UNCHANGED <<screen, batch, answer>>

Dequeued(op) == {q \in queue : q.op # op}

\* updateLocalCreate: the edit is folded into the queued creation, if there is one.
UserFolds(o) ==
    LET k == Key("local", o) IN
    /\ issued.phone < PhoneOps
    /\ screen[k].rev >= 0
    /\ cache' = [cache EXCEPT ![k] = [NoRow EXCEPT !.pending = TRUE,
                                         !.content = NextOp, !.rev = 0]]
    /\ queue' = {IF q.op = o /\ q.kind = "create" THEN [q EXCEPT !.content = NextOp] ELSE q :
                    q \in queue}
    /\ settled' = settled \cup {NextOp}
    /\ Issue
    /\ UNCHANGED <<countdowns, history, screen, work, batch, answer>>

\* queueDelete of a local countdown forgets its creation.
UserForgets(o) ==
    LET k == Key("local", o) IN
    /\ screen[k].rev >= 0
    /\ cache' = [cache EXCEPT ![k] = NoRow]
    /\ queue' = Dequeued(o)
    /\ settled' = settled \cup {o}
    /\ UNCHANGED <<countdowns, history, screen, work, batch, answer, issued>>

\* clear: sign-out, unpairing or deletion on this phone. Cancelling the work does
\* not stop the thread that runs it: it goes on with the rows it has read.
ClearPhone ==
    /\ cache' = [k \in Keys |-> NoRow] /\ screen' = cache'
    /\ queue' = {}
    /\ work' = "none"
    /\ settled' = settled \cup {q.op : q \in queue}
    /\ UNCHANGED <<countdowns, history, batch, answer, issued>>

-----------------------------------------------------------------------------
(* CountdownSyncWorker. One thread runs it at a time.                        *)

\* CountdownDao.queued: the oldest rows.
StartWork ==
    /\ work = "enqueued" /\ batch = {}
    /\ work' = "running"
    /\ batch' = {q \in queue : Cardinality({p \in queue : p.op < q.op}) < QueueBatch}
    /\ UNCHANGED <<countdowns, history, cache, queue, screen, answer, settled, issued>>

\* The row the worker is at.
AtRow(q) == q \in batch /\ \A p \in batch : q.op <= p.op

\* execute: the server handles the row as the worker read it.
SendRow(q) ==
    /\ AtRow(q) /\ answer = NoAnswer
    /\ Handle(q)
    /\ answer' = [op |-> q.op, ok |-> Succeeds(q), row |-> Carried(q)]
    /\ UNCHANGED <<cache, queue, screen, work, batch, settled, issued>>

\* interpret and acknowledge.
Acknowledge(q) ==
    /\ AtRow(q) /\ answer # NoAnswer /\ answer.ok
    /\ queue' = Dequeued(q.op)
    /\ cache' = [k \in Keys |->
                   IF q.kind = "create" /\ k = Key("local", q.op) THEN NoRow
                   ELSE IF q.kind # "delete" /\ k = Key("srv", Target(q)) THEN answer.row
                   ELSE cache[k]]
    /\ batch' = batch \ {q} /\ answer' = NoAnswer
    /\ UNCHANGED <<countdowns, history, screen, work, settled, issued>>

\* interpret and markConflict: the row is dropped, its version stays visible.
MarkConflict(q) ==
    LET k == CacheKey(q) IN
    /\ AtRow(q) /\ answer # NoAnswer /\ ~answer.ok
    /\ queue' = Dequeued(q.op)
    /\ cache' = IF cache[k].rev >= 0
                THEN [cache EXCEPT ![k].pending = FALSE, ![k].conflict = TRUE]
                ELSE cache
    /\ settled' = settled \cup {q.op}
    /\ batch' = batch \ {q} /\ answer' = NoAnswer
    /\ UNCHANGED <<countdowns, history, screen, work, issued>>

\* Result.retry: an IOException before or after the server acted, or a server
\* error. A cancelled work is not retried.
RetryLater ==
    /\ batch # {}
    /\ work' = IF work = "running" THEN "enqueued" ELSE work
    /\ batch' = {} /\ answer' = NoAnswer
    /\ UNCHANGED <<countdowns, history, cache, queue, screen, settled, issued>>

\* The batch is done, or the session is no longer authorised.
FinishWork ==
    /\ work = "running" /\ answer = NoAnswer
    /\ work' = "none" /\ batch' = {}
    /\ UNCHANGED <<countdowns, history, cache, queue, screen, answer, settled, issued>>

CountdownNext ==
    \/ PartnerEdits
    \/ Load \/ LoadOffline \/ UserCreates \/ ClearPhone
    \/ \E i \in Ids, kind \in {"update", "delete"} : UserEdits(i, kind)
    \/ \E o \in CountdownOps : UserFolds(o) \/ UserForgets(o)
    \/ \E q \in batch : SendRow(q) \/ Acknowledge(q) \/ MarkConflict(q)
    \/ StartWork \/ RetryLater \/ FinishWork

CountdownSpec == CountdownInit /\ [][CountdownNext]_countdownVars

-----------------------------------------------------------------------------
(* Properties.                                                              *)

\* An operation takes effect at most once, however often the phone or its worker
\* sends it again after a lost answer (_prior_result under the couple lock).
EditsTakeEffectOnce ==
    \A i, j \in DOMAIN history : history[i].op = history[j].op => i = j

\* No edit vanishes: what the user did has reached the server, waits in the
\* queue, or was refused, folded into another edit or withdrawn; lost answers,
\* retries and a worker that a sign-out has cancelled do not change that. (That
\* folded content itself survives is not claimed.)
NoEditVanishes ==
    \A op \in 1..issued.phone :
        Recorded(op) \/ op \in settled \/ \E q \in queue : q.op = op

\* An edit of a version the server really had replaces exactly that version,
\* whatever stale screen, queued retry or partner's edit came between. (An edit
\* of an optimistic version that never reached the server is not covered: its
\* revision number may meanwhile be the number of a partner's version.)
ConfirmedVersionsNotOverwritten ==
    \A i \in DOMAIN history :
        LET e == history[i] IN
        e.kind = "update" /\ (e.basis = 0 \/ \E j \in DOMAIN history : history[j].wrote = e.basis)
            => e.replaced = e.basis

\* Every offline edit counts once: it is neither repeated nor lost silently, and it
\* replaces the version its author saw (countdown routes, CountdownOfflineStore,
\* CountdownSyncWorker).
EditsCountOnce ==
    EditsTakeEffectOnce /\ NoEditVanishes /\ ConfirmedVersionsNotOverwritten
=============================================================================
