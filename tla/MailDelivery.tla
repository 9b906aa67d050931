---------------------------- MODULE MailDelivery ----------------------------
(***************************************************************************)
(* The encrypted mail outbox and the worker that empties it (mail.py, the  *)
(* polling loop of worker.py, the outbox rows removed by account erasure). *)
(*                                                                         *)
(* A worker locks a batch of due rows, skipping rows another worker holds, *)
(* sends them one by one and commits the outcome of the whole batch.  What *)
(* it has done so far is private to its transaction until then: a crash,   *)
(* or an error that is not a transport error, rolls all of it back, the    *)
(* rows it has already sent included.  Instead of a clock each row counts  *)
(* the minutes until it is due.                                            *)
(***************************************************************************)
EXTENDS Integers, FiniteSets, FiniteSetsExt

CONSTANTS
    Mailers,        \* worker processes
    Mails,          \* outbox rows by number, in the order they are created
    MailBatch,      \* rows of one batch
    HeldBack,       \* rows created before recovery_mail_not_before
    Unreadable,     \* rows whose body the present key cannot decrypt
    MaxMailFaults,  \* bound on transport errors
    MaxRollbacks    \* bound on crashes and aborted batches

ASSUME MailAssumption ==
    /\ Mails = 1..Cardinality(Mails)
    /\ HeldBack \subseteq Mails /\ Unreadable \subseteq Mails
    /\ MailBatch \in Nat \ {0}
    /\ MaxMailFaults \in Nat /\ MaxRollbacks \in Nat

VARIABLES
    mailRows,   \* the outbox row of each mail
    accepted,   \* times the mail server accepted each mail
    batches,    \* rows each worker has locked and still has to send
    outcome,    \* rows as each worker's transaction will commit them
    lostSends,  \* times a send of each mail was rolled back
    mailFaults, \* transport errors so far
    rollbacks   \* rolled-back batches so far

mailVars == <<mailRows, accepted, batches, outcome, lostSends, mailFaults, rollbacks>>

\* `wait` is the number of minutes until next_attempt_at.
OutboxRows ==
    [state : {"unwritten", "pending", "delivered", "erased"},
     attempts : Nat, wait : 0..60]

Unwritten == [state |-> "unwritten", attempts |-> 0, wait |-> 0]
NoOutcome == [m \in {} |-> Unwritten]

MailInit ==
    /\ mailRows = [m \in Mails |-> Unwritten]
    /\ accepted = [m \in Mails |-> 0]
    /\ batches = [w \in Mailers |-> {}]
    /\ outcome = [w \in Mailers |-> NoOutcome]
    /\ lostSends = [m \in Mails |-> 0]
    /\ mailFaults = 0
    /\ rollbacks = 0

\* The row is written in the transaction of the request that needs the mail.
EnqueueMail ==
    /\ \E m \in Mails :
          /\ mailRows[m].state = "unwritten"
          /\ \A n \in 1..(m - 1) : mailRows[n].state # "unwritten"
          /\ mailRows' = [mailRows EXCEPT ![m].state = "pending"]
    /\ UNCHANGED <<accepted, batches, outcome, lostSends, mailFaults, rollbacks>>

\* Rows some worker's open transaction has locked.
RowsOf(w) == batches[w] \cup DOMAIN outcome[w]
Locked == UNION {RowsOf(w) : w \in Mailers}

\* Mutant: only rows that were never tried are looked for.
DueFirstTime(m) == mailRows[m] = [state |-> "pending", attempts |-> 0, wait |-> 0]

Due(m) == mailRows[m].state = "pending" /\ mailRows[m].wait = 0 /\ m \notin HeldBack

\* Mutant: rows locked by another worker are taken as well.
SelectableLocked == {m \in Mails : Due(m)}

Selectable == {m \in Mails : Due(m) /\ m \notin Locked}

\* The oldest rows, at most a batch of them.
Oldest(chosen, rows) ==
    /\ Cardinality(chosen) = Min({MailBatch, Cardinality(rows)})
    /\ \A m \in chosen, n \in rows \ chosen : m < n

PollMail(w) ==
    /\ batches[w] = {} /\ outcome[w] = NoOutcome
    /\ Selectable # {}
    /\ \E chosen \in SUBSET Selectable :
          /\ Oldest(chosen, Selectable)
          /\ batches' = [batches EXCEPT ![w] = chosen]
    /\ UNCHANGED <<mailRows, accepted, outcome, lostSends, mailFaults, rollbacks>>

Backoff(attempts) == Min({60, 2 ^ Min({attempts, 6})})

Decided(w, m, row) ==
    /\ outcome' = [outcome EXCEPT ![w] =
          [n \in DOMAIN @ \cup {m} |-> IF n = m THEN row ELSE @[n]]]
    /\ batches' = [batches EXCEPT ![w] = @ \ {m}]

Sent(row) == [row EXCEPT !.state = "delivered"]

NotSent(row) ==
    [row EXCEPT !.attempts = @ + 1, !.wait = Backoff(row.attempts + 1)]

\* The oldest row left in the batch reaches the server or meets a transport error.
SendMail(w) ==
    /\ \E m \in batches[w] \ Unreadable :
          /\ \A n \in batches[w] : m <= n
          /\ \/ /\ accepted' = [accepted EXCEPT ![m] = @ + 1]
                /\ Decided(w, m, Sent(mailRows[m]))
                /\ UNCHANGED mailFaults
             \/ /\ mailFaults < MaxMailFaults
                /\ mailFaults' = mailFaults + 1
                /\ Decided(w, m, NotSent(mailRows[m]))
                /\ UNCHANGED accepted
    /\ UNCHANGED <<mailRows, lostSends, rollbacks>>

CommitMail(w) ==
    /\ batches[w] = {}
    /\ outcome[w] # NoOutcome
    /\ mailRows' = [m \in Mails |->
          IF m \in DOMAIN outcome[w] THEN outcome[w][m] ELSE mailRows[m]]
    /\ outcome' = [outcome EXCEPT ![w] = NoOutcome]
    /\ UNCHANGED <<accepted, batches, lostSends, mailFaults, rollbacks>>

\* The worker stops, or a body cannot be decrypted: the exception leaves the
\* loop before the commit.  The next poll starts again with the same rows.
RollBack(w) ==
    /\ RowsOf(w) # {}
    /\ rollbacks < MaxRollbacks
    /\ rollbacks' = rollbacks + 1
    /\ lostSends' = [m \in Mails |->
          IF m \in DOMAIN outcome[w] /\ outcome[w][m].state = "delivered"
          THEN lostSends[m] + 1 ELSE lostSends[m]]
    /\ batches' = [batches EXCEPT ![w] = {}]
    /\ outcome' = [outcome EXCEPT ![w] = NoOutcome]
    /\ UNCHANGED <<mailRows, accepted, mailFaults>>

\* Erasing the recipient's account deletes its rows; it waits for locked rows.
EraseMail ==
    /\ \E m \in Mails \ Locked :
          /\ mailRows[m].state \in {"pending", "delivered"}
          /\ mailRows' = [mailRows EXCEPT ![m].state = "erased"]
    /\ UNCHANGED <<accepted, batches, outcome, lostSends, mailFaults, rollbacks>>

MailMinute ==
    /\ \E m \in Mails : mailRows[m].wait > 0
    /\ mailRows' = [m \in Mails |-> [mailRows[m] EXCEPT !.wait = Max({0, @ - 1})]]
    /\ outcome' = [w \in Mailers |-> [m \in DOMAIN outcome[w] |->
          [outcome[w][m] EXCEPT !.wait = Max({0, @ - 1})]]]
    /\ UNCHANGED <<accepted, batches, lostSends, mailFaults, rollbacks>>

MailNext ==
    \/ EnqueueMail \/ EraseMail \/ MailMinute
    \/ \E w \in Mailers : PollMail(w) \/ SendMail(w) \/ CommitMail(w) \/ RollBack(w)

MailSpec == MailInit /\ [][MailNext]_mailVars

\* The polling loop runs for ever and every poll ends; time passes.  Nothing is
\* assumed of the requests that write mail.
MailFairness ==
    /\ \A w \in Mailers :
          WF_mailVars(PollMail(w)) /\ WF_mailVars(SendMail(w))
             /\ WF_mailVars(CommitMail(w))
    /\ WF_mailVars(MailMinute)

MailFairSpec == MailSpec /\ MailFairness

-----------------------------------------------------------------------------

\* Every variable has its type.
MailTypeOK ==
    /\ mailRows \in [Mails -> OutboxRows]
    /\ accepted \in [Mails -> Nat]
    /\ batches \in [Mailers -> SUBSET Mails]
    /\ \A w \in Mailers :
          DOMAIN outcome[w] \subseteq Mails
          /\ \A m \in DOMAIN outcome[w] : outcome[w][m] \in OutboxRows
    /\ lostSends \in [Mails -> Nat]
    /\ mailFaults \in 0..MaxMailFaults
    /\ rollbacks \in 0..MaxRollbacks

\* A delivered row was accepted by the mail server: a transport error or a
\* rolled-back batch never loses a link (deliver_pending_mail).
DeliveredWasAccepted ==
    \A m \in Mails : mailRows[m].state = "delivered" => accepted[m] > 0

\* Two workers never send the same mail; the only repeats are of sends whose
\* batch was rolled back (FOR UPDATE SKIP LOCKED, deliver_pending_mail).
RepeatsOnlyAfterRollback ==
    \A m \in Mails : accepted[m] <= lostSends[m] + 1

\* As long as every body can be read, every mail the outbox has accepted is
\* delivered unless its recipient is erased or it is held back: neither back-off
\* nor rows before it starve it.
MailArrives ==
    \A m \in Mails \ (HeldBack \cup Unreadable) :
        mailRows[m].state = "pending" ~> mailRows[m].state \in {"delivered", "erased"}

\* Failures, rollbacks and a second worker neither lose mail nor repeat it beyond
\* what a rollback makes unavoidable (deliver_pending_mail).
MailIsNotLostOrRepeated == DeliveredWasAccepted /\ RepeatsOnlyAfterRollback
=============================================================================
