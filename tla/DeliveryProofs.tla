--------------------------- MODULE DeliveryProofs ---------------------------
(***************************************************************************)
(* Proofs about the ways something leaves the service or the phone: the    *)
(* mail outbox (MailDelivery) and the partner's notifications              *)
(* (PartnerAlerts), for any number of workers, mails, installations,       *)
(* events and faults, private content on its way to a watch                *)
(* (WatchAuthority), for any relationships, generations and clock,         *)
(* countdowns edited offline (CountdownSync), for any number of edits,     *)
(* Smooches (SmoochSending), for any number of sends, queues of any size   *)
(* and any limit, and together time (TogetherTime), for any places, clocks *)
(* and samples.                                                            *)
(***************************************************************************)
EXTENDS MailDelivery, PartnerAlerts, WatchAuthority, CountdownSync,
        SmoochSending, TogetherTime, SequenceTheorems, FiniteSetTheorems,
        WellFoundedInduction, TLAPS

-----------------------------------------------------------------------------
(* Mail.  That a mail is repeated only after a rollback is not inductive:  *)
(* it rests on the row locks (no two workers hold one row, and a held row  *)
(* is still pending), and on the accepted sends of a row no transaction    *)
(* has decided being exactly those that were rolled back.  MailInv adds    *)
(* these.                                                                  *)

\* A row has its three fields.
IsRow(row) == row = [state |-> row.state, attempts |-> row.attempts, wait |-> row.wait]

MailShape ==
    /\ DOMAIN mailRows = Mails /\ \A m \in Mails : IsRow(mailRows[m])
    /\ accepted \in [Mails -> Nat] /\ lostSends \in [Mails -> Nat]
    /\ batches \in [Mailers -> SUBSET Mails]
    /\ DOMAIN outcome = Mailers
    /\ \A w \in Mailers : DOMAIN outcome[w] \subseteq Mails

\* A row in a worker's hands is pending for everyone else, and in no other's.
HeldRowsArePending ==
    \A w \in Mailers, m \in Mails : m \in RowsOf(w) =>
        /\ mailRows[m].state = "pending"
        /\ \A v \in Mailers : m \in RowsOf(v) => v = w

\* A decided row has left the batch and says what happened.
OutcomesAreTrue ==
    \A w \in Mailers : \A m \in DOMAIN outcome[w] :
        /\ m \notin batches[w] /\ IsRow(outcome[w][m])
        /\ \/ outcome[w][m].state = "pending"
           \/ outcome[w][m].state = "delivered" /\ accepted[m] > 0

\* Somebody's open transaction has sent the mail.
Sending(m) ==
    \E w \in Mailers : m \in DOMAIN outcome[w] /\ outcome[w][m].state = "delivered"

\* Until a row is delivered every accepted send of it, but the one an open
\* transaction has made, was rolled back.
SendsAreCounted ==
    \A m \in Mails :
        /\ accepted[m] <= lostSends[m] + 1
        /\ mailRows[m].state \in {"unwritten", "pending"} /\ ~Sending(m)
           => accepted[m] <= lostSends[m]

MailInv ==
    MailShape /\ HeldRowsArePending /\ OutcomesAreTrue /\ SendsAreCounted /\ DeliveredWasAccepted

\* A row with another wait or state stays a row.
LEMMA RowChanges ==
    ASSUME NEW row, IsRow(row), NEW x
    PROVE  /\ IsRow([row EXCEPT !.wait = x]) /\ [row EXCEPT !.wait = x].state = row.state
           /\ IsRow([row EXCEPT !.state = x]) /\ [row EXCEPT !.state = x].state = x
           /\ IsRow([row EXCEPT !.attempts = x]) /\ [row EXCEPT !.attempts = x].state = row.state
  <1>1. DOMAIN row = {"state", "attempts", "wait"}
    BY DEF IsRow
  <1> QED BY <1>1 DEF IsRow

\* The empty outbox satisfies the invariant.
LEMMA MailInitInv == MailInit => MailInv
  BY DEF MailInit, MailInv, MailShape, HeldRowsArePending, OutcomesAreTrue, SendsAreCounted,
         DeliveredWasAccepted, RowsOf, NoOutcome, Unwritten, IsRow, Sending

\* A new row is held by nobody and has been sent by nobody.
LEMMA EnqueueMailInv == MailInv /\ EnqueueMail => MailInv'
  <1> SUFFICES ASSUME MailInv, EnqueueMail PROVE MailInv'
    OBVIOUS
  <1> USE DEF MailInv
  <1>1. PICK m \in Mails : /\ mailRows[m].state = "unwritten"
                           /\ mailRows' = [mailRows EXCEPT ![m].state = "pending"]
    BY DEF EnqueueMail
  <1>2. UNCHANGED <<accepted, batches, outcome, lostSends>>
    BY DEF EnqueueMail
  <1>3. /\ DOMAIN mailRows' = Mails /\ \A n \in Mails : IsRow(mailRows[n])'
        /\ mailRows'[m].state = "pending"
        /\ \A n \in Mails : n # m => mailRows'[n] = mailRows[n]
    BY <1>1 DEF MailShape, IsRow
  <1>4. MailShape'
    BY <1>2, <1>3 DEF MailShape
  <1>5. HeldRowsArePending'
    BY <1>2, <1>3 DEF HeldRowsArePending, RowsOf
  <1>6. OutcomesAreTrue' /\ SendsAreCounted' /\ DeliveredWasAccepted'
    BY <1>1, <1>2, <1>3 DEF OutcomesAreTrue, SendsAreCounted, DeliveredWasAccepted, Sending, IsRow
  <1> QED BY <1>4, <1>5, <1>6

\* Erasure takes rows nobody holds.
LEMMA EraseMailInv == MailInv /\ EraseMail => MailInv'
  <1> SUFFICES ASSUME MailInv, EraseMail PROVE MailInv'
    OBVIOUS
  <1> USE DEF MailInv
  <1>1. PICK m \in Mails \ Locked : mailRows' = [mailRows EXCEPT ![m].state = "erased"]
    BY DEF EraseMail
  <1>2. UNCHANGED <<accepted, batches, outcome, lostSends>>
    BY DEF EraseMail
  <1>3. /\ DOMAIN mailRows' = Mails /\ \A n \in Mails : IsRow(mailRows[n])'
        /\ mailRows'[m].state = "erased"
        /\ \A n \in Mails : n # m => mailRows'[n] = mailRows[n]
    BY <1>1 DEF MailShape, IsRow
  <1>4. MailShape'
    BY <1>2, <1>3 DEF MailShape
  <1>5. \A w \in Mailers : m \notin RowsOf(w)
    BY <1>1 DEF Locked
  <1>6. HeldRowsArePending'
    BY <1>2, <1>3, <1>5 DEF HeldRowsArePending, RowsOf
  <1>7. OutcomesAreTrue' /\ SendsAreCounted' /\ DeliveredWasAccepted'
    BY <1>1, <1>2, <1>3 DEF OutcomesAreTrue, SendsAreCounted, DeliveredWasAccepted, Sending, IsRow
  <1> QED BY <1>4, <1>6, <1>7

\* Time moves no row to another state.
LEMMA MailMinuteInv == MailInv /\ MailMinute => MailInv'
  <1> SUFFICES ASSUME MailInv, MailMinute PROVE MailInv'
    OBVIOUS
  <1> USE DEF MailInv
  <1>1. UNCHANGED <<accepted, batches, lostSends>>
    BY DEF MailMinute
  <1>2. /\ DOMAIN mailRows' = Mails
        /\ \A m \in Mails : IsRow(mailRows[m])' /\ mailRows'[m].state = mailRows[m].state
    <2>1. mailRows' = [m \in Mails |-> [mailRows[m] EXCEPT !.wait = Max({0, @ - 1})]]
      BY DEF MailMinute
    <2> QED BY <2>1, RowChanges, Zenon DEF MailShape
  <1>3. /\ DOMAIN outcome' = Mailers
        /\ \A w \in Mailers : DOMAIN outcome'[w] = DOMAIN outcome[w]
        /\ \A w \in Mailers : \A m \in DOMAIN outcome[w] :
              IsRow(outcome[w][m])' /\ outcome'[w][m].state = outcome[w][m].state
    <2>1. outcome' = [w \in Mailers |-> [m \in DOMAIN outcome[w] |->
                          [outcome[w][m] EXCEPT !.wait = Max({0, @ - 1})]]]
      BY DEF MailMinute
    <2> QED BY <2>1, RowChanges, Zenon DEF OutcomesAreTrue
  <1>4. MailShape'
    BY <1>1, <1>2, <1>3 DEF MailShape
  <1>5. HeldRowsArePending' /\ OutcomesAreTrue'
    BY <1>1, <1>2, <1>3 DEF HeldRowsArePending, RowsOf, OutcomesAreTrue
  <1>6. SendsAreCounted' /\ DeliveredWasAccepted'
    BY <1>1, <1>2, <1>3 DEF SendsAreCounted, DeliveredWasAccepted, Sending
  <1> QED BY <1>4, <1>5, <1>6

\* A poll locks pending rows that nobody holds.
LEMMA PollMailInv == ASSUME MailInv, NEW w \in Mailers, PollMail(w) PROVE MailInv'
  <1> USE DEF MailInv
  <1>1. PICK taken \in SUBSET Selectable : batches' = [batches EXCEPT ![w] = taken]
    BY DEF PollMail
  <1>2. UNCHANGED <<mailRows, accepted, outcome, lostSends>> /\ DOMAIN outcome[w] = {}
    BY DEF PollMail, NoOutcome
  <1>3. \A m \in taken : m \in Mails /\ mailRows[m].state = "pending"
                          /\ \A v \in Mailers : m \notin RowsOf(v)
    BY DEF Selectable, Due, Locked
  <1>4. MailShape'
    BY <1>1, <1>2, <1>3 DEF MailShape
  <1>5. /\ batches'[w] = taken /\ \A v \in Mailers : v # w => batches'[v] = batches[v]
    BY <1>1 DEF MailShape
  <1>6. /\ \A v \in Mailers : v # w => RowsOf(v)' = RowsOf(v)
        /\ RowsOf(w)' = taken
    BY <1>2, <1>5 DEF RowsOf
  <1>7. HeldRowsArePending'
    BY <1>2, <1>3, <1>6 DEF HeldRowsArePending
  <1>8. OutcomesAreTrue' /\ SendsAreCounted' /\ DeliveredWasAccepted'
    BY <1>2, <1>5 DEF OutcomesAreTrue, SendsAreCounted, DeliveredWasAccepted, Sending, IsRow
  <1> QED BY <1>4, <1>7, <1>8

\* What deciding one row of a batch does to the batch and the transaction.
LEMMA DecidedRow ==
    ASSUME MailInv, NEW w \in Mailers, NEW m \in batches[w], NEW row, Decided(w, m, row)
    PROVE  /\ batches' \in [Mailers -> SUBSET Mails] /\ DOMAIN outcome' = Mailers
           /\ batches'[w] = batches[w] \ {m}
           /\ DOMAIN outcome'[w] = DOMAIN outcome[w] \cup {m}
           /\ outcome'[w][m] = row
           /\ \A n \in DOMAIN outcome[w] : n # m /\ outcome'[w][n] = outcome[w][n]
           /\ \A v \in Mailers : v # w => batches'[v] = batches[v] /\ outcome'[v] = outcome[v]
           /\ \A v \in Mailers : RowsOf(v)' = RowsOf(v)
  <1> USE DEF MailInv
  <1>1. \A n \in DOMAIN outcome[w] : n # m
    BY DEF OutcomesAreTrue
  <1>2. /\ batches' \in [Mailers -> SUBSET Mails]
        /\ batches'[w] = batches[w] \ {m}
        /\ \A v \in Mailers : v # w => batches'[v] = batches[v]
    BY DEF Decided, MailShape
  <1>3. /\ DOMAIN outcome' = Mailers
        /\ outcome'[w] = [n \in DOMAIN outcome[w] \cup {m} |-> IF n = m THEN row ELSE outcome[w][n]]
        /\ \A v \in Mailers : v # w => outcome'[v] = outcome[v]
    BY DEF Decided, MailShape
  <1>4. /\ DOMAIN outcome'[w] = DOMAIN outcome[w] \cup {m}
        /\ outcome'[w][m] = row
        /\ \A n \in DOMAIN outcome[w] : outcome'[w][n] = outcome[w][n]
    BY <1>1, <1>3
  <1>5. \A v \in Mailers : RowsOf(v)' = RowsOf(v)
    BY <1>2, <1>3, <1>4 DEF RowsOf
  <1> QED BY <1>1, <1>2, <1>3, <1>4, <1>5

\* The worker's row is pending and nobody else has sent it: the send is the first
\* one since the last rollback.
LEMMA SendMailInv ==
    ASSUME MailInv, NEW w \in Mailers, SendMail(w) PROVE MailInv'
  <1> USE DEF MailInv
  <1>1. PICK m \in batches[w] :
            \/ /\ accepted' = [accepted EXCEPT ![m] = @ + 1]
               /\ Decided(w, m, Sent(mailRows[m]))
            \/ accepted' = accepted /\ Decided(w, m, NotSent(mailRows[m]))
    BY DEF SendMail
  <1>2. UNCHANGED <<mailRows, lostSends>>
    BY DEF SendMail
  <1>3. /\ m \in Mails /\ m \in RowsOf(w) /\ mailRows[m].state = "pending"
        /\ IsRow(mailRows[m]) /\ m \notin DOMAIN outcome[w]
        /\ \A v \in Mailers : v # w => m \notin RowsOf(v)
    BY DEF MailShape, RowsOf, HeldRowsArePending, OutcomesAreTrue
  <1>4. ~Sending(m)
    BY <1>3 DEF Sending, RowsOf
  <1>5. PICK row : /\ Decided(w, m, row) /\ IsRow(row)
                   /\ \/ row.state = "pending" /\ accepted' = accepted
                      \/ row.state = "delivered" /\ accepted' = [accepted EXCEPT ![m] = @ + 1]
    <2>1. IsRow(Sent(mailRows[m])) /\ Sent(mailRows[m]).state = "delivered"
      BY <1>3, RowChanges DEF Sent
    <2>2. IsRow(NotSent(mailRows[m])) /\ NotSent(mailRows[m]).state = "pending"
      <3> DEFINE half == [mailRows[m] EXCEPT !.attempts = @ + 1]
                 x == Backoff(mailRows[m].attempts + 1)
      <3>1. NotSent(mailRows[m]) = [half EXCEPT !.wait = x]
        BY DEF NotSent
      <3>2. IsRow(half) /\ half.state = "pending"
        BY <1>3, RowChanges, Zenon
      <3> HIDE DEF half, x
      <3>3. IsRow([half EXCEPT !.wait = x]) /\ [half EXCEPT !.wait = x].state = "pending"
        BY <3>2, RowChanges
      <3> QED BY <3>1, <3>3
    <2> QED BY <1>1, <2>1, <2>2
  <1>6. /\ batches' \in [Mailers -> SUBSET Mails] /\ DOMAIN outcome' = Mailers
        /\ batches'[w] = batches[w] \ {m}
        /\ DOMAIN outcome'[w] = DOMAIN outcome[w] \cup {m}
        /\ outcome'[w][m] = row
        /\ \A n \in DOMAIN outcome[w] : n # m /\ outcome'[w][n] = outcome[w][n]
        /\ \A v \in Mailers : v # w => batches'[v] = batches[v] /\ outcome'[v] = outcome[v]
        /\ \A v \in Mailers : RowsOf(v)' = RowsOf(v)
    BY <1>5, DecidedRow
  <1>7. accepted' \in [Mails -> Nat]
        /\ \A n \in Mails : accepted[n] <= accepted'[n] /\ (n # m => accepted'[n] = accepted[n])
    BY <1>3, <1>5 DEF MailShape
  <1>8. MailShape'
    BY <1>2, <1>3, <1>6, <1>7 DEF MailShape
  <1>9. HeldRowsArePending'
    BY <1>2, <1>6 DEF HeldRowsArePending
  <1>10. OutcomesAreTrue'
    <2>1. row.state = "delivered" => accepted'[m] > 0
      BY <1>3, <1>5 DEF MailShape
    <2>2. \A n \in DOMAIN outcome'[w] :
              /\ n \notin batches'[w] /\ IsRow(outcome'[w][n])
              /\ \/ outcome'[w][n].state = "pending"
                 \/ outcome'[w][n].state = "delivered" /\ accepted'[n] > 0
      <3> SUFFICES ASSUME NEW n \in DOMAIN outcome'[w]
                   PROVE  /\ n \notin batches'[w] /\ IsRow(outcome'[w][n])
                          /\ \/ outcome'[w][n].state = "pending"
                             \/ outcome'[w][n].state = "delivered" /\ accepted'[n] > 0
        OBVIOUS
      <3>1. CASE n = m
        BY <1>5, <1>6, <2>1, <3>1
      <3>2. CASE n # m
        <4>1. n \in DOMAIN outcome[w] /\ n \in Mails /\ outcome'[w][n] = outcome[w][n]
          BY <1>6, <3>2 DEF MailShape
        <4> QED BY <1>6, <1>7, <3>2, <4>1 DEF OutcomesAreTrue
      <3> QED BY <3>1, <3>2
    <2>3. \A v \in Mailers : v # w => \A n \in DOMAIN outcome[v] : n \in Mails /\ n # m
      BY <1>3 DEF MailShape, RowsOf
    <2>4. \A v \in Mailers : v # w => \A n \in DOMAIN outcome'[v] :
              /\ n \notin batches'[v] /\ IsRow(outcome'[v][n])
              /\ \/ outcome'[v][n].state = "pending"
                 \/ outcome'[v][n].state = "delivered" /\ accepted'[n] > 0
      BY <1>6, <1>7, <2>3 DEF OutcomesAreTrue
    <2>5. \A v \in Mailers : \A n \in DOMAIN outcome'[v] :
              /\ n \notin batches'[v] /\ IsRow(outcome'[v][n])
              /\ \/ outcome'[v][n].state = "pending"
                 \/ outcome'[v][n].state = "delivered" /\ accepted'[n] > 0
      BY <2>2, <2>4
    <2> QED BY <2>5 DEF OutcomesAreTrue, IsRow
  <1>11. SendsAreCounted'
    <2>1. \A n \in Mails : n # m => (Sending(n)' <=> Sending(n))
      BY <1>6 DEF Sending
    <2>2. /\ accepted'[m] <= lostSends[m] + 1
          /\ row.state = "pending" => accepted'[m] <= lostSends[m]
      BY <1>3, <1>4, <1>5 DEF SendsAreCounted, MailShape
    <2>3. row.state = "delivered" => Sending(m)'
      BY <1>6 DEF Sending
    <2> QED BY <1>2, <1>5, <1>7, <2>1, <2>2, <2>3 DEF SendsAreCounted
  <1>12. DeliveredWasAccepted'
    BY <1>2, <1>3, <1>7 DEF DeliveredWasAccepted, MailShape
  <1> QED BY <1>8, <1>9, <1>10, <1>11, <1>12

\* The commit writes the outcomes of rows that were pending and the worker's alone.
LEMMA CommitMailInv ==
    ASSUME MailInv, NEW w \in Mailers, CommitMail(w) PROVE MailInv'
  <1> USE DEF MailInv
  <1>1. /\ batches[w] = {} /\ UNCHANGED <<accepted, batches, lostSends>>
        /\ mailRows' = [m \in Mails |->
               IF m \in DOMAIN outcome[w] THEN outcome[w][m] ELSE mailRows[m]]
        /\ outcome' = [outcome EXCEPT ![w] = NoOutcome]
    BY DEF CommitMail
  <1>2. /\ DOMAIN outcome' = Mailers /\ DOMAIN outcome'[w] = {}
        /\ \A v \in Mailers : v # w => outcome'[v] = outcome[v]
    BY <1>1 DEF MailShape, NoOutcome
  <1>3. /\ DOMAIN mailRows' = Mails
        /\ \A m \in DOMAIN outcome[w] : mailRows'[m] = outcome[w][m]
        /\ \A m \in Mails \ DOMAIN outcome[w] : mailRows'[m] = mailRows[m]
    BY <1>1 DEF MailShape
  <1>4. MailShape'
    <2>1. \A m \in Mails : IsRow(mailRows'[m])
      BY <1>3 DEF MailShape, OutcomesAreTrue
    <2> QED BY <1>1, <1>2, <1>3, <2>1 DEF MailShape, IsRow
  <1>5. RowsOf(w)' = {} /\ \A v \in Mailers : v # w => RowsOf(v)' = RowsOf(v)
    BY <1>1, <1>2 DEF RowsOf
  <1>6. \A v \in Mailers : v # w => RowsOf(v) \cap DOMAIN outcome[w] = {}
    BY DEF HeldRowsArePending, RowsOf, MailShape
  <1>7. HeldRowsArePending'
    BY <1>3, <1>5, <1>6 DEF HeldRowsArePending
  <1>8. OutcomesAreTrue'
    BY <1>1, <1>2 DEF OutcomesAreTrue, IsRow
  <1>9. SendsAreCounted'
    <2>1. \A m \in Mails : m \notin DOMAIN outcome[w] => (Sending(m)' <=> Sending(m))
      BY <1>2 DEF Sending
    <2>2. \A m \in DOMAIN outcome[w] : mailRows[m].state = "pending"
              /\ (outcome[w][m].state = "pending" => ~Sending(m))
      BY <1>6 DEF Sending, HeldRowsArePending, RowsOf, MailShape
    <2>3. \A m \in DOMAIN outcome[w] :
              mailRows'[m].state \in {"unwritten", "pending"} => accepted[m] <= lostSends[m]
      BY <1>3, <2>2 DEF SendsAreCounted, OutcomesAreTrue, MailShape
    <2> QED BY <1>1, <1>3, <2>1, <2>3 DEF SendsAreCounted
  <1>10. DeliveredWasAccepted'
    BY <1>1, <1>3 DEF DeliveredWasAccepted, OutcomesAreTrue
  <1> QED BY <1>4, <1>7, <1>8, <1>9, <1>10

\* A rollback forgets the sends it counts as lost.
LEMMA RollBackInv ==
    ASSUME MailInv, NEW w \in Mailers, RollBack(w) PROVE MailInv'
  <1> USE DEF MailInv
  <1>1. /\ UNCHANGED <<mailRows, accepted>>
        /\ lostSends' = [m \in Mails |->
              IF m \in DOMAIN outcome[w] /\ outcome[w][m].state = "delivered"
              THEN lostSends[m] + 1 ELSE lostSends[m]]
        /\ batches' = [batches EXCEPT ![w] = {}]
        /\ outcome' = [outcome EXCEPT ![w] = NoOutcome]
    BY DEF RollBack
  <1>2. /\ DOMAIN outcome' = Mailers /\ DOMAIN outcome'[w] = {} /\ batches'[w] = {}
        /\ batches' \in [Mailers -> SUBSET Mails]
        /\ \A v \in Mailers : v # w => outcome'[v] = outcome[v] /\ batches'[v] = batches[v]
    BY <1>1 DEF MailShape, NoOutcome
  <1>3. /\ lostSends' \in [Mails -> Nat]
        /\ \A m \in Mails : lostSends[m] <= lostSends'[m]
        /\ \A m \in Mails : m \in DOMAIN outcome[w] /\ outcome[w][m].state = "delivered"
                            => lostSends'[m] = lostSends[m] + 1
    BY <1>1 DEF MailShape
  <1>4. MailShape'
    BY <1>1, <1>2, <1>3 DEF MailShape, IsRow
  <1>5. RowsOf(w)' = {} /\ \A v \in Mailers : v # w => RowsOf(v)' = RowsOf(v)
    BY <1>2 DEF RowsOf
  <1>6. HeldRowsArePending'
    BY <1>1, <1>5 DEF HeldRowsArePending
  <1>7. OutcomesAreTrue' /\ DeliveredWasAccepted'
    BY <1>1, <1>2 DEF OutcomesAreTrue, DeliveredWasAccepted, IsRow
  <1>8. SendsAreCounted'
    <2> SUFFICES ASSUME NEW m \in Mails
                 PROVE  /\ accepted'[m] <= lostSends'[m] + 1
                        /\ mailRows'[m].state \in {"unwritten", "pending"} /\ ~Sending(m)'
                           => accepted'[m] <= lostSends'[m]
      BY DEF SendsAreCounted
    <2>1. /\ accepted[m] \in Nat /\ lostSends[m] \in Nat /\ lostSends'[m] \in Nat
          /\ accepted[m] <= lostSends[m] + 1 /\ lostSends[m] <= lostSends'[m]
      BY <1>3 DEF SendsAreCounted, MailShape
    <2>2. CASE m \in DOMAIN outcome[w] /\ outcome[w][m].state = "delivered"
      BY <1>1, <1>3, <2>1, <2>2
    <2>3. CASE ~(m \in DOMAIN outcome[w] /\ outcome[w][m].state = "delivered")
      <3>1. Sending(m) => Sending(m)'
        BY <1>2, <2>3 DEF Sending
      <3> QED BY <1>1, <2>1, <3>1 DEF SendsAreCounted
    <2> QED BY <2>2, <2>3
  <1> QED BY <1>4, <1>6, <1>7, <1>8

\* Every step of every worker keeps the invariant.
LEMMA MailNextInv == MailInv /\ [MailNext]_mailVars => MailInv'
  <1> SUFFICES ASSUME MailInv, [MailNext]_mailVars PROVE MailInv'
    OBVIOUS
  <1>1. CASE UNCHANGED mailVars
    BY <1>1 DEF mailVars, MailInv, MailShape, HeldRowsArePending, OutcomesAreTrue,
        SendsAreCounted, DeliveredWasAccepted, RowsOf, Sending, IsRow
  <1>2. CASE MailNext
    BY <1>2, EnqueueMailInv, EraseMailInv, MailMinuteInv, PollMailInv, SendMailInv,
       CommitMailInv, RollBackInv DEF MailNext
  <1> QED BY <1>1, <1>2

\* However many workers poll, crash and meet errors, a delivered mail was accepted
\* by the server, and the server accepts a mail again only after a rolled-back send
\* (deliver_pending_mail).
THEOREM MailNotLostOrRepeated == MailSpec => []MailIsNotLostOrRepeated
  <1>1. MailInv => MailIsNotLostOrRepeated
    BY DEF MailInv, MailIsNotLostOrRepeated, RepeatsOnlyAfterRollback, SendsAreCounted
  <1> QED BY <1>1, MailInitInv, MailNextInv, PTL DEF MailSpec

-----------------------------------------------------------------------------
(* Notifications.  AlertsAreHonest is not inductive: that no event of a    *)
(* refused kind appears rests on the lock of the preferences row, held     *)
(* from reading the choices to writing the event, and that an acknowledged *)
(* alert was shown on what a worker remembers of it.  AlertsInv adds both. *)

\* Whoever reads or replaces the choices holds their row, and a creation holds a
\* kind that is still chosen.
ChoicesAreLocked ==
    /\ creating # NoCreation => prefOwner = "creating" /\ creating.kind \in chosen
    /\ choosing # NoChange => prefOwner = "choosing"

\* A worker will acknowledge only what it has posted on its installation.
DoneWasPosted ==
    /\ DOMAIN works = AlertWorks
    /\ \A w \in AlertWorks : works[w].stage = "fetched" =>
          /\ works[w] = [stage |-> "fetched", kinds |-> works[w].kinds,
                         batch |-> works[w].batch, done |-> works[w].done]
          /\ works[w].done \X {w[1]} \subseteq posted

AlertsInv == ChoicesAreLocked /\ DoneWasPosted /\ DisabledKindsStayQuiet /\ AcknowledgedWasShown

\* Before anything has happened the invariant holds.
LEMMA AlertsInitInv == AlertsInit => AlertsInv
  BY DEF AlertsInit, AlertsInv, ChoicesAreLocked, DoneWasPosted, DisabledKindsStayQuiet,
         AcknowledgedWasShown, NoCreation, NoChange, NoWork

\* A step that leaves the works and the deliveries alone keeps what rests on them.
LEMMA WorksAlone ==
    ASSUME AlertsInv, UNCHANGED <<works, posted>>, displayed' \subseteq displayed
    PROVE  DoneWasPosted' /\ AcknowledgedWasShown'
  BY DEF AlertsInv, DoneWasPosted, AcknowledgedWasShown

\* A step that leaves the choices and the events alone keeps what rests on them.
LEMMA ChoicesAlone ==
    ASSUME AlertsInv, UNCHANGED <<chosen, choosing, creating, prefOwner>>, events' \subseteq events
    PROVE  ChoicesAreLocked' /\ DisabledKindsStayQuiet'
  BY DEF AlertsInv, ChoicesAreLocked, DisabledKindsStayQuiet

\* The transactions on the choices: each holds their row from reading to writing.
LEMMA ChoiceSteps ==
    ASSUME AlertsInv,
           CommitEvent \/ BeginChoice \/ CommitChoice \/ \E k \in AlertKinds : BeginEvent(k)
    PROVE  AlertsInv'
  <1> USE DEF AlertsInv
  <1>1. ASSUME NEW k \in AlertKinds, BeginEvent(k) PROVE AlertsInv'
    <2>1. UNCHANGED <<works, posted, displayed, events, chosen, choosing>>
          /\ prefOwner = "none" /\ prefOwner' = "creating" /\ creating' = [kind |-> k]
          /\ k \in chosen
      BY <1>1 DEF BeginEvent, PrefsFree, alertTables
    <2> QED BY <2>1, WorksAlone DEF ChoicesAreLocked, DisabledKindsStayQuiet
  <1>2. CASE CommitEvent
    <2>1. /\ UNCHANGED <<works, posted, displayed, chosen, choosing>>
          /\ creating # NoCreation /\ creating' = NoCreation
          /\ events' = events \cup {NewEvent(creating.kind)}
          /\ prefOwner' = IF prefOwner = "creating" THEN "none" ELSE prefOwner
      BY <1>2 DEF CommitEvent
    <2>2. NewEvent(creating.kind).kind \in chosen
      BY <2>1 DEF ChoicesAreLocked, NewEvent
    <2> QED BY <2>1, <2>2, WorksAlone DEF ChoicesAreLocked, DisabledKindsStayQuiet
  <1>3. CASE BeginChoice
    <2>1. /\ UNCHANGED <<works, posted, displayed, events, chosen, creating>>
          /\ prefOwner = "none" /\ prefOwner' = "choosing"
      BY <1>3 DEF BeginChoice, PrefsFree, alertTables
    <2> QED BY <2>1, WorksAlone DEF ChoicesAreLocked, DisabledKindsStayQuiet
  <1>4. CASE CommitChoice
    <2>1. /\ UNCHANGED <<works, posted, creating>> /\ choosing # NoChange
          /\ chosen' = choosing.kinds /\ choosing' = NoChange
          /\ events' = events \ {e \in events : e.kind \notin choosing.kinds}
          /\ displayed' \subseteq displayed
      BY <1>4 DEF CommitChoice, RowsWithout
    <2>2. creating = NoCreation
      BY <2>1 DEF ChoicesAreLocked
    <2> QED BY <2>1, <2>2, WorksAlone DEF ChoicesAreLocked, DisabledKindsStayQuiet
  <1> QED BY <1>1, <1>2, <1>3, <1>4

\* A work that registers, reads the choices, or fails remembers nothing to acknowledge.
LEMMA WorkForgets ==
    ASSUME AlertsInv, NEW w \in AlertWorks, NEW new, SetWork(w, new), new.stage # "fetched",
           UNCHANGED <<posted, displayed>>
    PROVE  DoneWasPosted' /\ AcknowledgedWasShown'
  BY DEF AlertsInv, SetWork, DoneWasPosted, AcknowledgedWasShown

\* Fetching may add today's quiz alert, which needs the free row of the choices.
LEMMA FetchPendingInv ==
    ASSUME AlertsInv, NEW w \in AlertWorks, FetchPending(w) PROVE AlertsInv'
  <1> USE DEF AlertsInv
  <1>1. UNCHANGED <<chosen, choosing, creating, prefOwner, displayed, posted>>
    BY DEF FetchPending
  <1>2. \/ events' = events
        \/ QuizAlert /\ events' = events \cup {NewEvent("quiz")}
    BY DEF FetchPending
  <1>3. ChoicesAreLocked' /\ DisabledKindsStayQuiet'
    BY <1>1, <1>2 DEF ChoicesAreLocked, DisabledKindsStayQuiet, QuizAlert, NewEvent
  <1>4. PICK new : /\ SetWork(w, new)
                   /\ \/ new = NoWork
                      \/ \E kinds, fetched : new = [stage |-> "fetched", kinds |-> kinds,
                                                  batch |-> fetched, done |-> {}]
    BY DEF FetchPending
  <1>5. DoneWasPosted' /\ AcknowledgedWasShown'
    BY <1>1, <1>4 DEF SetWork, DoneWasPosted, AcknowledgedWasShown, NoWork
  <1> QED BY <1>3, <1>5

\* What a work notes as done is posted in the same step.
LEMMA PostAlertInv ==
    ASSUME AlertsInv, NEW w \in AlertWorks, PostAlert(w) PROVE AlertsInv'
  <1> USE DEF AlertsInv
  <1>1. /\ UNCHANGED <<chosen, choosing, creating, prefOwner, events, displayed>>
        /\ works[w].stage = "fetched"
    BY DEF PostAlert, alertTables, WorkAt
  <1>2. PICK e \in works[w].batch, shown \in BOOLEAN :
            /\ works' = [works EXCEPT ![w] = [works[w] EXCEPT !.batch = @ \ {e},
                                                  !.done = DoneAfter(w, e, shown)]]
            /\ posted' = IF shown THEN posted \cup {<<e.id, w[1]>>} ELSE posted
    BY DEF PostAlert, SetWork
  <1> DEFINE new == [works[w] EXCEPT !.batch = @ \ {e}, !.done = DoneAfter(w, e, shown)]
  <1>3. new = [stage |-> "fetched", kinds |-> works[w].kinds, batch |-> works[w].batch \ {e},
               done |-> DoneAfter(w, e, shown)]
    <2> DEFINE old == works[w]
               less == old.batch \ {e}
               more == DoneAfter(w, e, shown)
    <2>1. old = [stage |-> "fetched", kinds |-> old.kinds, batch |-> old.batch, done |-> old.done]
      BY <1>1 DEF DoneWasPosted
    <2>2. new = [[old EXCEPT !.batch = less] EXCEPT !.done = more]
      OBVIOUS
    <2> HIDE DEF old, less, more, new
    <2>3. [old EXCEPT !.batch = less] =
              [stage |-> "fetched", kinds |-> old.kinds, batch |-> less, done |-> old.done]
      BY <2>1
    <2>4. new = [stage |-> "fetched", kinds |-> old.kinds, batch |-> less, done |-> more]
      BY <2>2, <2>3
    <2> QED BY <2>4 DEF old, less, more
  <1>4. DoneAfter(w, e, shown) \X {w[1]} \subseteq posted'
    BY <1>1, <1>2 DEF DoneWasPosted, DoneAfter
  <1>5. posted \subseteq posted'
    BY <1>2
  <1>6. works' = [works EXCEPT ![w] = new]
    BY <1>2
  <1> HIDE DEF new
  <1>7. DoneWasPosted'
    BY <1>3, <1>4, <1>5, <1>6 DEF DoneWasPosted
  <1> QED BY <1>1, <1>5, <1>7, ChoicesAlone DEF AcknowledgedWasShown

\* The acknowledged deliveries are among those the work has posted.
LEMMA AckAlertsInv ==
    ASSUME AlertsInv, NEW w \in AlertWorks, AckAlerts(w) PROVE AlertsInv'
  <1> USE DEF AlertsInv
  <1>1. /\ UNCHANGED <<chosen, choosing, creating, prefOwner, events, posted>>
        /\ works[w].stage = "fetched" /\ SetWork(w, NoWork)
        /\ \/ displayed' = displayed
           \/ displayed' = displayed \cup (waiting \cap (works[w].done \X {w[1]}))
    BY DEF AckAlerts, WorkAt
  <1>2. AcknowledgedWasShown'
    BY <1>1 DEF DoneWasPosted, AcknowledgedWasShown
  <1>3. DoneWasPosted'
    BY <1>1 DEF SetWork, DoneWasPosted, NoWork
  <1> QED BY <1>1, <1>2, <1>3, ChoicesAlone

\* Every step of every transaction, worker and user keeps the invariant.
LEMMA AlertsNextInv == AlertsInv /\ [AlertsNext]_alertVars => AlertsInv'
  <1> SUFFICES ASSUME AlertsInv, [AlertsNext]_alertVars PROVE AlertsInv'
    OBVIOUS
  <1>1. CASE UNCHANGED alertVars
    BY <1>1, WorksAlone, ChoicesAlone DEF alertVars, AlertsInv
  <1>2. CASE CommitEvent \/ BeginChoice \/ CommitChoice \/ \E k \in AlertKinds : BeginEvent(k)
    BY <1>2, ChoiceSteps
  <1>3. CASE AlertTick \/ (\E d \in Devices : TogglePermission(d) \/ DisableDevice(d))
             \/ \E e \in events : DropEvent(e)
    <2>1. /\ UNCHANGED <<works, posted, chosen, choosing, creating, prefOwner>>
          /\ displayed' \subseteq displayed /\ events' \subseteq events
      BY <1>3 DEF AlertTick, TogglePermission, DisableDevice, DropEvent, RowsWithout, alertTables
    <2> QED BY <2>1, WorksAlone, ChoicesAlone DEF AlertsInv
  <1>4. ASSUME NEW w \in AlertWorks, RegisterDevice(w) \/ ReadChoices(w) \/ FailWork(w)
        PROVE  AlertsInv'
    <2>1. /\ UNCHANGED <<posted, displayed, events, chosen, choosing, creating, prefOwner>>
          /\ \E new : SetWork(w, new) /\ new.stage # "fetched"
      BY <1>4 DEF RegisterDevice, ReadChoices, FailWork, NoWork, alertTables
    <2> QED BY <2>1, WorkForgets, ChoicesAlone DEF AlertsInv
  <1>5. ASSUME NEW w \in AlertWorks, FetchPending(w) \/ PostAlert(w) \/ AckAlerts(w)
        PROVE  AlertsInv'
    BY <1>5, FetchPendingInv, PostAlertInv, AckAlertsInv
  <1> QED BY <1>1, <1>2, <1>3, <1>4, <1>5 DEF AlertsNext, WorkStep

\* In every interleaving of events, changed choices, installations and their works,
\* no event of a switched-off kind exists, and whatever is marked as displayed was
\* shown (notification_service.py, PartnerNotificationWorker).
THEOREM AlertsHonest == AlertsSpec => []AlertsAreHonest
  <1>1. AlertsInv => AlertsAreHonest
    BY DEF AlertsInv, AlertsAreHonest
  <1> QED BY <1>1, AlertsInitInv, AlertsNextInv, PTL DEF AlertsSpec

-----------------------------------------------------------------------------
(* The watch.  The guard vouches for one relationship and generation; it is *)
(* never ahead of the phone nor behind a purge it was told of, and what is   *)
(* on its way is true of the phone or superseded by a purge.               *)

\* The highest generation whose purge the watch has applied or will receive.
LastPurge == IF "purge" \in fresh THEN items["purge"].gen ELSE purged

\* What names, items and identities are.
Names == Couples \cup {NoOne}
Watches == {NoOne, Local, OtherWatch}
Items == [rel : Names, gen : Nat, active : BOOLEAN, node : Watches, wgen : Nat, at : Nat]
Owners == [rel : Names, gen : Nat, wgen : Nat]
Identities == [rel : Names, gen : Nat, active : BOOLEAN]

\* The types.
WatchTyped ==
    /\ clock \in Nat \ {0} /\ purged \in Nat
    /\ identity \in Identities /\ (identity.active => identity.rel \in Couples)
    /\ managed \in [node : Watches, gen : Nat]
    /\ sync \in {NoSync} \cup [stage : {"asked", "checked"}, seen : Identities, found : Names]
    /\ items \in [Paths -> Items] /\ fresh \subseteq Paths
    /\ guard \in [rel : Names, gen : Nat, status : GuardStatuses, auth : Nat]
    /\ aim \in [node : Watches, gen : Nat, controlled : BOOLEAN]
    /\ content \in [Kinds -> SUBSET Owners]
    /\ fetches \subseteq [owner : Owners, checked : BOOLEAN]

\* The server's answer names a relationship once it has been looked at.
AnswersAreChecked == sync.stage = "checked" => sync.found \in Couples

\* What is on its way says what the phone said: a purge is no newer than the last one, ...
PurgesAreKnown ==
    /\ \A p \in fresh : IsPurge(p, items[p]) => items[p].gen <= LastPurge
    /\ purged <= LastPurge
    /\ LastPurge <= identity.gen
    /\ identity.active <=> LastPurge < identity.gen

\* ... and other items name a relationship and, if no purge follows, the managed watch.
ItemsAreTrue ==
    \A p \in fresh \ {"v1"} : ~IsPurge(p, items[p]) =>
        /\ items[p].rel \in Couples
        /\ items[p].gen \in 1..identity.gen
        /\ items[p].gen > LastPurge => items[p].node = managed.node

\* The watch's guard is not ahead of the phone nor behind a purge.
GuardFollows ==
    /\ guard.gen \in purged..identity.gen
    /\ purged > 0 /\ guard.gen = purged => guard.status = "PURGED"
    /\ Readable(guard) /\ guard.gen > 0 => guard.rel \in Couples
    /\ guard.gen > LastPurge => managed.node = Local

\* The inductive invariant.
WatchInv ==
    /\ WatchTyped /\ AnswersAreChecked /\ PurgesAreKnown /\ ItemsAreTrue /\ GuardFollows
    /\ WatchShowsOneRelationship

\* The names and sets of the model.
LEMMA WatchNames ==
    /\ Local \in Watches /\ OtherWatch \in Watches /\ NoOne \in Watches /\ NoOne \in Names
    /\ Local # NoOne /\ OtherWatch # NoOne /\ Local # OtherWatch /\ NoOne \notin Couples /\ Couples \subseteq Names
    /\ {"display", "profile", "purge", "mpurge", "v1"} = Paths
    /\ {"display", "names", "photo", "queue"} = Kinds
    /\ NoItem \in Items /\ Expiry \in Nat
BY WatchAssumption DEF Watches, Names, Paths, Kinds, NoItem, Items

\* It holds at first, with or without content of an earlier app.
LEMMA WatchInitInv == WatchInit => WatchInv
<1> SUFFICES ASSUME WatchInit PROVE WatchInv
  OBVIOUS
<1> USE WatchNames
<1>0. Cleared \in [Kinds -> SUBSET Owners] /\ [rel |-> NoOne, gen |-> 0, wgen |-> 0] \in Owners
  BY DEF Cleared, Owners
<1>1. content \in [Kinds -> SUBSET Owners]
  <2>1. CASE guard.status = "NONE"
    BY <1>0, <2>1 DEF WatchInit
  <2>2. CASE guard.status # "NONE"
    BY <1>0, <2>2 DEF WatchInit
  <2> QED BY <2>1, <2>2
<1>2. WatchTyped
  BY <1>1 DEF WatchInit, WatchTyped, Identities, NoSync, GuardStatuses
<1>3. LastPurge = 0
  BY DEF WatchInit, LastPurge
<1>4. AnswersAreChecked /\ PurgesAreKnown /\ ItemsAreTrue /\ GuardFollows
  BY <1>3 DEF WatchInit, AnswersAreChecked, NoSync, PurgesAreKnown, ItemsAreTrue, GuardFollows, Readable
<1>5. WatchShowsOneRelationship
  <2>1. CASE guard.status = "NONE"
    BY <2>1 DEF WatchInit, WatchShowsOneRelationship, Cleared
  <2>2. CASE guard.status # "NONE"
    <3>1. guard.status = "LEGACY" /\ guard.rel = NoOne /\ guard.gen = 0
      BY <2>2 DEF WatchInit
    <3>2. \A k \in Kinds : \A o \in content[k] : o = [rel |-> NoOne, gen |-> 0, wgen |-> 0]
      BY <2>2 DEF WatchInit, Cleared
    <3> QED BY <3>1, <3>2 DEF WatchShowsOneRelationship, Readable
  <2> QED BY <2>1, <2>2
<1> QED BY <1>2, <1>4, <1>5 DEF WatchInv

-----------------------------------------------------------------------------
(* The phone.                                                               *)

\* What the phone puts out is true of the identity and the watch it has then.
PutsTrue(p) ==
    IF IsPurge(p, items'[p]) THEN items'[p].gen <= LastPurge'
    ELSE p = "v1" \/ /\ items'[p].rel \in Couples
                     /\ items'[p].gen \in 1..identity'.gen
                     /\ items'[p].node = managed'.node

\* A step of the phone: generations grow, and everything said before about another
\* watch is purged.
PhoneMoves ==
    /\ UNCHANGED watchSide
    /\ identity'.gen >= identity.gen
    /\ LastPurge' >= LastPurge /\ LastPurge' <= identity'.gen
    /\ (identity'.active <=> LastPurge' < identity'.gen)
    /\ \A p \in fresh' : (p \in fresh /\ items'[p] = items[p]) \/ PutsTrue(p)
    /\ managed' = managed \/ LastPurge' >= identity.gen

\* The types of what a step of the phone writes.
PhoneTyped ==
    /\ UNCHANGED <<clock, watchSide>>
    /\ identity' \in Identities /\ (identity'.active => identity'.rel \in Couples)
    /\ managed' \in [node : Watches, gen : Nat]
    /\ sync' \in {NoSync} \cup [stage : {"asked", "checked"}, seen : Identities, found : Names]
    /\ items' \in [Paths -> Items] /\ fresh' \subseteq Paths

\* They are the types of the invariant.
LEMMA PhoneTypes == ASSUME WatchTyped, PhoneTyped PROVE WatchTyped'
BY DEF WatchTyped, PhoneTyped, watchSide

\* Such a step keeps the invariant.
LEMMA PhoneKeeps ==
    ASSUME WatchInv, PhoneTyped, AnswersAreChecked', PhoneMoves
    PROVE  WatchInv'
<1> USE DEF WatchInv
<1>t. WatchTyped'
  BY PhoneTypes
<1>1. PurgesAreKnown'
  <2>1. LastPurge \in Nat /\ LastPurge' \in Nat
    BY <1>t DEF WatchTyped, LastPurge, Items, Paths
  <2>2. purged' <= LastPurge'
    BY <2>1 DEF PhoneMoves, watchSide, PurgesAreKnown, WatchTyped
  <2>3. ASSUME NEW p \in fresh', IsPurge(p, items'[p]) PROVE items'[p].gen <= LastPurge'
    <3>1. CASE p \in fresh /\ items'[p] = items[p]
      <4>1. items[p].gen <= LastPurge /\ items[p].gen \in Nat
        BY <2>3, <3>1 DEF PurgesAreKnown, WatchTyped, Items
      <4> QED BY <2>1, <3>1, <4>1 DEF PhoneMoves
    <3> QED BY <2>3, <3>1 DEF PhoneMoves, PutsTrue
  <2> QED BY <2>2, <2>3 DEF PhoneMoves, PurgesAreKnown
<1>2. ItemsAreTrue'
  <2>1. SUFFICES ASSUME NEW p \in fresh' \ {"v1"}, ~IsPurge(p, items'[p])
                 PROVE  /\ items'[p].rel \in Couples
                        /\ items'[p].gen \in 1..identity'.gen
                        /\ items'[p].gen > LastPurge' => items'[p].node = managed'.node
    BY DEF ItemsAreTrue
  <2>2. CASE p \in fresh /\ items'[p] = items[p]
    <3>1. LastPurge \in Nat /\ LastPurge' \in Nat /\ identity.gen \in Nat /\ identity'.gen \in Nat
      BY <1>t DEF WatchTyped, LastPurge, Items, Paths, Identities
    <3>2. /\ items[p].rel \in Couples /\ items[p].gen \in 1..identity.gen
          /\ items[p].gen > LastPurge => items[p].node = managed.node
      BY <2>1, <2>2 DEF ItemsAreTrue
    <3> QED BY <2>2, <3>1, <3>2 DEF PhoneMoves
  <2> QED BY <2>1, <2>2 DEF PhoneMoves, PutsTrue
<1>3. GuardFollows'
  <2>1. LastPurge \in Nat /\ LastPurge' \in Nat /\ identity.gen \in Nat /\ identity'.gen \in Nat /\ guard.gen \in Nat
        /\ purged \in Nat
    BY <1>t DEF WatchTyped, LastPurge, Items, Paths, Identities
  <2>2. guard' = guard /\ purged' = purged
    BY DEF PhoneMoves, watchSide
  <2> QED BY <2>1, <2>2 DEF PhoneMoves, GuardFollows, Readable
<1>4. WatchShowsOneRelationship'
  BY DEF PhoneMoves, watchSide, WatchShowsOneRelationship, Readable
<1> QED BY <1>t, <1>1, <1>2, <1>3, <1>4
\* A watch that is managed, with its generation.
Targets == [node : Watches, gen : Nat]

\* Clearing the caches puts out purges of the purged identity.
LEMMA ClearedItems ==
    ASSUME NEW b \in [Paths -> Items], NEW i \in Identities, ~i.active, NEW m \in Targets,
           clock \in Nat
    PROVE  /\ ClearedBoard(b, i, m) \in [Paths -> Items]
           /\ \A p \in ClearPaths(m) \ {"v1"} : /\ IsPurge(p, ClearedBoard(b, i, m)[p])
                                                /\ ClearedBoard(b, i, m)[p].gen = i.gen
           /\ \A p \in Paths \ ClearPaths(m) : ClearedBoard(b, i, m)[p] = b[p]
           /\ ClearPaths(m) \subseteq Paths /\ "purge" \in ClearPaths(m)
<1> USE WatchNames
<1> DEFINE T == [node |-> NoOne, gen |-> 0]
<1>1. ItemFor(i, T, FALSE) \in Items /\ ItemFor(i, m, FALSE) \in Items
  BY DEF ItemFor, Items, Identities, Targets
<1>2. /\ ItemFor(i, T, FALSE).gen = i.gen /\ ItemFor(i, m, FALSE).gen = i.gen
      /\ ItemFor(i, m, FALSE).active = FALSE
  BY DEF ItemFor
<1>3. ASSUME NEW p \in Paths
      PROVE  ClearedBoard(b, i, m)[p] =
                IF p = "purge" THEN ItemFor(i, T, FALSE)
                ELSE IF p \in {"mpurge", "profile"} /\ m.node # NoOne THEN ItemFor(i, m, FALSE)
                ELSE IF p = "v1" THEN NoItem ELSE b[p]
  BY DEF ClearedBoard
<1>4. ClearedBoard(b, i, m) \in [Paths -> Items]
  <2> HIDE DEF T
  <2>1. ASSUME NEW p \in Paths PROVE ClearedBoard(b, i, m)[p] \in Items
    BY <1>1, <1>3
  <2> QED BY <2>1 DEF ClearedBoard
<1> HIDE DEF T
<1>5. ASSUME NEW p \in ClearPaths(m), p # "v1"
      PROVE  IsPurge(p, ClearedBoard(b, i, m)[p]) /\ ClearedBoard(b, i, m)[p].gen = i.gen
  <2>1. p = "purge" \/ (p \in {"mpurge", "profile"} /\ m.node # NoOne)
    BY <1>5 DEF ClearPaths
  <2>2. CASE p = "purge"
    BY <1>2, <1>3, <2>2 DEF IsPurge
  <2>3. CASE p \in {"mpurge", "profile"} /\ m.node # NoOne
    BY <1>2, <1>3, <2>3 DEF IsPurge
  <2> QED BY <2>1, <2>2, <2>3
<1>6. ASSUME NEW p \in Paths \ ClearPaths(m) PROVE ClearedBoard(b, i, m)[p] = b[p]
  BY <1>3 DEF ClearPaths
<1>7. ClearPaths(m) \subseteq Paths /\ "purge" \in ClearPaths(m)
  BY DEF ClearPaths
<1> QED BY <1>4, <1>5, <1>6, <1>7

\* Publishing the profile puts out the identity, and a purge if it names nobody.
LEMMA PublishedItems ==
    ASSUME NEW b \in [Paths -> Items], NEW i \in Identities, NEW m \in Targets,
           clock \in Nat
    PROVE  /\ PublishedProfile(b, i, m) \in [Paths -> Items]
           /\ PublishedProfile(b, i, m)["profile"] =
                  IF m.node # NoOne THEN ItemFor(i, m, i.active) ELSE b["profile"]
           /\ ~i.active => PublishedProfile(b, i, m)["purge"].gen = i.gen
           /\ i.active => PublishedProfile(b, i, m)["purge"] = b["purge"]
           /\ \A p \in Paths \ {"profile", "purge"} : PublishedProfile(b, i, m)[p] = b[p]
<1> USE WatchNames
<1> DEFINE T == [node |-> NoOne, gen |-> 0]
<1>1. ItemFor(i, T, FALSE) \in Items /\ ItemFor(i, T, FALSE).gen = i.gen
  BY DEF ItemFor, Items, Identities, Targets
<1>2. ItemFor(i, m, i.active) \in Items
  BY DEF ItemFor, Items, Identities, Targets
<1>3. ASSUME NEW p \in Paths
      PROVE  PublishedProfile(b, i, m)[p] =
                IF p = "profile" /\ m.node # NoOne THEN ItemFor(i, m, i.active)
                ELSE IF p = "purge" /\ ~i.active THEN ItemFor(i, T, FALSE) ELSE b[p]
  BY DEF PublishedProfile
<1> HIDE DEF T
<1>4. PublishedProfile(b, i, m) \in [Paths -> Items]
  <2>1. ASSUME NEW p \in Paths PROVE PublishedProfile(b, i, m)[p] \in Items
    BY <1>1, <1>2, <1>3
  <2> QED BY <2>1 DEF PublishedProfile
<1> QED BY <1>1, <1>3, <1>4
\* What the phone knows of itself.
LEMMA PhoneState ==
    ASSUME WatchInv
    PROVE  /\ items \in [Paths -> Items] /\ fresh \subseteq Paths
           /\ identity \in Identities /\ identity.gen \in Nat /\ identity.active \in BOOLEAN
           /\ managed \in Targets /\ clock \in Nat /\ purged \in Nat
           /\ LastPurge \in Nat /\ LastPurge <= identity.gen
           /\ (identity.active <=> LastPurge < identity.gen)
           /\ identity.active => identity.rel \in Couples
<1> QED BY DEF WatchInv, WatchTyped, PurgesAreKnown, LastPurge, Identities, Targets, Items, Paths

\* A purged identity is a new generation of nobody.
LEMMA PurgedIdentity ==
    ASSUME NEW i \in Identities
    PROVE  /\ Purged(i) \in Identities /\ Purged(i).active = FALSE
           /\ Purged(i).gen = i.gen + 1 /\ Purged(i).rel = i.rel
<1>1. i.gen + 1 \in Nat
  BY DEF Identities
<1>2. Purged(i) \in Identities
  BY <1>1, Zenon DEF Purged, NextGeneration, Identities
<1>3. Purged(i).gen = i.gen + 1 /\ Purged(i).rel = i.rel
  BY DEF Purged, NextGeneration, Identities
<1>4. Purged(i).active = FALSE
  BY DEF Purged, NextGeneration, Identities
<1> QED BY <1>2, <1>3, <1>4

\* Sign-out, or a server that knows no relationship.
LEMMA ClearDisplayKeeps ==
    ASSUME WatchInv, ClearDisplay, UNCHANGED <<clock, managed, watchSide>>, AnswersAreChecked',
           sync' \in {NoSync} \cup [stage : {"asked", "checked"}, seen : Identities, found : Names]
    PROVE  WatchInv'
<1> USE WatchNames, PhoneState
<1> DEFINE b == ClearedBoard(items, Purged(identity), managed)
<1>1. /\ Purged(identity) \in Identities /\ Purged(identity).active = FALSE
      /\ Purged(identity).gen = identity.gen + 1
  BY PurgedIdentity
<1>2. /\ b \in [Paths -> Items]
      /\ \A p \in ClearPaths(managed) \ {"v1"} : /\ IsPurge(p, b[p])
                                                 /\ b[p].gen = identity.gen + 1
      /\ \A p \in Paths \ ClearPaths(managed) : b[p] = items[p]
      /\ ClearPaths(managed) \subseteq Paths /\ "purge" \in ClearPaths(managed)
  BY <1>1, ClearedItems
<1>3. identity' = Purged(identity) /\ items' = b /\ fresh' = fresh \cup ClearPaths(managed)
  BY DEF ClearDisplay, Publish
<1> HIDE DEF b
<1>4. PhoneTyped
  BY <1>1, <1>2, <1>3 DEF PhoneTyped, Targets
<1>5. LastPurge' = identity.gen + 1
  BY <1>2, <1>3 DEF LastPurge
<1>6. ASSUME NEW p \in fresh' PROVE (p \in fresh /\ items'[p] = items[p]) \/ PutsTrue(p)
  <2>1. CASE p \in ClearPaths(managed) \ {"v1"}
    BY <1>2, <1>3, <1>5, <2>1 DEF PutsTrue
  <2>3. CASE p = "v1"
    BY <2>3 DEF PutsTrue, IsPurge
  <2>2. CASE p \notin ClearPaths(managed)
    BY <1>2, <1>3, <2>2
  <2> QED BY <2>1, <2>2, <2>3
<1>7. PhoneMoves
  BY <1>1, <1>3, <1>5, <1>6 DEF PhoneMoves
<1> QED BY <1>4, <1>7, PhoneKeeps

\* Sign-out.
LEMMA SignOutKeeps == ASSUME WatchInv, SignOut PROVE WatchInv'
<1>1. sync' = sync /\ AnswersAreChecked'
  BY DEF SignOut, WatchInv, AnswersAreChecked
<1>2. sync \in {NoSync} \cup [stage : {"asked", "checked"}, seen : Identities, found : Names]
  BY DEF WatchInv, WatchTyped
<1> QED BY <1>1, <1>2, ClearDisplayKeeps DEF SignOut

\* Only what the synchronizer has read changes.
LEMMA ReadingKeeps ==
    ASSUME WatchInv, UNCHANGED <<clock, identity, managed, items, fresh, watchSide>>,
           AnswersAreChecked',
           sync' \in {NoSync} \cup [stage : {"asked", "checked"}, seen : Identities, found : Names]
    PROVE  WatchInv'
<1>1. LastPurge' = LastPurge
  BY DEF LastPurge, watchSide
<1>2. PhoneTyped
  BY DEF WatchInv, WatchTyped, PhoneTyped
<1>3. PhoneMoves
  BY <1>1, PhoneState DEF PhoneMoves
<1> QED BY <1>2, <1>3, PhoneKeeps

\* The synchronizer reads the identity and asks, ...
LEMMA RefreshStartKeeps == ASSUME WatchInv, RefreshStart PROVE WatchInv'
<1>1. PICK c \in Names : sync' = [stage |-> "asked", seen |-> identity, found |-> c]
  BY DEF RefreshStart, Names
<1>2. identity \in Identities
  BY PhoneState
<1>3. sync' \in [stage : {"asked", "checked"}, seen : Identities, found : Names]
  BY <1>1, <1>2
<1>4. AnswersAreChecked'
  BY <1>1 DEF AnswersAreChecked
<1> QED BY <1>3, <1>4, ReadingKeeps DEF RefreshStart

\* ... looks at the answer, ...
LEMMA RefreshCheckKeeps == ASSUME WatchInv, RefreshCheck PROVE WatchInv'
<1>1. CASE sync' = NoSync
  <2>1. AnswersAreChecked'
    BY <1>1 DEF AnswersAreChecked, NoSync
  <2>2. CASE ClearDisplay
    BY <1>1, <2>1, <2>2, ClearDisplayKeeps DEF RefreshCheck
  <2>3. CASE UNCHANGED <<identity, items, fresh>>
    BY <1>1, <2>1, <2>3, ReadingKeeps DEF RefreshCheck
  <2>4. ClearDisplay \/ UNCHANGED <<identity, items, fresh>>
    BY DEF RefreshCheck
  <2> QED BY <2>2, <2>3, <2>4
<1>2. CASE sync' # NoSync
  <2>1. /\ sync.stage = "asked" /\ sync.found # NoOne /\ sync' = [sync EXCEPT !.stage = "checked"]
        /\ UNCHANGED <<clock, identity, managed, items, fresh, watchSide>>
    BY <1>2 DEF RefreshCheck
  <2>2. sync \in [stage : {"asked", "checked"}, seen : Identities, found : Names]
    BY <2>1 DEF WatchInv, WatchTyped, NoSync
  <2>3. /\ sync' \in [stage : {"asked", "checked"}, seen : Identities, found : Names]
        /\ sync'.found \in Couples
    BY <2>1, <2>2 DEF Names
  <2> QED BY <2>1, <2>3, ReadingKeeps DEF AnswersAreChecked
<1> QED BY <1>1, <1>2

\* An identity is kept or replaced by a newer one.
LEMMA ActivatedIdentity ==
    ASSUME NEW i \in Identities, NEW c \in Couples
    PROVE  LET a == Activated(i, c) IN
           /\ a \in Identities /\ a.active = TRUE /\ a.rel = c
           /\ a = i \/ a.gen = i.gen + 1
BY WatchNames DEF Activated, Identities, NextGeneration

\* ... and activates and publishes it.
LEMMA RefreshPublishKeeps == ASSUME WatchInv, RefreshPublish PROVE WatchInv'
<1> USE WatchNames, PhoneState
<1> DEFINE a == Activated(identity, sync.found)
<1>1. sync.found \in Couples
  BY DEF RefreshPublish, WatchInv, AnswersAreChecked
<1>2. /\ a \in Identities /\ a.active = TRUE /\ a.rel \in Couples
      /\ a = identity \/ a.gen = identity.gen + 1
  BY <1>1, ActivatedIdentity
<1> HIDE DEF a
<1>3. identity' = a /\ sync' = NoSync /\ UNCHANGED <<clock, managed, watchSide>>
  BY DEF RefreshPublish, a
<1>4. CASE managed.node = NoOne
  <2>1. UNCHANGED <<items, fresh>>
    BY <1>4 DEF RefreshPublish
  <2>2. LastPurge' = LastPurge
    BY <1>3, <2>1 DEF LastPurge, watchSide
  <2>3. PhoneTyped
    BY <1>2, <1>3, <2>1 DEF PhoneTyped, Targets
  <2>4. PhoneMoves
    BY <1>2, <1>3, <2>1, <2>2 DEF PhoneMoves
  <2>5. AnswersAreChecked'
    BY <1>3 DEF AnswersAreChecked, NoSync
  <2> QED BY <2>3, <2>4, <2>5, PhoneKeeps
<1>5. CASE managed.node # NoOne
  <2> DEFINE d == ItemFor(a, managed, TRUE)
  <2>1. items' = [items EXCEPT !["display"] = d] /\ fresh' = fresh \cup {"display"}
    BY <1>3, <1>5 DEF RefreshPublish, Publish
  <2>2. d \in Items /\ d.rel = a.rel /\ d.gen = a.gen /\ d.node = managed.node
    BY <1>2 DEF ItemFor, Items, Identities, Targets
  <2> HIDE DEF d
  <2>3. items' \in [Paths -> Items] /\ fresh' \subseteq Paths /\ items'["display"] = d
        /\ \A p \in Paths \ {"display"} : items'[p] = items[p]
    BY <2>1, <2>2
  <2>4. LastPurge' = LastPurge
    BY <1>3, <2>1, <2>3 DEF LastPurge, watchSide
  <2>5. PhoneTyped
    BY <1>2, <1>3, <2>3 DEF PhoneTyped, Targets
  <2>6. ~IsPurge("display", d)
    BY DEF IsPurge
  <2>7. a.gen \in 1..identity'.gen
    BY <1>2, <1>3 DEF Identities
  <2>8. PutsTrue("display")
    BY <1>2, <1>3, <2>2, <2>3, <2>6, <2>7 DEF PutsTrue
  <2>9. PhoneMoves
    BY <1>2, <1>3, <2>1, <2>3, <2>4, <2>8 DEF PhoneMoves
  <2>10. AnswersAreChecked'
    BY <1>3 DEF AnswersAreChecked, NoSync
  <2> QED BY <2>5, <2>9, <2>10, PhoneKeeps
<1> QED BY <1>4, <1>5
\* Rotating the barrier puts out purges between two generations.
LEMMA Rotation ==
    ASSUME WatchInv
    PROVE  /\ Rotated(identity) \in Identities /\ Rotated(identity).rel = identity.rel
           /\ Rotated(identity).active = identity.active
           /\ Rotated(identity).gen = IF identity.active THEN identity.gen + 2 ELSE identity.gen
           /\ RotatedBoard(identity) \in [Paths -> Items] /\ RotatedPaths(identity) \subseteq Paths
           /\ \A p \in RotatedPaths(identity) \ {"v1"} :
                  /\ IsPurge(p, RotatedBoard(identity)[p])
                  /\ RotatedBoard(identity)[p].gen = identity.gen + 1
           /\ \A p \in Paths \ RotatedPaths(identity) : RotatedBoard(identity)[p] = items[p]
           /\ identity.active => "purge" \in RotatedPaths(identity)
           /\ ~identity.active => RotatedPaths(identity) = {}
<1> USE WatchNames, PhoneState
<1>1. CASE identity.active
  <2> DEFINE i == Purged(identity)
  <2>1. i \in Identities /\ i.active = FALSE /\ i.gen = identity.gen + 1
    BY PurgedIdentity
  <2>2. /\ ClearedBoard(items, i, managed) \in [Paths -> Items]
        /\ \A p \in ClearPaths(managed) \ {"v1"} : /\ IsPurge(p, ClearedBoard(items, i, managed)[p])
                                                   /\ ClearedBoard(items, i, managed)[p].gen = i.gen
        /\ \A p \in Paths \ ClearPaths(managed) : ClearedBoard(items, i, managed)[p] = items[p]
        /\ ClearPaths(managed) \subseteq Paths /\ "purge" \in ClearPaths(managed)
    BY <2>1, ClearedItems
  <2>3. /\ RotatedBoard(identity) = ClearedBoard(items, i, managed)
        /\ RotatedPaths(identity) = ClearPaths(managed)
        /\ Rotated(identity) = Activated(i, identity.rel)
    BY <1>1 DEF Rotated, RotatedBoard, RotatedPaths
  <2> HIDE DEF i
  <2>4. Rotated(identity) = [rel |-> identity.rel, gen |-> identity.gen + 2, active |-> TRUE]
    <3>1. Activated(i, identity.rel) = [rel |-> identity.rel, gen |-> i.gen + 1, active |-> TRUE]
      BY <2>1 DEF Activated, NextGeneration
    <3>2. i.gen + 1 = identity.gen + 2
      BY <2>1
    <3> QED BY <2>3, <3>1, <3>2, Zenon
  <2>5. Rotated(identity) \in Identities
    BY <1>1, <2>4 DEF Identities
  <2> QED BY <1>1, <2>1, <2>2, <2>3, <2>4, <2>5
<1>2. CASE ~identity.active
  BY <1>2 DEF Rotated, RotatedBoard, RotatedPaths
<1> QED BY <1>1, <1>2

\* Managing no watch any more: what was put out for it is purged.
LEMMA RemoveWatchKeeps == ASSUME WatchInv, RemoveWatch PROVE WatchInv'
<1> USE WatchNames, PhoneState, Rotation
<1> DEFINE b == RotatedBoard(identity)
           P == RotatedPaths(identity)
           t == TargetPurge(managed.node, managed.gen + 1)
<1>1. /\ identity' = Rotated(identity) /\ managed' = [node |-> NoOne, gen |-> managed.gen + 1]
      /\ items' = [b EXCEPT !["mpurge"] = t] /\ fresh' = fresh \cup (P \cup {"mpurge"})
      /\ UNCHANGED <<clock, sync, watchSide>>
  BY DEF RemoveWatch, TargetCleared, NextGeneration, Publish
<1>2. t \in Items /\ t.gen = 0
  <2>1. managed.node \in Watches /\ managed.gen + 1 \in Nat
    BY DEF Targets
  <2> QED BY <2>1 DEF TargetPurge, NoItem, Items
<1>3. managed' \in Targets
  BY <1>1 DEF Targets
<1> HIDE DEF t
<1>4. items' \in [Paths -> Items] /\ fresh' \subseteq Paths /\ items'["mpurge"] = t
      /\ \A p \in Paths \ {"mpurge"} : items'[p] = b[p]
  BY <1>1, <1>2
<1>5. LastPurge' = IF identity.active THEN identity.gen + 1 ELSE identity.gen
  <2>1. CASE identity.active
    BY <1>1, <1>4, <2>1 DEF LastPurge
  <2>2. CASE ~identity.active
    <3>1. LastPurge' = LastPurge
      BY <1>1, <1>4, <2>2 DEF LastPurge, watchSide
    <3> QED BY <2>2, <3>1
  <2> QED BY <2>1, <2>2
<1>6. PhoneTyped
  BY <1>1, <1>3, <1>4 DEF PhoneTyped, Targets, WatchInv, WatchTyped
<1>7. ASSUME NEW p \in fresh' PROVE (p \in fresh /\ items'[p] = items[p]) \/ PutsTrue(p)
  <2>1. CASE p = "mpurge"
    BY <1>2, <1>4, <1>5, <2>1 DEF PutsTrue, IsPurge
  <2>2. CASE p = "v1"
    BY <2>2 DEF PutsTrue, IsPurge
  <2>3. CASE p \notin {"v1", "mpurge"} /\ p \in P
    <3>1. identity.active
      BY <2>3
    <3> QED BY <1>4, <1>5, <2>3, <3>1 DEF PutsTrue
  <2>4. CASE p \notin {"v1", "mpurge"} /\ p \notin P
    BY <1>1, <1>4, <2>4
  <2> QED BY <2>1, <2>2, <2>3, <2>4
<1>8. PhoneMoves
  <2>1. identity.active = TRUE \/ identity.active = FALSE
    OBVIOUS
  <2> QED BY <1>1, <1>5, <1>7, <2>1 DEF PhoneMoves
<1>9. AnswersAreChecked'
  BY <1>1 DEF WatchInv, AnswersAreChecked
<1> QED BY <1>6, <1>8, <1>9, PhoneKeeps

\* Managing another watch, or the same one again.
LEMMA SelectWatchKeeps ==
    ASSUME WatchInv, NEW n \in {Local, OtherWatch}, SelectWatch(n) PROVE WatchInv'
<1> USE WatchNames, PhoneState, Rotation
<1> DEFINE other == managed.node # n
           b == IF other THEN RotatedBoard(identity) ELSE items
           P == IF other THEN RotatedPaths(identity) ELSE {}
           Q == IF identity'.active THEN {} ELSE {"purge"}
<1>1. /\ identity' = IF other THEN Rotated(identity) ELSE identity
      /\ managed' = Selected(n)
      /\ items' = PublishedProfile(b, identity', managed')
      /\ fresh' = fresh \cup (P \cup {"profile"} \cup Q)
      /\ UNCHANGED <<clock, sync, watchSide>>
  BY DEF SelectWatch, Publish
<1>2. /\ managed' \in Targets /\ managed'.node = n /\ n # NoOne
      /\ ~other => managed' = managed
  <2>1. Selected(n) \in Targets /\ Selected(n).node = n
    BY DEF Selected, NextGeneration, Targets
  <2>2. managed.node = n => Selected(n) = managed
    BY DEF Selected, Targets
  <2> QED BY <1>1, <2>1, <2>2
<1>3. /\ identity' \in Identities /\ identity'.rel = identity.rel
      /\ identity'.active = identity.active
      /\ identity'.gen = IF other /\ identity.active THEN identity.gen + 2 ELSE identity.gen
  BY <1>1
<1>4. /\ b \in [Paths -> Items] /\ P \subseteq Paths
      /\ \A p \in P \ {"v1"} : IsPurge(p, b[p]) /\ b[p].gen = identity.gen + 1
      /\ \A p \in Paths \ P : b[p] = items[p]
      /\ other /\ identity.active => "purge" \in P
      /\ ~(other /\ identity.active) => P = {}
  OBVIOUS
<1> HIDE DEF b, P
<1>5. /\ items' \in [Paths -> Items]
      /\ items'["profile"] = ItemFor(identity', managed', identity'.active)
      /\ ~identity.active => items'["purge"].gen = identity'.gen
      /\ identity.active => items'["purge"] = b["purge"]
      /\ \A p \in Paths \ {"profile", "purge"} : items'[p] = b[p]
  BY <1>1, <1>2, <1>3, <1>4, PublishedItems
<1>6. LastPurge' = IF other /\ identity.active THEN identity.gen + 1 ELSE LastPurge
  <2>1. CASE identity.active /\ other
    BY <1>1, <1>4, <1>5, <2>1 DEF LastPurge
  <2>2. CASE identity.active /\ ~other
    BY <1>1, <1>3, <1>4, <1>5, <2>2 DEF LastPurge, watchSide
  <2>3. CASE ~identity.active
    BY <1>1, <1>3, <1>5, <2>3 DEF LastPurge
  <2> QED BY <2>1, <2>2, <2>3
<1>7. PhoneTyped
  <2>1. fresh' \subseteq Paths
    BY <1>1, <1>4
  <2>2. UNCHANGED <<clock, watchSide, sync>>
    BY <1>1
  <2>3. identity'.active => identity'.rel \in Couples
    BY <1>3
  <2> QED BY <1>2, <1>3, <1>5, <2>1, <2>2, <2>3 DEF PhoneTyped, Targets, WatchInv, WatchTyped
<1>8. ASSUME NEW p \in fresh' PROVE (p \in fresh /\ items'[p] = items[p]) \/ PutsTrue(p)
  <2>1. CASE p = "profile"
    <3> DEFINE m == ItemFor(identity', managed', identity'.active)
    <3>1. m.rel = identity.rel /\ m.gen = identity'.gen /\ m.active = identity.active /\ m.node = managed'.node
      BY <1>3 DEF ItemFor
    <3> HIDE DEF m
    <3>2. items'[p] = m
      BY <1>5, <2>1 DEF m
    <3>3. CASE identity.active
      <4>1. m.gen \in 1..identity'.gen
        BY <1>3, <3>1, <3>3
      <4>2. ~IsPurge(p, m)
        BY <2>1, <3>1, <3>3 DEF IsPurge
      <4> QED BY <3>1, <3>2, <3>3, <4>1, <4>2 DEF PutsTrue
    <3>4. CASE ~identity.active
      <4>1. IsPurge(p, m)
        BY <2>1, <3>1, <3>4 DEF IsPurge
      <4>2. m.gen <= LastPurge'
        BY <1>3, <1>6, <3>1, <3>4
      <4> QED BY <3>2, <4>1, <4>2 DEF PutsTrue
    <3> QED BY <3>3, <3>4
  <2>2. CASE p = "v1"
    BY <2>2 DEF PutsTrue, IsPurge
  <2>3. CASE p = "purge" /\ ~identity.active
    <3>1. items'[p].gen <= LastPurge'
      BY <1>3, <1>5, <1>6, <2>3
    <3> QED BY <2>3, <3>1 DEF PutsTrue, IsPurge
  <2>4. CASE p \notin {"v1", "profile"} /\ ~(p = "purge" /\ ~identity.active) /\ p \in P
    <3>1. other /\ identity.active /\ items'[p] = b[p]
      BY <1>4, <1>5, <2>4
    <3> QED BY <1>4, <1>6, <2>4, <3>1 DEF PutsTrue
  <2>5. CASE p \notin {"v1", "profile"} /\ ~(p = "purge" /\ ~identity.active) /\ p \notin P
    BY <1>1, <1>3, <1>4, <1>5, <2>5
  <2> QED BY <2>1, <2>2, <2>3, <2>4, <2>5
<1>9. PhoneMoves
  <2>1. /\ identity'.gen >= identity.gen /\ LastPurge' >= LastPurge /\ LastPurge' <= identity'.gen
        /\ (identity.active <=> LastPurge' < identity'.gen)
    <3>1. CASE other /\ identity.active
      BY <1>3, <1>6, <3>1
    <3>2. CASE ~(other /\ identity.active)
      BY <1>3, <1>6, <3>2
    <3> QED BY <3>1, <3>2
  <2>2. managed' = managed \/ LastPurge' >= identity.gen
    BY <1>2, <1>6
  <2> QED BY <1>1, <1>3, <1>8, <2>1, <2>2 DEF PhoneMoves
<1>10. AnswersAreChecked'
  BY <1>1 DEF WatchInv, AnswersAreChecked
<1> QED BY <1>7, <1>9, <1>10, PhoneKeeps
-----------------------------------------------------------------------------
(* The watch.                                                               *)

\* States of the two guards.
Guards == [rel : Names, gen : Nat, status : GuardStatuses, auth : Nat]
Aims == [node : Watches, gen : Nat, controlled : BOOLEAN]

\* Receiving an item tells the watch of no purge it had not to expect.
LEMMA DeliveryLeaves ==
    ASSUME WatchInv, NEW p \in fresh, fresh' = fresh \ {p}, items' = [items EXCEPT ![p] = NoItem],
           UNCHANGED <<clock, identity, managed, sync>>,
           \/ purged' = purged /\ p # "purge"
           \/ IsPurge(p, items[p]) /\ purged' = IF items[p].gen > purged THEN items[p].gen ELSE purged
    PROVE  /\ LastPurge' = LastPurge /\ purged' \in Nat
           /\ PurgesAreKnown' /\ ItemsAreTrue' /\ AnswersAreChecked'
<1> USE WatchNames, PhoneState
<1>1. /\ items' \in [Paths -> Items] /\ fresh' \subseteq Paths
      /\ \A q \in fresh' : q \in fresh /\ items'[q] = items[q]
      /\ items[p] \in Items /\ items[p].gen \in Nat
  BY DEF Items
<1>2. LastPurge' = LastPurge /\ purged' \in Nat /\ purged' <= LastPurge
  <2>1. purged <= LastPurge
    BY DEF WatchInv, PurgesAreKnown
  <2>2. IsPurge(p, items[p]) => items[p].gen <= LastPurge
    BY DEF WatchInv, PurgesAreKnown
  <2>3. purged' \in Nat /\ purged' <= LastPurge
    BY <1>1, <2>1, <2>2
  <2>4. CASE p = "purge"
    <3>1. LastPurge = items[p].gen /\ LastPurge' = purged'
      BY <2>4 DEF LastPurge
    <3> QED BY <1>1, <2>1, <2>3, <2>4, <3>1
  <2>5. CASE p # "purge" /\ "purge" \in fresh
    BY <1>1, <2>3, <2>5 DEF LastPurge
  <2>6. CASE p # "purge" /\ "purge" \notin fresh
    <3>1. LastPurge = purged /\ LastPurge' = purged'
      BY <2>6 DEF LastPurge
    <3> QED BY <1>1, <2>1, <2>2, <2>3, <3>1
  <2> QED BY <2>3, <2>4, <2>5, <2>6
<1>3. PurgesAreKnown'
  BY <1>1, <1>2 DEF WatchInv, PurgesAreKnown
<1>4. ItemsAreTrue'
  <2>1. SUFFICES ASSUME NEW q \in fresh' \ {"v1"}, ~IsPurge(q, items'[q])
                 PROVE  /\ items'[q].rel \in Couples
                        /\ items'[q].gen \in 1..identity'.gen
                        /\ items'[q].gen > LastPurge' => items'[q].node = managed'.node
    BY DEF ItemsAreTrue
  <2> QED BY <1>1, <1>2, <2>1 DEF WatchInv, ItemsAreTrue
<1>5. AnswersAreChecked'
  BY DEF WatchInv, AnswersAreChecked
<1> QED BY <1>2, <1>3, <1>4, <1>5

\* The handler of an item, the rest of the delivery aside.
Received(p) ==
    /\ p \in fresh /\ fresh' = fresh \ {p} /\ items' = [items EXCEPT ![p] = NoItem]
    /\ UNCHANGED <<clock, identity, managed, sync>>

\* A received item keeps the invariant if the guard and the content are in order.
LEMMA DeliveryKeeps ==
    ASSUME WatchInv, NEW p \in Paths, Received(p),
           \/ purged' = purged /\ p # "purge"
           \/ IsPurge(p, items[p]) /\ purged' = IF items[p].gen > purged THEN items[p].gen ELSE purged,
           guard' \in Guards, aim' \in Aims, content' \in [Kinds -> SUBSET Owners],
           fetches' \subseteq [owner : Owners, checked : BOOLEAN],
           GuardFollows', WatchShowsOneRelationship'
    PROVE  WatchInv'
<1>1. /\ LastPurge' = LastPurge /\ purged' \in Nat
      /\ PurgesAreKnown' /\ ItemsAreTrue' /\ AnswersAreChecked'
  BY DeliveryLeaves DEF Received
<1>2. items' \in [Paths -> Items] /\ fresh' \subseteq Paths
  BY WatchNames, PhoneState DEF Received
<1>3. WatchTyped'
  BY <1>1, <1>2 DEF WatchInv, WatchTyped, Received, Guards, Aims
<1> QED BY <1>1, <1>3 DEF WatchInv

\* Nothing is stored.
LEMMA ClearedContent ==
    /\ Cleared \in [Kinds -> SUBSET Owners]
    /\ content' = Cleared => WatchShowsOneRelationship'
BY DEF Cleared, WatchShowsOneRelationship

\* The item every earlier version understands: a purge without a generation.
LEMMA LegacyPurgeKeeps ==
    ASSUME WatchInv, Received("v1"),
           guard' = StateAfter(PurgeLegacy(guard), guard),
           content' = After(PurgeLegacy(guard), content), UNCHANGED <<aim, fetches, purged>>
    PROVE  WatchInv'
<1> USE WatchNames, PhoneState
<1>1. /\ aim' \in Aims /\ fetches' \subseteq [owner : Owners, checked : BOOLEAN]
      /\ guard \in Guards /\ content \in [Kinds -> SUBSET Owners]
  BY DEF WatchInv, WatchTyped, Aims, Guards
<1>2. LastPurge' = LastPurge
  BY DeliveryLeaves DEF Received
<1>3. CASE guard.gen > 0
  <2>1. guard' = guard /\ content' = content
    BY <1>3 DEF PurgeLegacy, Refused, StateAfter, After
  <2>2. GuardFollows'
    BY <1>2, <2>1 DEF WatchInv, GuardFollows, Received, Readable
  <2>3. WatchShowsOneRelationship'
    BY <2>1 DEF WatchInv, WatchShowsOneRelationship, Readable
  <2> QED BY <1>1, <2>1, <2>2, <2>3, DeliveryKeeps
<1>4. CASE ~(guard.gen > 0)
  <2> DEFINE s == [rel |-> NoOne, gen |-> 0, status |-> "EXPIRED", auth |-> clock]
  <2>1. guard' = s /\ content' = Cleared
    BY <1>4 DEF PurgeLegacy, Granted, StateAfter, After
  <2>2. s \in Guards /\ s.gen = 0 /\ s.status = "EXPIRED"
    BY DEF Guards, GuardStatuses
  <2> HIDE DEF s
  <2>3. purged = 0 /\ purged' = 0
    BY <1>1, <1>4 DEF WatchInv, GuardFollows, Guards
  <2>4. GuardFollows'
    BY <1>2, <2>1, <2>2, <2>3 DEF GuardFollows, Received, Readable
  <2> QED BY <1>1, <2>1, <2>2, <2>4, ClearedContent, DeliveryKeeps
<1> QED BY <1>3, <1>4

\* A purge: whatever the guard says of it, the watch is no further behind.
LEMMA PurgeKeeps ==
    ASSUME WatchInv, NEW p \in Paths, Received(p), IsPurge(p, items[p]), PurgeWatch(p, items[p])
    PROVE  WatchInv'
<1> USE WatchNames, PhoneState
<1> DEFINE m == items[p]
           t == PurgeTransition(guard, m)
<1>1. /\ fetches \subseteq [owner : Owners, checked : BOOLEAN] /\ aim \in Aims
      /\ guard \in Guards /\ guard.gen \in Nat /\ content \in [Kinds -> SUBSET Owners]
      /\ m \in Items /\ m.gen \in Nat /\ m.wgen \in Nat /\ m.rel \in Names
  BY DEF WatchInv, WatchTyped, Aims, Guards, Items
<1>2. CASE ~PurgeAllowed(p, m)
  <2>1. UNCHANGED <<guard, aim, content, fetches, purged>> /\ p # "purge"
    BY <1>2 DEF PurgeWatch, PurgeAllowed
  <2>2. LastPurge' = LastPurge
    BY <2>1, DeliveryLeaves DEF Received
  <2>3. GuardFollows'
    BY <2>1, <2>2 DEF WatchInv, GuardFollows, Received, Readable
  <2>4. WatchShowsOneRelationship'
    BY <2>1 DEF WatchInv, WatchShowsOneRelationship, Readable
  <2> QED BY <1>1, <2>1, <2>3, <2>4, DeliveryKeeps
<1>3. CASE PurgeAllowed(p, m)
  <2>1. /\ content' = After(t, IF PurgesTarget(m) THEN Cleared ELSE content)
        /\ aim' = CASE PurgesTarget(m) -> PurgedAim(m)
                    [] ~PurgesTarget(m) /\ t.accepted -> [aim EXCEPT !.controlled = FALSE]
                    [] OTHER -> aim
        /\ guard' = StateAfter(t, guard)
        /\ purged' = IF m.gen > purged THEN m.gen ELSE purged
        /\ fetches' = fetches
    BY <1>3 DEF PurgeWatch
  <2>2. LastPurge' = LastPurge /\ m.gen <= LastPurge
    <3>1. LastPurge' = LastPurge
      BY <2>1, DeliveryLeaves DEF Received
    <3> QED BY <3>1 DEF WatchInv, PurgesAreKnown, Received
  <2>3. aim' \in Aims
    <3>1. PurgedAim(m) \in Aims /\ [aim EXCEPT !.controlled = FALSE] \in Aims
      BY <1>1 DEF PurgedAim, Aims
    <3> QED BY <1>1, <2>1, <3>1
  <2>4. purged <= guard.gen /\ guard.gen <= identity.gen /\ purged \in Nat
    BY <1>1 DEF WatchInv, GuardFollows
  <2>5. CASE m.gen = 0 \/ m.gen < guard.gen
    <3>1. guard' = guard /\ content' \in {Cleared, content}
      BY <2>1, <2>5 DEF PurgeTransition, Refused, StateAfter, After
    <3>2. purged' <= guard.gen /\ (purged' > 0 /\ guard.gen = purged' => purged' = purged)
      BY <1>1, <2>1, <2>4, <2>5
    <3>3. purged' \in Nat
      BY <1>1, <2>1, <2>4
    <3>4. GuardFollows'
      BY <1>1, <2>2, <2>4, <3>1, <3>2, <3>3 DEF WatchInv, GuardFollows, Received, Readable
    <3>5. WatchShowsOneRelationship'
      BY <3>1, ClearedContent DEF WatchInv, WatchShowsOneRelationship, Readable
    <3>6. content' \in [Kinds -> SUBSET Owners]
      BY <1>1, <3>1, ClearedContent
    <3> QED BY <1>1, <2>1, <2>3, <3>1, <3>4, <3>5, <3>6, DeliveryKeeps
  <2>6. CASE ~(m.gen = 0 \/ m.gen < guard.gen)
    <3> DEFINE s == [rel |-> m.rel, gen |-> m.gen, status |-> "PURGED", auth |-> clock]
    <3>1. guard' = s /\ content' = Cleared
      BY <2>1, <2>6 DEF PurgeTransition, Granted, StateAfter, After
    <3>2. s \in Guards /\ s.gen = m.gen /\ s.status = "PURGED"
      BY <1>1 DEF Guards, GuardStatuses
    <3> HIDE DEF s
    <3>3. purged' = m.gen
      BY <1>1, <2>1, <2>4, <2>6
    <3>4. GuardFollows'
      BY <1>1, <2>2, <3>1, <3>2, <3>3 DEF GuardFollows, Received, Readable
    <3> QED BY <1>1, <2>1, <2>3, <3>1, <3>2, <3>4, ClearedContent, DeliveryKeeps
  <2> QED BY <2>5, <2>6
<1> QED BY <1>2, <1>3
\* An item the relationship guard accepts: it is of the guard's generation or a newer
\* one that nothing has purged, and what is kept belongs to the same relationship.
LEMMA AcceptedItem ==
    ASSUME NEW s \in Guards, NEW m \in Items, m.gen > 0, m.rel \in Couples, clock \in Nat,
           Readable(s) /\ s.gen > 0 => s.rel \in Couples,
           AcceptActive(s, m).accepted
    PROVE  LET t == AcceptActive(s, m) IN
           /\ t.state \in Guards /\ t.state.gen = m.gen /\ t.state.rel = m.rel
           /\ Readable(t.state) /\ t.state.status # "PURGED"
           /\ m.gen > s.gen \/ (m.gen = s.gen /\ s.status # "PURGED")
           /\ t.clear \/ (Readable(s) /\ s.gen = m.gen /\ s.rel = m.rel)
<1> USE WatchNames
<1>1. s.gen \in Nat /\ m.gen \in Nat /\ m.at \in Nat /\ s.auth \in Nat
  BY DEF Guards, Items
<1> DEFINE newest == IF s.auth > m.at THEN s.auth ELSE m.at
           c1 == m.gen = 0 \/ m.gen < s.gen
           c2 == m.gen = s.gen /\ (s.status = "PURGED" \/ s.rel \notin {NoOne, m.rel})
           c3 == /\ m.gen = s.gen /\ s.rel \in {NoOne, m.rel} /\ ExpiredAt(m.at)
                 /\ Readable(s) /\ ~ExpiredAt(s.auth)
           c4 == m.gen = s.gen /\ s.status # "PURGED" /\ s.rel \in {NoOne, m.rel} /\ ~ExpiredAt(m.at)
           c5 == m.gen > s.gen /\ ~ExpiredAt(m.at)
           t4 == [rel |-> m.rel, gen |-> m.gen, status |-> "ACTIVE", auth |-> newest]
           t5 == [rel |-> m.rel, gen |-> m.gen, status |-> "ACTIVE", auth |-> m.at]
<1>2. AcceptActive(s, m) =
        CASE c1 -> Refused(s) [] c2 -> Refused(s) [] c3 -> Granted(s, FALSE)
          [] c4 -> Granted(t4, s.status # "ACTIVE") [] c5 -> Granted(t5, TRUE)
          [] OTHER -> TooOld(s, m)
  BY DEF AcceptActive
<1>3. /\ c3 => Readable(s) /\ s.status # "PURGED"
      /\ c4 \/ c5 => ~c3
  BY DEF Readable
<1>4. /\ ~(c1 /\ (c2 \/ c3 \/ c4 \/ c5) /\ ~(c1 /\ c2)) \/ m.gen = 0
      /\ ~(c2 /\ (c3 \/ c4 \/ c5)) /\ ~(c4 /\ c5)
  BY <1>1 DEF Readable
<1>5. newest \in Nat
  BY <1>1
<1>6. /\ t4 \in Guards /\ t4.gen = m.gen /\ t4.rel = m.rel /\ t4.status = "ACTIVE"
      /\ t5 \in Guards /\ t5.gen = m.gen /\ t5.rel = m.rel /\ t5.status = "ACTIVE"
  BY <1>1, <1>5 DEF Guards, GuardStatuses
<1>7. ~Refused(s).accepted /\ ~TooOld(s, m).accepted
  BY DEF Refused, TooOld
<1> HIDE DEF newest, c1, c2, c3, c4, c5, t4, t5
<1>8. CASE c3
  <2>1. ~c1 /\ ~c2
    BY <1>1, <1>8 DEF c1, c2, c3, Readable
  <2>2. AcceptActive(s, m) = Granted(s, FALSE)
    BY <1>2, <1>3, <1>8, <2>1
  <2>3. m.gen = s.gen /\ s.rel \in {NoOne, m.rel} /\ Readable(s)
    BY <1>8 DEF c3
  <2>4. s.rel = m.rel
    BY <2>3
  <2> QED BY <1>3, <1>8, <2>2, <2>3, <2>4 DEF Granted
<1>9. CASE c4
  <2>1. ~c1 /\ ~c2 /\ ~c3 /\ ~c5
    BY <1>1, <1>9 DEF c1, c2, c3, c4, c5
  <2>2. AcceptActive(s, m) = Granted(t4, s.status # "ACTIVE")
    BY <1>2, <1>9, <2>1
  <2>3. m.gen = s.gen /\ s.rel \in {NoOne, m.rel} /\ s.status # "PURGED"
    BY <1>9 DEF c4
  <2>4. s.status # "ACTIVE" \/ (Readable(s) /\ s.rel = m.rel)
    BY <2>3 DEF Readable
  <2>5. Readable(t4)
    BY <1>6 DEF Readable
  <2>6. AcceptActive(s, m).state = t4
    BY <2>2 DEF Granted
  <2>7. CASE s.status = "ACTIVE"
    BY <1>6, <2>3, <2>4, <2>5, <2>6, <2>7
  <2>8. CASE s.status # "ACTIVE"
    <3>1. AcceptActive(s, m) = Granted(t4, TRUE)
      BY <2>2, <2>8
    <3> QED BY <1>6, <2>3, <2>5, <2>6, <3>1 DEF Granted
  <2> QED BY <2>7, <2>8
<1>10. CASE c5
  <2>1. ~c1 /\ ~c2 /\ ~c3 /\ ~c4
    BY <1>1, <1>10 DEF c1, c2, c3, c4, c5
  <2>2. AcceptActive(s, m) = Granted(t5, TRUE)
    BY <1>2, <1>10, <2>1
  <2>3. m.gen > s.gen
    BY <1>10 DEF c5
  <2>4. Readable(t5)
    BY <1>6 DEF Readable
  <2> QED BY <1>6, <2>2, <2>3, <2>4 DEF Granted
<1>11. CASE ~c3 /\ ~c4 /\ ~c5
  <2>1. AcceptActive(s, m) = Refused(s) \/ AcceptActive(s, m) = TooOld(s, m)
    BY <1>2, <1>11
  <2> QED BY <1>7, <2>1
<1> QED BY <1>8, <1>9, <1>10, <1>11

\* The target guard accepts items for this watch only.
LEMMA DecidedAim ==
    ASSUME aim \in Aims, NEW m \in Items
    PROVE  Decide(m).next \in Aims /\ (Decide(m).accepted => m.node = Local)
<1> USE WatchNames
<1>1. aim.gen \in Nat /\ m.wgen \in Nat
  BY DEF Aims, Items
<1>2. [node |-> NoOne, gen |-> m.wgen, controlled |-> FALSE] \in Aims
      /\ [node |-> Local, gen |-> m.wgen, controlled |-> TRUE] \in Aims
  BY <1>1 DEF Aims
<1>3. CASE m.wgen < aim.gen
  <2>1. Decide(m) = [accepted |-> FALSE, clear |-> FALSE, next |-> aim]
    BY <1>1, <1>3 DEF Decide
  <2> QED BY <2>1
<1>4. CASE m.wgen >= aim.gen /\ m.node # Local
  <2>1. ~(m.wgen < aim.gen)
    BY <1>1, <1>4
  <2>2. Decide(m) = IF m.wgen > aim.gen
                    THEN [accepted |-> FALSE, clear |-> TRUE,
                          next |-> [node |-> NoOne, gen |-> m.wgen, controlled |-> FALSE]]
                    ELSE [accepted |-> FALSE, clear |-> FALSE, next |-> aim]
    BY <1>4, <2>1 DEF Decide
  <2> QED BY <1>2, <2>2
<1>5. CASE ~(m.wgen < aim.gen) /\ ~(m.wgen >= aim.gen /\ m.node # Local)
  <2>1. Decide(m) = [accepted |-> TRUE, clear |-> m.wgen > aim.gen \/ aim.node # Local,
                     next |-> [node |-> Local, gen |-> m.wgen, controlled |-> TRUE]]
    BY <1>5 DEF Decide
  <2>2. m.node = Local
    BY <1>1, <1>5
  <2> QED BY <1>2, <2>1, <2>2
<1> QED BY <1>3, <1>4, <1>5

\* A relationship's texts: stored if both guards agree.
LEMMA StoreKeeps ==
    ASSUME WatchInv, NEW p \in Paths, Received(p), p # "v1", ~IsPurge(p, items[p]),
           Store(p, items[p]), purged' = purged
    PROVE  WatchInv'
<1> USE WatchNames, PhoneState
<1> DEFINE m == items[p]
           d == Decide(m)
           t == AcceptActive(guard, m)
           k == IF p = "profile" THEN "names" ELSE p
           base == After(t, IF d.clear THEN Cleared ELSE content)
<1>1. /\ fetches \subseteq [owner : Owners, checked : BOOLEAN] /\ aim \in Aims
      /\ guard \in Guards /\ guard.gen \in Nat /\ content \in [Kinds -> SUBSET Owners]
      /\ m \in Items /\ m.rel \in Names /\ m.gen \in Nat /\ m.wgen \in Nat
  BY DEF WatchInv, WatchTyped, Aims, Guards, Items
<1>2. p # "purge" /\ k \in Kinds
  BY DEF IsPurge
<1>3. LastPurge' = LastPurge
  BY <1>2, DeliveryLeaves DEF Received
<1>4. /\ m.rel \in Couples /\ m.gen > 0 /\ m.gen <= identity.gen
      /\ m.gen > LastPurge => m.node = managed.node
  BY <1>1 DEF WatchInv, ItemsAreTrue, Received
<1>5. Owner(m) \in Owners /\ Owner(m).rel = m.rel /\ Owner(m).gen = m.gen
  BY <1>1 DEF Owner, Owners
<1>6. d.next \in Aims /\ (d.accepted => m.node = Local)
  BY <1>1, DecidedAim
<1> HIDE DEF d
<1>7. CASE ~(t.accepted /\ d.accepted)
  <2>1. guard' = guard /\ content' \in {Cleared, content} /\ aim' \in {aim, d.next} /\ fetches' = fetches
    BY <1>7 DEF Store, d
  <2>2. GuardFollows'
    BY <1>3, <2>1 DEF WatchInv, GuardFollows, Received, Readable
  <2>3. WatchShowsOneRelationship'
    BY <2>1, ClearedContent DEF WatchInv, WatchShowsOneRelationship, Readable
  <2>4. content' \in [Kinds -> SUBSET Owners] /\ aim' \in Aims
    BY <1>1, <1>6, <2>1, ClearedContent
  <2> QED BY <1>1, <1>2, <2>1, <2>2, <2>3, <2>4, DeliveryKeeps
<1>8. CASE t.accepted /\ d.accepted
  <2>1. /\ t.state \in Guards /\ t.state.gen = m.gen /\ t.state.rel = m.rel
        /\ Readable(t.state) /\ t.state.status # "PURGED"
        /\ m.gen > guard.gen \/ (m.gen = guard.gen /\ guard.status # "PURGED")
        /\ t.clear \/ (Readable(guard) /\ guard.gen = m.gen /\ guard.rel = m.rel)
    <3>1. Readable(guard) /\ guard.gen > 0 => guard.rel \in Couples
      BY DEF WatchInv, GuardFollows
    <3> QED BY <1>1, <1>4, <1>8, <3>1, AcceptedItem
  <2> HIDE DEF t
  <2>2. UNCHANGED <<guard, aim, content, fetches>> \/
        /\ aim' = d.next /\ guard' = t.state
        /\ content' = [base EXCEPT ![k] = {Owner(m)}]
        /\ fetches' \in {fetches, fetches \cup {[owner |-> Owner(m), checked |-> FALSE]}}
    BY <1>8 DEF Store, StateAfter, d, t
  <2>3. CASE UNCHANGED <<guard, aim, content, fetches>>
    <3>1. GuardFollows'
      BY <1>3, <2>3 DEF WatchInv, GuardFollows, Received, Readable
    <3>2. WatchShowsOneRelationship'
      BY <2>3 DEF WatchInv, WatchShowsOneRelationship, Readable
    <3> QED BY <1>1, <1>2, <2>3, <3>1, <3>2, DeliveryKeeps
  <2>4. CASE /\ aim' = d.next /\ guard' = t.state
             /\ content' = [base EXCEPT ![k] = {Owner(m)}]
             /\ fetches' \in {fetches, fetches \cup {[owner |-> Owner(m), checked |-> FALSE]}}
    <3>1. base \in [Kinds -> SUBSET Owners] /\ base \in {Cleared, content}
          /\ (t.clear => base = Cleared)
      BY <1>1, ClearedContent DEF After
    <3> HIDE DEF base
    <3>2. /\ content' \in [Kinds -> SUBSET Owners]
          /\ content'[k] = {Owner(m)}
          /\ \A q \in Kinds \ {k} : content'[q] = base[q]
      BY <1>2, <1>5, <2>4, <3>1
    <3>3. ASSUME NEW q \in Kinds, NEW o \in base[q]
          PROVE  o.rel = m.rel /\ o.gen = m.gen
      <4>1. base = content /\ ~t.clear
        BY <3>1, <3>3 DEF Cleared
      <4> QED BY <2>1, <3>3, <4>1 DEF WatchInv, WatchShowsOneRelationship
    <3>4. WatchShowsOneRelationship'
      <4>1. Readable(guard') /\ guard'.rel = m.rel /\ guard'.gen = m.gen
        BY <2>1, <2>4
      <4>2. ASSUME NEW q \in Kinds, NEW o \in content'[q]
            PROVE  o.rel = m.rel /\ o.gen = m.gen
        BY <1>5, <3>2, <3>3
      <4> QED BY <4>1, <4>2 DEF WatchShowsOneRelationship, Readable
    <3>5. GuardFollows'
      <4>1. purged <= guard.gen /\ (purged > 0 /\ guard.gen = purged => guard.status = "PURGED")
        BY <1>1 DEF WatchInv, GuardFollows
      <4>2. purged' <= m.gen /\ (purged' > 0 => m.gen # purged')
        BY <1>1, <2>1, <4>1
      <4>3. guard'.gen = m.gen /\ guard'.rel = m.rel
        BY <2>1, <2>4
      <4>4. m.gen > LastPurge' => managed'.node = Local
        BY <1>3, <1>4, <1>6, <1>8 DEF Received
      <4>5. identity' = identity
        BY DEF Received
      <4> QED BY <1>1, <1>4, <4>2, <4>3, <4>4, <4>5 DEF GuardFollows
    <3>6. fetches' \subseteq [owner : Owners, checked : BOOLEAN]
      <4>1. [owner |-> Owner(m), checked |-> FALSE] \in [owner : Owners, checked : BOOLEAN]
        BY <1>5
      <4> QED BY <1>1, <2>4, <4>1
    <3>7. guard' \in Guards /\ aim' \in Aims
      BY <1>6, <2>1, <2>4
    <3> QED BY <1>2, <3>2, <3>4, <3>5, <3>6, <3>7, DeliveryKeeps
  <2> QED BY <2>2, <2>3, <2>4
<1> QED BY <1>7, <1>8

\* The handler of an item.
LEMMA DeliverKeeps == ASSUME WatchInv, NEW p \in Paths, Deliver(p) PROVE WatchInv'
<1>1. Received(p)
  BY DEF Deliver, Received
<1>2. CASE p = "v1"
  <2>1. guard' = StateAfter(PurgeLegacy(guard), guard) /\ content' = After(PurgeLegacy(guard), content)
        /\ UNCHANGED <<aim, fetches, purged>>
    BY <1>2 DEF Deliver, IsPurge
  <2> QED BY <1>1, <1>2, <2>1, LegacyPurgeKeeps
<1>3. CASE p # "v1" /\ IsPurge(p, items[p])
  BY <1>1, <1>3, PurgeKeeps DEF Deliver
<1>4. CASE p # "v1" /\ ~IsPurge(p, items[p])
  BY <1>1, <1>4, StoreKeeps DEF Deliver
<1> QED BY <1>2, <1>3, <1>4

\* A step of the watch by itself: the phone and what is on its way stay.
LEMMA WatchAlone ==
    ASSUME WatchInv, UNCHANGED <<phoneSide, fresh, purged>>, clock' \in Nat \ {0},
           guard' \in Guards, aim' \in Aims, content' \in [Kinds -> SUBSET Owners],
           fetches' \subseteq [owner : Owners, checked : BOOLEAN],
           guard' = guard \/ (Readable(guard) /\ guard' = [guard EXCEPT !.status = "EXPIRED"]),
           WatchShowsOneRelationship'
    PROVE  WatchInv'
<1>1. LastPurge' = LastPurge
  BY DEF LastPurge, phoneSide
<1>2. WatchTyped'
  BY DEF WatchInv, WatchTyped, phoneSide, Guards, Aims
<1>3. AnswersAreChecked' /\ PurgesAreKnown' /\ ItemsAreTrue'
  BY <1>1 DEF WatchInv, AnswersAreChecked, PurgesAreKnown, ItemsAreTrue, phoneSide
<1>4. GuardFollows'
  <2>1. CASE guard' = guard
    BY <1>1, <2>1 DEF WatchInv, GuardFollows, phoneSide, Readable
  <2>2. CASE guard' = [guard EXCEPT !.status = "EXPIRED"] /\ Readable(guard)
    <3>1. /\ guard'.gen = guard.gen /\ guard'.status = "EXPIRED" /\ guard.status # "PURGED"
      BY <2>2 DEF WatchInv, WatchTyped, Readable
    <3> QED BY <1>1, <3>1 DEF WatchInv, GuardFollows, phoneSide, Readable
  <2> QED BY <2>1, <2>2
<1> QED BY <1>2, <1>3, <1>4 DEF WatchInv

\* What the watch has.
LEMMA WatchState ==
    ASSUME WatchInv
    PROVE  /\ clock \in Nat \ {0} /\ guard \in Guards /\ aim \in Aims
           /\ content \in [Kinds -> SUBSET Owners]
           /\ fetches \subseteq [owner : Owners, checked : BOOLEAN]
           /\ [aim EXCEPT !.controlled = FALSE] \in Aims
           /\ [guard EXCEPT !.status = "EXPIRED"] \in Guards
<1>1. clock \in Nat \ {0} /\ guard \in Guards /\ aim \in Aims
      /\ content \in [Kinds -> SUBSET Owners] /\ fetches \subseteq [owner : Owners, checked : BOOLEAN]
  BY DEF WatchInv, WatchTyped, Guards, Aims
<1>2. [aim EXCEPT !.controlled = FALSE] \in Aims
  BY <1>1 DEF Aims
<1>3. [guard EXCEPT !.status = "EXPIRED"] \in Guards
  BY <1>1 DEF Guards, GuardStatuses
<1> QED BY <1>1, <1>2, <1>3

\* A photo has arrived: its target is looked at, ...
LEMMA CheckFetchKeeps == ASSUME WatchInv, NEW f \in fetches, CheckFetch(f) PROVE WatchInv'
<1>1. fetches' \subseteq [owner : Owners, checked : BOOLEAN]
  <2>1. f \in [owner : Owners, checked : BOOLEAN]
    BY WatchState
  <2>2. [f EXCEPT !.checked = TRUE] \in [owner : Owners, checked : BOOLEAN]
    BY <2>1
  <2> QED BY <2>2, WatchState DEF CheckFetch
<1>2. UNCHANGED <<clock, phoneSide, fresh, guard, aim, content, purged>>
  BY DEF CheckFetch
<1>3. WatchShowsOneRelationship'
  BY <1>2 DEF WatchInv, WatchShowsOneRelationship, Readable
<1>4. /\ clock' \in Nat \ {0} /\ guard' = guard /\ guard' \in Guards /\ aim' \in Aims
      /\ content' \in [Kinds -> SUBSET Owners]
  BY <1>2, WatchState
<1>5. UNCHANGED <<phoneSide, fresh, purged>>
  BY <1>2
<1> QED BY <1>1, <1>3, <1>4, <1>5, WatchAlone

\* ... and it is stored if the guard still vouches for its owner.
LEMMA StorePhotoKeeps == ASSUME WatchInv, NEW f \in fetches, StorePhoto(f) PROVE WatchInv'
<1> USE WatchNames, WatchState
<1> DEFINE t == ExpireTransition(guard)
<1>1. f.owner \in Owners /\ fetches' \subseteq [owner : Owners, checked : BOOLEAN]
  BY DEF StorePhoto
<1>2. UNCHANGED <<clock, phoneSide, fresh, purged>>
  BY DEF StorePhoto
<1>t. clock' \in Nat \ {0} /\ UNCHANGED <<phoneSide, fresh, purged>>
  BY <1>2
<1>3. CASE t.accepted
  <2>1. Readable(guard) /\ t.state = [guard EXCEPT !.status = "EXPIRED"] /\ t.clear = TRUE
    BY <1>3 DEF ExpireTransition, Granted, Refused
  <2>2. guard' = [guard EXCEPT !.status = "EXPIRED"]
    BY <1>3, <2>1 DEF StorePhoto, StateAfter
  <2>3. guard'.status = "EXPIRED"
    BY <2>2 DEF Guards
  <2>4. content' = Cleared
    BY <2>1, <2>3 DEF StorePhoto, PhotoAuthorized, After
  <2>5. aim' = [aim EXCEPT !.controlled = FALSE]
    BY <1>3 DEF StorePhoto, Aims
  <2> QED BY <1>1, <1>2, <2>1, <2>2, <2>4, <2>5, ClearedContent, WatchAlone
<1>4. CASE ~t.accepted
  <2>1. t = Refused(guard)
    BY <1>4 DEF ExpireTransition, Granted
  <2>2. guard' = guard /\ After(t, content) = content
    BY <2>1 DEF StorePhoto, StateAfter, Refused, After
  <2>3. aim' \in Aims
    <3>1. aim.controlled \in BOOLEAN
      BY DEF Aims
    <3>2. (aim.controlled /\ ~t.accepted) \in BOOLEAN
      OBVIOUS
    <3>3. aim' = [aim EXCEPT !.controlled = aim.controlled /\ ~t.accepted]
      BY DEF StorePhoto
    <3> QED BY <3>2, <3>3, Zenon DEF Aims
  <2>4. CASE ~PhotoAuthorized(guard', f.owner)
    <3>1. content' = content
      BY <2>2, <2>4 DEF StorePhoto
    <3>2. WatchShowsOneRelationship'
      BY <2>2, <3>1 DEF WatchInv, WatchShowsOneRelationship, Readable
    <3>3. guard' = guard /\ guard' \in Guards /\ content' \in [Kinds -> SUBSET Owners]
      BY <2>2, <3>1
    <3> QED BY <1>1, <1>t, <2>3, <3>2, <3>3, WatchAlone
  <2>5. CASE PhotoAuthorized(guard', f.owner)
    <3>1. content' = [content EXCEPT !["photo"] = {f.owner}]
      BY <2>5 DEF StorePhoto
    <3>2. /\ content' \in [Kinds -> SUBSET Owners]
          /\ \A k \in Kinds : \A o \in content'[k] : o \in content[k] \/ o = f.owner
      BY <1>1, <3>1
    <3>3. Readable(guard) /\ f.owner.rel = guard.rel /\ f.owner.gen = guard.gen
      BY <2>2, <2>5 DEF PhotoAuthorized, Readable
    <3>4. WatchShowsOneRelationship'
      BY <2>2, <3>2, <3>3 DEF WatchInv, WatchShowsOneRelationship, Readable
    <3>5. guard' = guard /\ guard' \in Guards /\ content' \in [Kinds -> SUBSET Owners]
      BY <2>2, <3>2
    <3> QED BY <1>1, <1>t, <2>3, <3>4, <3>5, WatchAlone
  <2> QED BY <2>4, <2>5
<1> QED BY <1>3, <1>4

\* Content whose authority is a day old goes.
LEMMA ExpireKeeps == ASSUME WatchInv, Expire PROVE WatchInv'
<1>1. Readable(guard) /\ guard' = [guard EXCEPT !.status = "EXPIRED"]
  BY DEF Expire, ExpireTransition, Granted, Refused
<1>2. content' = Cleared /\ aim' = [aim EXCEPT !.controlled = FALSE]
      /\ UNCHANGED <<clock, phoneSide, fresh, fetches, purged>>
  BY DEF Expire
<1> QED BY <1>1, <1>2, WatchState, ClearedContent, WatchAlone

\* An action is queued under the guard's own authority.
LEMMA QueueActionKeeps == ASSUME WatchInv, QueueAction PROVE WatchInv'
<1> USE WatchNames, WatchState
<1> DEFINE n == [rel |-> guard.rel, gen |-> guard.gen, wgen |-> aim.gen]
<1>1. n \in Owners /\ n.rel = guard.rel /\ n.gen = guard.gen
  BY DEF Owners, Guards, Aims
<1>2. Readable(guard) /\ content' = [content EXCEPT !["queue"] = content["queue"] \cup {n}]
      /\ UNCHANGED <<clock, phoneSide, fresh, guard, aim, fetches, purged>>
  BY DEF QueueAction
<1> HIDE DEF n
<1>3. /\ content' \in [Kinds -> SUBSET Owners]
      /\ \A k \in Kinds : \A o \in content'[k] : o \in content[k] \/ o = n
  BY <1>1, <1>2
<1>4. WatchShowsOneRelationship'
  BY <1>1, <1>2, <1>3 DEF WatchInv, WatchShowsOneRelationship, Readable
<1> QED BY <1>2, <1>3, <1>4, WatchAlone

\* The clock.
LEMMA WatchTickKeeps == ASSUME WatchInv, WatchTick \/ UNCHANGED watchVars PROVE WatchInv'
<1>1. UNCHANGED <<phoneSide, fresh, watchSide>> /\ clock' \in Nat \ {0}
  BY WatchState DEF WatchTick, watchVars, phoneSide, watchSide
<1>2. WatchShowsOneRelationship'
  BY <1>1 DEF WatchInv, WatchShowsOneRelationship, Readable, watchSide
<1>3. /\ guard' = guard /\ guard' \in Guards /\ aim' \in Aims
      /\ content' \in [Kinds -> SUBSET Owners] /\ UNCHANGED <<phoneSide, fresh, purged>>
      /\ fetches' \subseteq [owner : Owners, checked : BOOLEAN]
  BY <1>1, WatchState DEF watchSide
<1> QED BY <1>1, <1>2, <1>3, WatchAlone

\* Every step keeps the invariant.
LEMMA WatchNextKeeps == ASSUME WatchInv, [WatchNext]_watchVars PROVE WatchInv'
<1>1. ASSUME SignOut \/ RefreshStart \/ RefreshCheck \/ RefreshPublish \/ RemoveWatch PROVE WatchInv'
  BY <1>1, SignOutKeeps, RefreshStartKeeps, RefreshCheckKeeps, RefreshPublishKeeps, RemoveWatchKeeps
<1>2. ASSUME NEW n \in {Local, OtherWatch}, SelectWatch(n) PROVE WatchInv'
  BY <1>2, SelectWatchKeeps
<1>3. ASSUME NEW p \in Paths, Deliver(p) PROVE WatchInv'
  BY <1>3, DeliverKeeps
<1>4. ASSUME NEW f \in fetches, CheckFetch(f) \/ StorePhoto(f) PROVE WatchInv'
  BY <1>4, CheckFetchKeeps, StorePhotoKeeps
<1>5. ASSUME Expire \/ QueueAction \/ WatchTick \/ UNCHANGED watchVars PROVE WatchInv'
  BY <1>5, ExpireKeeps, QueueActionKeeps, WatchTickKeeps
<1> QED BY <1>1, <1>2, <1>3, <1>4, <1>5 DEF WatchNext

\* A guard that vouches is not at a purged generation, and one that has seen the last
\* purge has no reason left to vouch.
LEMMA FaithFollows == ASSUME WatchInv PROVE WatchIsFaithful
<1> USE WatchNames, PhoneState, WatchState
<1>1. guard.gen \in Nat /\ purged <= guard.gen /\ guard.gen <= identity.gen
      /\ (purged > 0 /\ guard.gen = purged => guard.status = "PURGED")
  BY DEF WatchInv, GuardFollows, Guards
<1>2. NothingOutlivesItsPurge
  BY <1>1 DEF WatchInv, WatchShowsOneRelationship, NothingOutlivesItsPurge, Readable
<1>3. QuietWatchIsClean
  <2>1. SUFFICES ASSUME fresh = {}, ~identity.active \/ managed.node # Local,
                        NEW k \in Kinds, NEW o \in content[k]
                 PROVE  o.gen = 0
    BY DEF QuietWatchIsClean
  <2>2. LastPurge = purged
    BY <2>1 DEF LastPurge
  <2>3. guard.gen <= purged
    BY <1>1, <2>1, <2>2 DEF WatchInv, GuardFollows
  <2>4. Readable(guard) /\ o.gen = guard.gen
    BY <2>1 DEF WatchInv, WatchShowsOneRelationship
  <2> QED BY <1>1, <2>3, <2>4 DEF Readable
<1> QED BY <1>2, <1>3 DEF WatchIsFaithful, WatchInv

\* The watch keeps faith with the phone: what it shows is of one relationship and generation,
\* nothing survives or follows its purge, and once all has arrived a watch that should be
\* empty is empty (WearRelationshipPolicy, WearControllerPolicy, WearSyncService).
THEOREM WatchFaithful == WatchSpec => []WatchIsFaithful
<1>1. WatchInv /\ [WatchNext]_watchVars => WatchInv'
  BY WatchNextKeeps
<1> QED BY <1>1, WatchInitInv, FaithFollows, PTL DEF WatchSpec

-----------------------------------------------------------------------------
(* Countdowns.  What an edit replaces depends on what its author saw, so   *)
(* the invariant follows versions: each one a phone shows, or an edit was  *)
(* made of, is the countdown's own or older, or never reached the server  *)
(* and is in the hands of the one edit that could still bring it there.    *)
(* An edit is sent again with the same identity, so the server recognises  *)
(* it; copies of an edit therefore never differ in their target.           *)

EditRows == [op : CountdownOps, kind : {"create", "update", "delete"}, id : Ids,
             expected : Int, content : CountdownOps, basis : Int]
HistoryRows == [op : CountdownOps, kind : {"create", "update", "delete"}, basis : Int,
                wrote : CountdownOps, replaced : Ids]
CacheRows == [pending : BOOLEAN, conflict : BOOLEAN, content : Int, rev : Int]

CountdownsTyped ==
    /\ countdowns \in [Ids -> CountdownRow] /\ history \in Seq(HistoryRows)
    /\ cache \in [Keys -> CacheRows] /\ screen \in [Keys -> CacheRows]
    /\ queue \subseteq EditRows /\ batch \subseteq EditRows
    /\ answer \in [op : Nat, ok : BOOLEAN, row : CacheRows]
    /\ issued \in [phone : 0..PhoneOps, partner : 0..PartnerOps]

Waiting == queue \cup batch
PhonesOwn(n) == n \in 1..issued.phone
Numbered(n) == PhonesOwn(n) \/ n \in (PhoneOps + 1)..(PhoneOps + issued.partner)
Wrote(c) == \E j \in DOMAIN history : history[j].wrote = c

\* Operations and contents have been issued; copies of an edit have one target.
EditsNumbered ==
    /\ \A q \in Waiting : PhonesOwn(q.op) /\ PhonesOwn(q.content)
    /\ \A j \in DOMAIN history : Numbered(history[j].op) /\ Numbered(history[j].wrote)
    /\ \A p, q \in Waiting : p.op = q.op => Target(p) = Target(q)

\* A countdown exists since its creation took effect.
CountdownsExist ==
    /\ \A i \in Ids \ {0} : countdowns[i].there => Recorded(i)
    /\ \A q \in Waiting : Recorded(q.op) => countdowns[Target(q)].there

\* A version a phone knows is the countdown's own, or older; or it is one that never
\* reached the server, and only the edit that made it could still bring it there.
Actual(i, r, c) ==
    r < countdowns[i].rev \/ (r = countdowns[i].rev /\ c = countdowns[i].content)
Promised(i, r, c) ==
    /\ PhonesOwn(c) /\ ~Wrote(c)
    /\ \A q \in Waiting : q.content = c => q.kind = "update" /\ q.id = i /\ q.expected = r - 1
Known(i, r, c) == countdowns[i].there /\ (Actual(i, r, c) \/ Promised(i, r, c))

Sight(row, i) == row.rev >= 0 => Known(i, row.rev, row.content)
Shown(row, i) == row \in {cache[Key("srv", i)], screen[Key("srv", i)]}
SightsKnown ==
    /\ \A i \in Ids, row \in CacheRows : Shown(row, i) => Sight(row, i)
    /\ \A q \in Waiting : q.kind = "update" => Known(q.id, q.expected, q.basis)

\* A success stands for a recorded operation and carries what its row is or was.
AnswersTrue ==
    /\ answer # NoAnswer => batch # {}
    /\ answer # NoAnswer /\ answer.ok =>
          \A q \in batch, row \in CacheRows : AtRow(q) =>
              Recorded(q.op) /\ (row = answer.row => Sight(row, Target(q)))

\* What an update replaced is what its author saw, or its author saw a version that will
\* never have existed on the server.
UpdatesHonest ==
    \A j \in DOMAIN history :
        LET e == history[j] IN
        e.kind = "update" =>
            \/ e.replaced = e.basis
            \/ /\ PhonesOwn(e.basis) /\ ~Wrote(e.basis)
               /\ \A q \in Waiting : q.content = e.basis =>
                     q.kind = "update" /\ q.expected < countdowns[q.id].rev

CountdownInv ==
    /\ CountdownsTyped /\ EditsNumbered /\ CountdownsExist /\ SightsKnown /\ AnswersTrue
    /\ UpdatesHonest /\ EditsTakeEffectOnce /\ NoEditVanishes

LEMMA CountdownNumbers == PhoneOps \in Nat /\ PartnerOps \in Nat
BY CountdownAssumption

LEMMA CountdownInvImplies == CountdownInv => EditsCountOnce
<1> USE CountdownNumbers
<1>1. ASSUME CountdownInv PROVE ConfirmedVersionsNotOverwritten
  BY <1>1 DEF CountdownInv, UpdatesHonest, ConfirmedVersionsNotOverwritten, Wrote, PhonesOwn
<1> QED BY <1>1 DEF CountdownInv, EditsCountOnce

-----------------------------------------------------------------------------
(* The server.                                                              *)

\* An edit that reaches the server.
Sendable(q) ==
    /\ q \in EditRows /\ Numbered(q.op)' /\ Numbered(q.content)'
    /\ q \in Waiting \/ (~PhonesOwn(q.op) /\ ~PhonesOwn(q.content))
    /\ q.kind = "update" => Known(q.id, q.expected, q.basis)

ServerMoves ==
    \/ UNCHANGED serverVars
    \/ \E q \in EditRows : Sendable(q) /\ Accepted(q) /\ Handle(q)

\* What happens to the phone's edits: none comes whose content was already issued.
WaitingGrows == \A q \in Waiting' : q \in Waiting \/ ~PhonesOwn(q.content)
IssuedGrows ==
    /\ issued' \in [phone : 0..PhoneOps, partner : 0..PartnerOps]
    /\ issued'.phone >= issued.phone /\ issued'.partner >= issued.partner

LEMMA HistoryGrows ==
    ASSUME NEW e \in HistoryRows, history \in Seq(HistoryRows), history' = Append(history, e)
    PROVE  /\ history' \in Seq(HistoryRows)
           /\ \A j \in DOMAIN history : j \in DOMAIN history' /\ history'[j] = history[j]
           /\ \E n \in DOMAIN history' : history'[n] = e
           /\ \A j \in DOMAIN history' : j \in DOMAIN history \/ history'[j] = e
           /\ \A i, j \in DOMAIN history' : i \notin DOMAIN history /\ j \notin DOMAIN history => i = j
<1> DEFINE n == Len(history)
<1>1. n \in Nat /\ DOMAIN history = 1..n
  BY LenProperties
<1>2. /\ history' \in Seq(HistoryRows) /\ Len(history') = n + 1
      /\ \A j \in 1..n : history'[j] = history[j]
      /\ history'[n + 1] = e
  BY AppendProperties
<1>3. DOMAIN history' = 1..(n + 1)
  BY <1>2, LenProperties
<1> QED BY <1>1, <1>2, <1>3

\* The row an accepted edit writes.
LEMMA RowWritten ==
    ASSUME CountdownsTyped, CountdownsExist, NEW q \in EditRows, Accepted(q)
    PROVE  /\ Target(q) \in Ids /\ Written(q) \in CountdownRow /\ Written(q).there
           /\ countdowns[Target(q)].there => Written(q).rev = countdowns[Target(q)].rev + 1
           /\ q.kind = "update" => /\ Target(q) = q.id /\ countdowns[q.id].there
                                   /\ countdowns[q.id].rev = q.expected
                                   /\ Written(q).content = q.content
           /\ OperationOf(q) \in HistoryRows /\ OperationOf(q).op = q.op
           /\ OperationOf(q).kind = q.kind /\ OperationOf(q).basis = q.basis
           /\ OperationOf(q).wrote = q.content
           /\ OperationOf(q).replaced = countdowns[Target(q)].content
           /\ q.kind = "create" => Target(q) = q.op /\ ~countdowns[q.op].there
<1> USE CountdownNumbers
<1>0. /\ q.op \in CountdownOps /\ q.kind \in {"create", "update", "delete"} /\ q.id \in Ids
      /\ q.expected \in Int /\ q.content \in CountdownOps /\ q.basis \in Int
  BY DEF EditRows
<1>1. Target(q) \in Ids /\ CountdownOps \subseteq Ids \ {0}
  BY <1>0 DEF Target, CountdownOps, Ids
<1>2. /\ countdowns[Target(q)] \in CountdownRow /\ countdowns[q.id] \in CountdownRow
  BY <1>0, <1>1 DEF CountdownsTyped
<1>3. q.kind = "create" => Target(q) = q.op /\ ~countdowns[q.op].there
  BY <1>0, <1>1 DEF Target, Accepted, CountdownsExist
<1>4. q.kind # "create" => Target(q) = q.id /\ countdowns[q.id].there
  BY <1>0 DEF Target, Accepted
<1>5. q.kind = "update" => countdowns[q.id].rev = q.expected
  BY DEF Accepted
<1>6. CASE q.kind = "create"
  <2>1. Written(q) = [there |-> TRUE, deleted |-> FALSE, rev |-> 0, content |-> q.content]
    BY <1>6 DEF Written, Created
  <2>2. Written(q) \in CountdownRow /\ Written(q).there
    BY <1>0, <1>1, <2>1 DEF CountdownRow
  <2> QED BY <1>1, <1>3, <1>6, <2>2, <1>0, <1>2 DEF OperationOf, HistoryRows, CountdownRow
<1>7. CASE q.kind = "update"
  <2> DEFINE old == countdowns[q.id]
  <2>0. Written(q) = [old EXCEPT !.rev = old.rev + 1, !.content = q.content]
    BY <1>7 DEF Written, Updated
  <2>a. old \in CountdownRow
    BY <1>2
  <2>b. old.rev + 1 \in Nat
    BY <2>a DEF CountdownRow
  <2> HIDE DEF old
  <2>1. Written(q) = [there |-> old.there, deleted |-> old.deleted, rev |-> old.rev + 1,
                      content |-> q.content]
    BY <2>0, <2>a DEF CountdownRow
  <2>2. /\ Written(q) \in CountdownRow /\ Written(q).there = countdowns[q.id].there
        /\ Written(q).rev = countdowns[q.id].rev + 1 /\ Written(q).content = q.content
    BY <1>0, <1>1, <2>1, <2>a, <2>b DEF CountdownRow, old
  <2> QED BY <1>1, <1>4, <1>5, <1>7, <2>2, <1>0, <1>2 DEF OperationOf, HistoryRows, CountdownRow
<1>8. CASE q.kind = "delete"
  <2> DEFINE old == countdowns[q.id]
  <2>0. Written(q) = [old EXCEPT !.rev = old.rev + 1, !.deleted = TRUE]
    BY <1>8 DEF Written, Deleted
  <2>a. old \in CountdownRow
    BY <1>2
  <2>b. old.rev + 1 \in Nat
    BY <2>a DEF CountdownRow
  <2> HIDE DEF old
  <2>1. Written(q) = [there |-> old.there, deleted |-> TRUE, rev |-> old.rev + 1,
                      content |-> old.content]
    BY <2>0, <2>a DEF CountdownRow
  <2>2. /\ Written(q) \in CountdownRow /\ Written(q).there = countdowns[q.id].there
        /\ Written(q).rev = countdowns[q.id].rev + 1
    BY <2>1, <2>a, <2>b DEF CountdownRow, old
  <2> QED BY <1>1, <1>4, <1>8, <2>2, <1>0, <1>2 DEF OperationOf, HistoryRows, CountdownRow
<1> QED BY <1>0, <1>6, <1>7, <1>8

ServerParts ==
    /\ countdowns \in [Ids -> CountdownRow] /\ history \in Seq(HistoryRows)
    /\ \A j \in DOMAIN history : Numbered(history[j].op) /\ Numbered(history[j].wrote)
    /\ \A i \in Ids \ {0} : countdowns[i].there => Recorded(i)
    /\ EditsTakeEffectOnce

\* Countdowns stay and their revisions grow; the record only grows.
RowsGrow ==
    \A i \in Ids : countdowns[i].there =>
        /\ countdowns'[i].there
        /\ countdowns'[i] = countdowns[i] \/ countdowns'[i].rev > countdowns[i].rev

\* Operation o has taken effect in this step.
JustRecorded(o) ==
    \E q \in EditRows : Sendable(q) /\ q.op = o /\ countdowns'[Target(q)].there

LEMMA ServerKeeps ==
    ASSUME CountdownInv, ServerMoves, WaitingGrows, IssuedGrows
    PROVE  /\ ServerParts' /\ RowsGrow /\ UpdatesHonest'
           /\ \A o : Recorded(o) => Recorded(o)'
           /\ \A o : Recorded(o)' => Recorded(o) \/ JustRecorded(o)
           /\ \A i \in Ids, r \in Int : \A c : Known(i, r, c) => Known(i, r, c)'
<1> USE CountdownNumbers
<1>0. /\ CountdownsTyped /\ CountdownsExist /\ EditsNumbered /\ EditsTakeEffectOnce /\ UpdatesHonest
      /\ issued.phone \in Nat /\ issued.partner \in Nat
  BY DEF CountdownInv, CountdownsTyped
<1>1. \A n : (PhonesOwn(n) => PhonesOwn(n)') /\ (Numbered(n) => Numbered(n)')
  BY <1>0 DEF IssuedGrows, PhonesOwn, Numbered
<1>2. CASE UNCHANGED serverVars
  <2>1. countdowns' = countdowns /\ history' = history
    BY <1>2 DEF serverVars
  <2>2. (\A o : Recorded(o)' <=> Recorded(o)) /\ (\A c : Wrote(c)' <=> Wrote(c))
    BY <2>1 DEF Recorded, Wrote
  <2>3. ServerParts' /\ RowsGrow
    BY <1>0, <1>1, <2>1, <2>2
       DEF ServerParts, CountdownsTyped, CountdownsExist, EditsNumbered, EditsTakeEffectOnce, RowsGrow
  <2>4. UpdatesHonest'
    BY <1>0, <1>1, <2>1, <2>2 DEF UpdatesHonest, WaitingGrows
  <2>5. \A i \in Ids, r \in Int : \A c : Known(i, r, c) => Known(i, r, c)'
    BY <1>1, <2>1, <2>2 DEF Known, Actual, Promised, WaitingGrows
  <2> QED BY <2>2, <2>3, <2>4, <2>5
<1>3. CASE \E q \in EditRows : Sendable(q) /\ Accepted(q) /\ Handle(q)
  <2>1. PICK q \in EditRows : Sendable(q) /\ Accepted(q) /\ Handle(q)
    BY <1>3
  <2> DEFINE t == Target(q)
             e == OperationOf(q)
  <2>2. /\ t \in Ids /\ Written(q) \in CountdownRow /\ Written(q).there
        /\ countdowns[t].there => Written(q).rev = countdowns[t].rev + 1
        /\ q.kind = "update" => /\ t = q.id /\ countdowns[q.id].there
                                /\ countdowns[q.id].rev = q.expected
                                /\ Written(q).content = q.content
        /\ e \in HistoryRows /\ e.op = q.op /\ e.kind = q.kind /\ e.basis = q.basis
        /\ e.wrote = q.content /\ e.replaced = countdowns[t].content
        /\ q.kind = "create" => t = q.op /\ ~countdowns[q.op].there
    BY <1>0, <2>1, RowWritten
  <2>3. countdowns' = [countdowns EXCEPT ![t] = Written(q)] /\ history' = Append(history, e)
    BY <2>1 DEF Handle
  <2>4. ~Recorded(q.op)
    BY <2>1 DEF Accepted
  <2> HIDE DEF t, e
  <2>5. /\ countdowns'[t] = Written(q) /\ \A i \in Ids \ {t} : countdowns'[i] = countdowns[i]
        /\ countdowns' \in [Ids -> CountdownRow]
    BY <1>0, <2>2, <2>3 DEF CountdownsTyped
  <2>6. /\ history' \in Seq(HistoryRows)
        /\ \A j \in DOMAIN history : j \in DOMAIN history' /\ history'[j] = history[j]
        /\ \E n \in DOMAIN history' : history'[n] = e
        /\ \A j \in DOMAIN history' : j \in DOMAIN history \/ history'[j] = e
        /\ \A i, j \in DOMAIN history' : i \notin DOMAIN history /\ j \notin DOMAIN history => i = j
    BY <1>0, <2>2, <2>3, HistoryGrows DEF CountdownsTyped
  <2>7. \A o : Recorded(o)' <=> Recorded(o) \/ o = q.op
    BY <2>2, <2>6 DEF Recorded
  <2>8. \A c : Wrote(c)' <=> Wrote(c) \/ c = q.content
    BY <2>2, <2>6 DEF Wrote
  <2>9. \A i \in Ids : countdowns[i] \in CountdownRow /\ countdowns[i].rev \in Nat
    BY <1>0 DEF CountdownsTyped, CountdownRow
  <2>10. RowsGrow
    BY <2>2, <2>5, <2>9 DEF RowsGrow
  <2>11. ServerParts'
    <3>0. /\ Numbered(q.op)' /\ Numbered(q.content)'
          /\ \A j \in DOMAIN history : Numbered(history[j].op) /\ Numbered(history[j].wrote)
      BY <1>0, <2>1 DEF EditsNumbered, Sendable
    <3>1. (\A j \in DOMAIN history : Numbered(history[j].op) /\ Numbered(history[j].wrote))'
      <4> SUFFICES ASSUME NEW j \in DOMAIN history'
                   PROVE  (Numbered(history[j].op) /\ Numbered(history[j].wrote))'
        OBVIOUS
      <4>1. CASE j \in DOMAIN history
        <5>1. history'[j] = history[j]
          BY <2>6, <4>1
        <5>2. Numbered(history[j].op) /\ Numbered(history[j].wrote)
          BY <3>0, <4>1
        <5>3. /\ issued'.phone \in Nat /\ issued'.partner \in Nat
              /\ issued'.phone >= issued.phone /\ issued'.partner >= issued.partner
          BY DEF IssuedGrows
        <5> QED BY <1>0, <5>1, <5>2, <5>3 DEF Numbered, PhonesOwn
      <4>2. CASE j \notin DOMAIN history
        <5>1. history'[j].op = q.op /\ history'[j].wrote = q.content
          BY <2>2, <2>6, <4>2
        <5> QED BY <3>0, <5>1 DEF Numbered, PhonesOwn
      <4> QED BY <4>1, <4>2
    <3>2. ASSUME NEW i \in Ids \ {0}, countdowns'[i].there PROVE Recorded(i)'
      <4>1. CASE i # t
        BY <1>0, <2>5, <2>7, <3>2, <4>1 DEF CountdownsExist
      <4>2. CASE i = t /\ q.kind = "create"
        BY <2>2, <2>7, <4>2
      <4>3. CASE i = t /\ q.kind # "create"
        <5>1. countdowns[t].there
          BY <2>1, <4>3 DEF Accepted, Target, t
        <5> QED BY <1>0, <2>7, <4>3, <5>1 DEF CountdownsExist
      <4> QED BY <4>1, <4>2, <4>3
    <3>3. EditsTakeEffectOnce'
      <4> SUFFICES ASSUME NEW i \in DOMAIN history', NEW j \in DOMAIN history',
                          history'[i].op = history'[j].op
                   PROVE  i = j
        BY DEF EditsTakeEffectOnce
      <4>1. CASE i \in DOMAIN history /\ j \in DOMAIN history
        BY <1>0, <2>6, <4>1 DEF EditsTakeEffectOnce
      <4>2. CASE i \in DOMAIN history /\ j \notin DOMAIN history
        BY <2>2, <2>4, <2>6, <4>2 DEF Recorded
      <4>3. CASE i \notin DOMAIN history /\ j \in DOMAIN history
        BY <2>2, <2>4, <2>6, <4>3 DEF Recorded
      <4>4. CASE i \notin DOMAIN history /\ j \notin DOMAIN history
        BY <2>6, <4>4
      <4> QED BY <4>1, <4>2, <4>3, <4>4
    <3> QED BY <2>5, <2>6, <3>1, <3>2, <3>3 DEF ServerParts
  <2>12. ASSUME NEW i \in Ids, NEW r \in Int, NEW c, Known(i, r, c) PROVE Known(i, r, c)'
    <3>1. countdowns'[i].there
      BY <2>10, <2>12 DEF Known, RowsGrow
    <3>2. CASE Actual(i, r, c)
      <4>1. countdowns'[i] = countdowns[i] \/ countdowns'[i].rev > countdowns[i].rev
        BY <2>10, <2>12 DEF Known, RowsGrow
      <4>2. countdowns'[i].rev \in Nat
        BY <2>5 DEF CountdownRow
      <4>3. Actual(i, r, c)'
        BY <2>9, <3>2, <4>1, <4>2 DEF Actual
      <4> QED BY <3>1, <4>3 DEF Known
    <3>3. CASE Promised(i, r, c) /\ q.content = c
      <4>1. q \in Waiting
        BY <2>1, <3>3 DEF Sendable, Promised
      <4>2. q.kind = "update" /\ q.id = i /\ q.expected = r - 1
        BY <3>3, <4>1 DEF Promised
      <4>3. countdowns'[i].rev = r /\ countdowns'[i].content = c
        BY <2>2, <2>5, <2>9, <3>3, <4>2
      <4> QED BY <3>1, <4>3 DEF Known, Actual
    <3>4. CASE Promised(i, r, c) /\ q.content # c
      <4>1. Promised(i, r, c)'
        BY <1>1, <2>8, <3>4 DEF Promised, WaitingGrows
      <4> QED BY <3>1, <4>1 DEF Known
    <3> QED BY <2>12, <3>2, <3>3, <3>4 DEF Known
  <2>13. UpdatesHonest'
    <3> SUFFICES ASSUME NEW j \in DOMAIN history', history'[j].kind = "update",
                        history'[j].replaced # history'[j].basis
                 PROVE  /\ history'[j].basis \in 1..issued'.phone
                        /\ \A n \in DOMAIN history' : history'[n].wrote # history'[j].basis
                        /\ \A p \in Waiting' : p.content = history'[j].basis =>
                              p.kind = "update" /\ p.expected < countdowns'[p.id].rev
      BY DEF UpdatesHonest, PhonesOwn, Wrote
    <3>0. \A p \in EditRows : p.id \in Ids /\ p.expected \in Int
      BY DEF EditRows
    <3>1. CASE j \in DOMAIN history
      <4> DEFINE b == history[j].basis
      <4>1. history'[j].basis = b /\ history[j].kind = "update" /\ history[j].replaced # b
        BY <2>6, <3>1
      <4>2. /\ PhonesOwn(b) /\ ~Wrote(b)
            /\ \A p \in Waiting : p.content = b => p.kind = "update" /\ p.expected < countdowns[p.id].rev
        BY <1>0, <3>1, <4>1 DEF UpdatesHonest
      <4> HIDE DEF b
      <4>3. q.content # b
        <5>1. CASE q \in Waiting
          BY <2>2, <2>9, <3>0, <4>2, <5>1
        <5>2. CASE q \notin Waiting
          BY <2>1, <4>2, <5>2 DEF Sendable
        <5> QED BY <5>1, <5>2
      <4>4. ASSUME NEW p \in Waiting', p.content = b
            PROVE  p.kind = "update" /\ p.expected < countdowns'[p.id].rev
        <5>1. p \in Waiting
          BY <4>2, <4>4 DEF WaitingGrows
        <5>2. p.kind = "update" /\ p.expected < countdowns[p.id].rev
          BY <4>2, <4>4, <5>1
        <5>3. p.id \in Ids /\ p.expected \in Int
          BY <1>0, <3>0, <5>1 DEF CountdownsTyped, Waiting
        <5>4. countdowns[p.id].rev <= countdowns'[p.id].rev
          <6>1. countdowns'[p.id].rev \in Nat
            BY <2>5, <5>3 DEF CountdownRow
          <6>2. CASE p.id # t
            BY <2>5, <2>9, <5>3, <6>2
          <6>3. CASE p.id = t /\ countdowns[t].there
            BY <2>2, <2>5, <2>9, <5>3, <6>3
          <6>4. CASE p.id = t /\ ~countdowns[t].there
            <7>1. Known(p.id, p.expected, p.basis)
              BY <5>1, <5>2 DEF CountdownInv, SightsKnown
            <7> QED BY <6>4, <7>1 DEF Known
          <6> QED BY <6>2, <6>3, <6>4
        <5>5. countdowns'[p.id].rev \in Nat /\ countdowns[p.id].rev \in Nat
          BY <2>5, <2>9, <5>3 DEF CountdownRow
        <5> QED BY <5>2, <5>3, <5>4, <5>5
      <4>5. b \in 1..issued'.phone
        BY <1>0, <4>2 DEF PhonesOwn, IssuedGrows
      <4>6. \A n \in DOMAIN history' : history'[n].wrote # b
        BY <2>8, <4>2, <4>3 DEF Wrote
      <4> QED BY <4>1, <4>4, <4>5, <4>6 DEF b
    <3>2. CASE j \notin DOMAIN history
      <4>1. history'[j] = e /\ q.kind = "update" /\ countdowns[t].content # q.basis
        BY <2>2, <2>6, <3>2
      <4>2. Known(q.id, q.expected, q.basis) /\ countdowns[q.id].rev = q.expected
        BY <2>1, <2>2, <4>1 DEF Sendable
      <4>3. Promised(q.id, q.expected, q.basis)
        BY <2>2, <2>9, <3>0, <4>1, <4>2 DEF Known, Actual
      <4>4. q.content # q.basis
        <5>1. CASE q \in Waiting
          BY <3>0, <4>3, <5>1 DEF Promised
        <5>2. CASE q \notin Waiting
          BY <2>1, <4>3, <5>2 DEF Sendable, Promised
        <5> QED BY <5>1, <5>2
      <4>5. countdowns'[q.id].rev = q.expected + 1
        BY <2>2, <2>5, <4>1
      <4>6. ASSUME NEW p \in Waiting', p.content = q.basis
            PROVE  p.kind = "update" /\ p.expected < countdowns'[p.id].rev
        <5>1. p \in Waiting
          BY <4>3, <4>6 DEF WaitingGrows, Promised
        <5>2. p.kind = "update" /\ p.id = q.id /\ p.expected = q.expected - 1
          BY <4>3, <4>6, <5>1 DEF Promised
        <5> QED BY <3>0, <4>5, <5>2
      <4>7. PhonesOwn(q.basis)' /\ ~Wrote(q.basis)'
        BY <1>1, <2>8, <4>3, <4>4 DEF Promised
      <4>8. history'[j].basis = q.basis
        BY <2>2, <4>1
      <4> QED BY <4>6, <4>7, <4>8 DEF PhonesOwn, Wrote
    <3> QED BY <3>1, <3>2
  <2>14. JustRecorded(q.op)
    BY <2>1, <2>2, <2>5 DEF JustRecorded, t
  <2> QED BY <2>7, <2>10, <2>11, <2>12, <2>13, <2>14
<1> QED BY <1>2, <1>3 DEF ServerMoves

-----------------------------------------------------------------------------
(* The phone.                                                               *)

PhoneRowsTyped ==
    /\ cache \in [Keys -> CacheRows] /\ screen \in [Keys -> CacheRows]
    /\ queue \subseteq EditRows /\ batch \subseteq EditRows
    /\ answer \in [op : Nat, ok : BOOLEAN, row : CacheRows]

\* An edit made now, and a queued creation an edit was folded into.
FreshEdit(q) ==
    /\ q.op = NextOp /\ q.content = NextOp /\ NextOp \in 1..issued'.phone
    /\ Recorded(q.op)' => countdowns'[Target(q)].there
    /\ q.kind = "update" => Known(q.id, q.expected, q.basis)
FoldedEdit(q) ==
    /\ q.kind = "create" /\ q.content = NextOp /\ NextOp \in 1..issued'.phone
    /\ \E p \in Waiting : p.kind = "create" /\ p.op = q.op
NewEdits ==
    /\ \A q \in Waiting' : q \in EditRows /\ (q \in Waiting \/ FreshEdit(q) \/ FoldedEdit(q))
    /\ \A p, q \in Waiting' : FreshEdit(p) /\ FreshEdit(q) => p = q

RecordStays == \A o : Recorded(o) => Recorded(o)'
SightStays == \A i \in Ids, row \in CacheRows : Sight(row, i) => Sight(row, i)'
EditsStay ==
    /\ EditsNumbered' /\ CountdownsExist'
    /\ \A q \in Waiting' : q.kind = "update" => Known(q.id, q.expected, q.basis)'

LEMMA NextOpIsNew ==
    ASSUME CountdownInv
    PROVE  /\ NextOp \in Nat /\ ~PhonesOwn(NextOp) /\ \A q \in Waiting : q.op # NextOp /\ q.content # NextOp
           /\ NextOp <= PhoneOps => ~Recorded(NextOp) /\ ~Wrote(NextOp) /\ NextOp \in CountdownOps
<1> USE CountdownNumbers
<1>1. issued.phone \in Nat /\ issued.partner \in Nat /\ EditsNumbered
  BY DEF CountdownInv, CountdownsTyped
<1>2. NextOp = issued.phone + 1 /\ ~PhonesOwn(NextOp)
  BY <1>1 DEF NextOp, PhonesOwn
<1>3. \A q \in Waiting : q.op # NextOp /\ q.content # NextOp
  BY <1>1, <1>2 DEF EditsNumbered
<1>4. NextOp <= PhoneOps => ~Numbered(NextOp) /\ NextOp \in CountdownOps
  BY <1>1, <1>2 DEF Numbered, CountdownOps
<1> QED BY <1>1, <1>2, <1>3, <1>4 DEF EditsNumbered, Recorded, Wrote

LEMMA StepFacts ==
    ASSUME CountdownInv, ServerMoves, IssuedGrows, NewEdits
    PROVE  /\ ServerParts' /\ UpdatesHonest' /\ RecordStays /\ SightStays /\ EditsStay
           /\ UNCHANGED <<batch, answer>> => AnswersTrue'
<1> USE CountdownNumbers
<1>0. /\ CountdownsTyped /\ CountdownsExist /\ EditsNumbered /\ SightsKnown /\ AnswersTrue
      /\ issued.phone \in Nat /\ issued'.phone \in Nat /\ issued.phone <= issued'.phone
  BY DEF CountdownInv, CountdownsTyped, IssuedGrows
<1>1. WaitingGrows
  BY NextOpIsNew DEF WaitingGrows, NewEdits, FreshEdit, FoldedEdit
<1>2. /\ ServerParts' /\ RowsGrow /\ UpdatesHonest'
      /\ \A o : Recorded(o) => Recorded(o)'
      /\ \A o : Recorded(o)' => Recorded(o) \/ JustRecorded(o)
      /\ \A i \in Ids, r \in Int : \A c : Known(i, r, c) => Known(i, r, c)'
  BY <1>1, ServerKeeps
<1>3. \A q \in EditRows : /\ q.op \in CountdownOps /\ q.id \in Ids /\ q.expected \in Int
                          /\ Target(q) \in Ids
  BY DEF EditRows, Target, CountdownOps, Ids
<1>4. SightStays
  BY <1>2 DEF SightStays, Sight, CacheRows
<1>5. \A n : PhonesOwn(n) => PhonesOwn(n)'
  BY <1>0 DEF PhonesOwn
<1>6. ASSUME NEW p \in Waiting', NEW q \in Waiting', p.op = q.op PROVE Target(p) = Target(q)
  <2>1. /\ p \in Waiting \/ FreshEdit(p) \/ FoldedEdit(p)
        /\ q \in Waiting \/ FreshEdit(q) \/ FoldedEdit(q)
    BY DEF NewEdits
  <2>2. FoldedEdit(p) => \E x \in Waiting : x.op = p.op /\ Target(x) = Target(p)
    BY DEF FoldedEdit, Target
  <2>3. FoldedEdit(q) => \E x \in Waiting : x.op = q.op /\ Target(x) = Target(q)
    BY DEF FoldedEdit, Target
  <2>4. CASE FreshEdit(p) /\ FreshEdit(q)
    BY <2>4 DEF NewEdits
  <2>5. CASE ~FreshEdit(p) /\ ~FreshEdit(q)
    BY <1>0, <1>6, <2>1, <2>2, <2>3, <2>5 DEF EditsNumbered
  <2>6. CASE FreshEdit(p) /\ ~FreshEdit(q)
    BY <1>6, <2>1, <2>3, <2>6, NextOpIsNew DEF FreshEdit
  <2>7. CASE ~FreshEdit(p) /\ FreshEdit(q)
    BY <1>6, <2>1, <2>2, <2>7, NextOpIsNew DEF FreshEdit
  <2> QED BY <2>4, <2>5, <2>6, <2>7
<1>7. EditsNumbered'
  <2>1. ASSUME NEW q \in Waiting' PROVE PhonesOwn(q.op)' /\ PhonesOwn(q.content)'
    <3>1. CASE q \in Waiting
      BY <1>0, <1>5, <3>1 DEF EditsNumbered
    <3>2. CASE FreshEdit(q)
      BY <3>2 DEF FreshEdit, PhonesOwn
    <3>3. CASE FoldedEdit(q)
      BY <1>0, <1>5, <3>3 DEF FoldedEdit, PhonesOwn, EditsNumbered
    <3> QED BY <3>1, <3>2, <3>3 DEF NewEdits
  <2> QED BY <1>2, <1>6, <2>1 DEF EditsNumbered, ServerParts
<1>8. ASSUME NEW q \in Waiting', Recorded(q.op)' PROVE countdowns'[Target(q)].there
  <2>1. ASSUME NEW x \in Waiting, x.op = q.op, Target(x) = Target(q)
        PROVE  countdowns'[Target(q)].there
    <3>1. x \in EditRows
      BY <1>0 DEF CountdownsTyped, Waiting
    <3>2. CASE Recorded(q.op)
      BY <1>0, <1>2, <1>3, <2>1, <3>1, <3>2 DEF CountdownsExist, RowsGrow
    <3>3. CASE JustRecorded(q.op)
      <4>1. PICK y \in EditRows : Sendable(y) /\ y.op = q.op /\ countdowns'[Target(y)].there
        BY <3>3 DEF JustRecorded
      <4>2. y \in Waiting
        BY <1>0, <2>1, <4>1 DEF Sendable, EditsNumbered
      <4> QED BY <1>0, <2>1, <4>1, <4>2 DEF EditsNumbered
    <3> QED BY <1>2, <1>8, <3>2, <3>3
  <2>2. CASE q \in Waiting
    BY <2>1, <2>2
  <2>3. CASE FreshEdit(q)
    BY <1>8, <2>3 DEF FreshEdit
  <2>4. CASE FoldedEdit(q)
    BY <2>1, <2>4 DEF FoldedEdit, Target
  <2> QED BY <2>2, <2>3, <2>4 DEF NewEdits
<1>9. CountdownsExist'
  BY <1>2, <1>8 DEF CountdownsExist, ServerParts
<1>10. ASSUME NEW q \in Waiting', q.kind = "update" PROVE Known(q.id, q.expected, q.basis)'
  <2>1. Known(q.id, q.expected, q.basis)
    BY <1>0, <1>10 DEF NewEdits, FreshEdit, FoldedEdit, SightsKnown
  <2>2. q.id \in Ids /\ q.expected \in Int
    BY <1>3 DEF NewEdits
  <2> QED BY <1>2, <2>1, <2>2
<1>11. ASSUME UNCHANGED <<batch, answer>> PROVE AnswersTrue'
  <2>1. batch' = batch /\ answer' = answer /\ \A q : AtRow(q)' <=> AtRow(q)
    BY <1>11 DEF AtRow
  <2>2. \A q \in batch : Target(q) \in Ids
    BY <1>0, <1>3 DEF CountdownsTyped
  <2> QED BY <1>0, <1>2, <1>4, <2>1, <2>2 DEF AnswersTrue, SightStays
<1> QED BY <1>2, <1>4, <1>7, <1>9, <1>10, <1>11 DEF EditsStay, RecordStays

\* What is left to show of a step.
ScreensSound == \A i \in Ids, row \in CacheRows : Shown(row, i)' => Sight(row, i)'

LEMMA StepKeeps ==
    ASSUME CountdownInv, ServerMoves, IssuedGrows, NewEdits,
           PhoneRowsTyped', ScreensSound, AnswersTrue', NoEditVanishes'
    PROVE  CountdownInv'
<1>1. ServerParts' /\ UpdatesHonest' /\ EditsStay
  BY StepFacts
<1>2. CountdownsTyped'
  BY <1>1 DEF CountdownsTyped, PhoneRowsTyped, ServerParts, IssuedGrows
<1>3. SightsKnown'
  BY <1>1 DEF SightsKnown, ScreensSound, EditsStay
<1> QED BY <1>1, <1>2, <1>3 DEF CountdownInv, EditsStay, ServerParts

\* A step of the phone alone that makes no edit.
LEMMA QuietStep ==
    ASSUME CountdownInv, UNCHANGED <<countdowns, history, issued>>,
           Waiting' \subseteq Waiting, PhoneRowsTyped',
           \A i \in Ids, row \in CacheRows :
               Shown(row, i)' => Shown(row, i) \/ row = NoRow \/ Sight(row, i),
           AnswersTrue' \/ UNCHANGED <<batch, answer>>, NoEditVanishes'
    PROVE  CountdownInv'
<1>1. ServerMoves
  BY DEF ServerMoves, serverVars
<1>2. IssuedGrows
  BY CountdownNumbers DEF IssuedGrows, CountdownInv, CountdownsTyped
<1>3. NewEdits
  BY NextOpIsNew DEF NewEdits, FreshEdit, CountdownInv, CountdownsTyped, Waiting
<1>4. SightStays /\ (UNCHANGED <<batch, answer>> => AnswersTrue')
  BY <1>1, <1>2, <1>3, StepFacts
<1>5. \A i : Sight(NoRow, i)'
  BY DEF Sight, NoRow
<1>6. ScreensSound
  BY <1>4, <1>5 DEF ScreensSound, SightStays, CountdownInv, SightsKnown
<1> QED BY <1>1, <1>2, <1>3, <1>4, <1>6, StepKeeps

LEMMA RowsOfThePhone ==
    ASSUME CountdownsTyped
    PROVE  /\ NoRow \in CacheRows /\ NoAnswer \in [op : Nat, ok : BOOLEAN, row : CacheRows]
           /\ \A k \in Keys : Remote(k) \in CacheRows
           /\ \A i \in Ids : Key("srv", i) \in Keys /\ Key("local", i) \in Keys
           /\ \A i \in Ids : Sight(Remote(Key("srv", i)), i)
<1>1. NoRow \in CacheRows
  BY DEF NoRow, CacheRows
<1>2. NoAnswer \in [op : Nat, ok : BOOLEAN, row : CacheRows]
  BY <1>1 DEF NoAnswer
<1>3. \A i \in Ids : Key("srv", i) \in Keys /\ Key("local", i) \in Keys
  BY DEF Key, Keys
<1>4. \A i \in Ids : countdowns[i].content \in Int /\ countdowns[i].rev \in Int
  <2> TAKE i \in Ids
  <2>1. countdowns[i] \in CountdownRow
    BY DEF CountdownsTyped
  <2>2. countdowns[i].content \in Ids /\ countdowns[i].rev \in Nat
    BY <2>1 DEF CountdownRow
  <2> QED BY <2>2, CountdownNumbers DEF Ids
<1>5. \A k \in Keys : Remote(k) \in CacheRows
  <2> TAKE k \in Keys
  <2>1. k[2] \in Ids
    BY DEF Keys
  <2>2. Remote(k) = NoRow \/ Remote(k) = [pending |-> FALSE, conflict |-> FALSE,
                             content |-> countdowns[k[2]].content, rev |-> countdowns[k[2]].rev]
    BY DEF Remote, NoRow
  <2>3. countdowns[k[2]].content \in Int /\ countdowns[k[2]].rev \in Int
    BY <1>4, <2>1
  <2>4. \A c, r \in Int : [pending |-> FALSE, conflict |-> FALSE, content |-> c, rev |-> r]
                               \in CacheRows
    BY DEF CacheRows
  <2> QED BY <1>1, <2>2, <2>3, <2>4
<1>6. ASSUME NEW i \in Ids PROVE Sight(Remote(Key("srv", i)), i)
  <2>1. \/ Remote(Key("srv", i)) = NoRow
        \/ /\ countdowns[i].there
           /\ Remote(Key("srv", i)).content = countdowns[i].content
           /\ Remote(Key("srv", i)).rev = countdowns[i].rev
    BY DEF Remote, Key, NoRow
  <2> QED BY <2>1 DEF Sight, Known, Actual, NoRow
<1> QED BY <1>1, <1>2, <1>3, <1>5, <1>6

LEMMA LoadKeeps == ASSUME CountdownInv, Load PROVE CountdownInv'
<1>0. CountdownsTyped /\ UNCHANGED <<countdowns, history, issued>> /\ UNCHANGED <<batch, answer>>
      /\ UNCHANGED <<queue, settled>>
  BY DEF CountdownInv, Load
<1>1. cache' \in [Keys -> CacheRows] /\ screen' = cache'
  BY <1>0, RowsOfThePhone DEF Load, CountdownsTyped
<1>2. PhoneRowsTyped'
  BY <1>0, <1>1 DEF PhoneRowsTyped, CountdownsTyped
<1>3. \A i \in Ids, row \in CacheRows : Shown(row, i)' => Shown(row, i) \/ Sight(row, i)
  BY <1>0, <1>1, RowsOfThePhone DEF Shown, Load
<1>4. NoEditVanishes'
  BY <1>0 DEF CountdownInv, NoEditVanishes, Recorded
<1>5. Waiting' = Waiting
  BY <1>0 DEF Waiting
<1> QED BY <1>0, <1>2, <1>3, <1>4, <1>5, QuietStep

LEMMA LoadOfflineKeeps == ASSUME CountdownInv, LoadOffline PROVE CountdownInv'
<1>0. CountdownsTyped /\ UNCHANGED <<countdowns, history, issued>> /\ UNCHANGED <<batch, answer>>
      /\ UNCHANGED <<queue, settled, cache>> /\ screen' = cache
  BY DEF CountdownInv, LoadOffline
<1>2. PhoneRowsTyped'
  BY <1>0 DEF PhoneRowsTyped, CountdownsTyped
<1>3. \A i \in Ids, row \in CacheRows : Shown(row, i)' => Shown(row, i)
  BY <1>0 DEF Shown
<1>4. NoEditVanishes'
  BY <1>0 DEF CountdownInv, NoEditVanishes, Recorded
<1>5. Waiting' = Waiting
  BY <1>0 DEF Waiting
<1> QED BY <1>0, <1>2, <1>3, <1>4, <1>5, QuietStep

LEMMA UserForgetsKeeps ==
    ASSUME CountdownInv, NEW o \in CountdownOps, UserForgets(o)
    PROVE  CountdownInv'
<1>0. CountdownsTyped /\ UNCHANGED <<countdowns, history, issued>> /\ UNCHANGED <<batch, answer>>
      /\ screen' = screen /\ cache' = [cache EXCEPT ![Key("local", o)] = NoRow]
      /\ queue' = {q \in queue : q.op # o} /\ settled' = settled \cup {o}
  BY DEF CountdownInv, UserForgets, Dequeued
<1>2. PhoneRowsTyped'
  BY <1>0, RowsOfThePhone DEF PhoneRowsTyped, CountdownsTyped
<1>3. \A i \in Ids, row \in CacheRows : Shown(row, i)' => Shown(row, i)
  BY <1>0, RowsOfThePhone DEF Shown, CountdownsTyped, Key
<1>4. NoEditVanishes'
  BY <1>0 DEF CountdownInv, NoEditVanishes, Recorded
<1>5. Waiting' \subseteq Waiting
  BY <1>0 DEF Waiting
<1> QED BY <1>0, <1>2, <1>3, <1>4, <1>5, QuietStep

LEMMA ClearPhoneKeeps == ASSUME CountdownInv, ClearPhone PROVE CountdownInv'
<1>0. CountdownsTyped /\ UNCHANGED <<countdowns, history, issued>> /\ UNCHANGED <<batch, answer>>
      /\ cache' = [k \in Keys |-> NoRow] /\ screen' = cache' /\ queue' = {}
      /\ settled' = settled \cup {q.op : q \in queue}
  BY DEF CountdownInv, ClearPhone
<1>2. PhoneRowsTyped'
  BY <1>0, RowsOfThePhone DEF PhoneRowsTyped, CountdownsTyped
<1>3. \A i \in Ids, row \in CacheRows : Shown(row, i)' => row = NoRow
  BY <1>0, RowsOfThePhone DEF Shown
<1>4. NoEditVanishes'
  BY <1>0 DEF CountdownInv, NoEditVanishes, Recorded
<1>5. Waiting' \subseteq Waiting
  BY <1>0 DEF Waiting
<1> QED BY <1>0, <1>2, <1>3, <1>4, <1>5, QuietStep

\* The steps of the worker that leave the rows of the phone alone.
LEMMA WorkerPausesKeeps ==
    ASSUME CountdownInv, StartWork \/ RetryLater \/ FinishWork
    PROVE  CountdownInv'
<1>0. CountdownsTyped /\ UNCHANGED <<countdowns, history, issued>>
      /\ UNCHANGED <<queue, settled, cache, screen>>
  BY DEF CountdownInv, StartWork, RetryLater, FinishWork
<1>1. batch' \subseteq Waiting /\ answer' \in {answer, NoAnswer}
  BY DEF StartWork, RetryLater, FinishWork, Waiting
<1>2. answer' = NoAnswer
  BY DEF StartWork, RetryLater, FinishWork, CountdownInv, AnswersTrue
<1>3. PhoneRowsTyped'
  BY <1>0, <1>1, <1>2, RowsOfThePhone DEF PhoneRowsTyped, CountdownsTyped, Waiting
<1>4. AnswersTrue'
  BY <1>2 DEF AnswersTrue
<1>5. \A i \in Ids, row \in CacheRows : Shown(row, i)' => Shown(row, i)
  BY <1>0 DEF Shown
<1>6. NoEditVanishes'
  BY <1>0 DEF CountdownInv, NoEditVanishes, Recorded
<1>7. Waiting' \subseteq Waiting
  BY <1>0, <1>1 DEF Waiting
<1> QED BY <1>0, <1>3, <1>4, <1>5, <1>6, <1>7, QuietStep

LEMMA AcknowledgeKeeps ==
    ASSUME CountdownInv, NEW q \in batch, Acknowledge(q)
    PROVE  CountdownInv'
<1>0. /\ CountdownsTyped /\ UNCHANGED <<countdowns, history, issued>>
      /\ screen' = screen /\ settled' = settled /\ batch' = batch \ {q} /\ answer' = NoAnswer
      /\ AtRow(q) /\ answer # NoAnswer /\ answer.ok
      /\ queue' = {p \in queue : p.op # q.op}
      /\ cache' = [k \in Keys |->
                     IF q.kind = "create" /\ k = Key("local", q.op) THEN NoRow
                     ELSE IF q.kind # "delete" /\ k = Key("srv", Target(q)) THEN answer.row
                     ELSE cache[k]]
  BY DEF CountdownInv, Acknowledge, Dequeued
<1>1. answer.row \in CacheRows /\ NoRow \in CacheRows
  BY <1>0, RowsOfThePhone DEF CountdownsTyped
<1>2. PhoneRowsTyped'
  <2>1. cache' \in [Keys -> CacheRows]
    BY <1>0, <1>1 DEF CountdownsTyped
  <2> QED BY <1>0, <2>1, RowsOfThePhone DEF PhoneRowsTyped, CountdownsTyped
<1>3. Recorded(q.op) /\ Sight(answer.row, Target(q))
  BY <1>0, <1>1 DEF CountdownInv, AnswersTrue
<1>4. ASSUME NEW i \in Ids, NEW row \in CacheRows, Shown(row, i)'
      PROVE  Shown(row, i) \/ row = NoRow \/ Sight(row, i)
  <2>1. row = cache'[Key("srv", i)] \/ row = screen[Key("srv", i)]
    BY <1>0, <1>4 DEF Shown
  <2>2. \/ cache'[Key("srv", i)] \in {NoRow, cache[Key("srv", i)]}
        \/ Key("srv", i) = Key("srv", Target(q)) /\ cache'[Key("srv", i)] = answer.row
    BY <1>0, RowsOfThePhone
  <2>3. Key("srv", i) = Key("srv", Target(q)) => i = Target(q)
    BY DEF Key
  <2> QED BY <1>3, <2>1, <2>2, <2>3 DEF Shown
<1>5. AnswersTrue'
  BY <1>0 DEF AnswersTrue
<1>6. NoEditVanishes'
  BY <1>0, <1>3 DEF CountdownInv, NoEditVanishes, Recorded
<1>7. Waiting' \subseteq Waiting
  BY <1>0 DEF Waiting
<1> QED BY <1>0, <1>2, <1>4, <1>5, <1>6, <1>7, QuietStep

LEMMA MarkConflictKeeps ==
    ASSUME CountdownInv, NEW q \in batch, MarkConflict(q)
    PROVE  CountdownInv'
<1> DEFINE kk == CacheKey(q)
<1>0. /\ CountdownsTyped /\ UNCHANGED <<countdowns, history, issued>>
      /\ screen' = screen /\ settled' = settled \cup {q.op}
      /\ batch' = batch \ {q} /\ answer' = NoAnswer
      /\ queue' = {p \in queue : p.op # q.op}
      /\ cache' = IF cache[kk].rev >= 0
                  THEN [cache EXCEPT ![kk].pending = FALSE, ![kk].conflict = TRUE]
                  ELSE cache
  BY DEF CountdownInv, MarkConflict, Dequeued
<1> HIDE DEF kk
<1>1. cache' \in [Keys -> CacheRows] /\ \A k \in Keys : cache'[k].rev = cache[k].rev
                                         /\ cache'[k].content = cache[k].content
  BY <1>0 DEF CountdownsTyped, CacheRows
<1>2. PhoneRowsTyped'
  BY <1>0, <1>1, RowsOfThePhone DEF PhoneRowsTyped, CountdownsTyped
<1>3. ASSUME NEW i \in Ids, NEW row \in CacheRows, Shown(row, i)'
      PROVE  Shown(row, i) \/ Sight(row, i)
  <2>1. row = cache'[Key("srv", i)] \/ row = screen[Key("srv", i)]
    BY <1>0, <1>3 DEF Shown
  <2>2. /\ Key("srv", i) \in Keys /\ cache[Key("srv", i)] \in CacheRows
        /\ Shown(cache[Key("srv", i)], i)
    BY <1>0, RowsOfThePhone DEF CountdownsTyped, Shown
  <2>3. Sight(cache[Key("srv", i)], i)
    BY <2>2 DEF CountdownInv, SightsKnown
  <2>4. /\ cache'[Key("srv", i)].rev = cache[Key("srv", i)].rev
        /\ cache'[Key("srv", i)].content = cache[Key("srv", i)].content
    BY <1>1, <2>2
  <2> QED BY <2>1, <2>3, <2>4 DEF Shown, Sight
<1>5. AnswersTrue'
  BY <1>0 DEF AnswersTrue
<1>6. NoEditVanishes'
  BY <1>0 DEF CountdownInv, NoEditVanishes, Recorded
<1>7. Waiting' \subseteq Waiting
  BY <1>0 DEF Waiting
<1> QED BY <1>0, <1>2, <1>3, <1>5, <1>6, <1>7, QuietStep

LEMMA HandleMoves ==
    ASSUME CountdownInv, NEW q, Sendable(q), Handle(q)
    PROVE  /\ ServerMoves
           /\ Accepted(q) => /\ Recorded(q.op)' /\ countdowns'[Target(q)] = Written(q)
                             /\ Target(q) \in Ids /\ Written(q).there
           /\ ~Accepted(q) => UNCHANGED serverVars
<1>0. CountdownsTyped /\ CountdownsExist /\ q \in EditRows
  BY DEF CountdownInv, Sendable
<1>1. CASE ~Accepted(q)
  BY <1>1 DEF Handle, ServerMoves
<1>2. CASE Accepted(q)
  <2>1. Target(q) \in Ids /\ Written(q).there /\ OperationOf(q) \in HistoryRows /\ OperationOf(q).op = q.op
    BY <1>0, <1>2, RowWritten
  <2>2. countdowns' = [countdowns EXCEPT ![Target(q)] = Written(q)]
        /\ history' = Append(history, OperationOf(q))
    BY <1>2 DEF Handle
  <2>3. countdowns'[Target(q)] = Written(q)
    BY <1>0, <2>1, <2>2 DEF CountdownsTyped
  <2>4. \E n \in DOMAIN history' : history'[n] = OperationOf(q)
    BY <1>0, <2>1, <2>2, HistoryGrows DEF CountdownsTyped
  <2>5. Recorded(q.op)'
    BY <2>1, <2>4 DEF Recorded
  <2> QED BY <1>0, <1>2, <2>1, <2>3, <2>5 DEF ServerMoves
<1> QED BY <1>1, <1>2

LEMMA PartnerEditsKeeps == ASSUME CountdownInv, PartnerEdits PROVE CountdownInv'
<1> USE CountdownNumbers
<1>0. /\ CountdownsTyped /\ issued.phone \in 0..PhoneOps /\ issued.partner \in 0..PartnerOps
      /\ cache' = cache /\ screen' = screen /\ queue' = queue /\ batch' = batch
      /\ answer' = answer /\ settled' = settled
      /\ issued' = [issued EXCEPT !.partner = issued.partner + 1] /\ issued.partner < PartnerOps
  BY DEF CountdownInv, CountdownsTyped, PartnerEdits, phoneVars
<1>1. /\ issued'.phone = issued.phone /\ issued'.partner = issued.partner + 1
      /\ issued' \in [phone : 0..PhoneOps, partner : 0..PartnerOps]
  BY <1>0 DEF CountdownsTyped
<1>2. IssuedGrows
  BY <1>0, <1>1 DEF IssuedGrows
<1>3. Waiting' = Waiting
  BY <1>0 DEF Waiting
<1>4. NewEdits
  BY <1>0, <1>3, NextOpIsNew DEF NewEdits, FreshEdit, CountdownsTyped, Waiting
<1>5. ServerMoves
  <2> DEFINE o == PhoneOps + issued.partner + 1
  <2>1. PICK i \in Ids, kind \in {"update", "delete"} :
           /\ countdowns[i].there
           /\ Handle([op |-> o, kind |-> kind, id |-> i, expected |-> countdowns[i].rev,
                      content |-> o, basis |-> countdowns[i].content])
    BY DEF PartnerEdits
  <2> DEFINE q == [op |-> o, kind |-> kind, id |-> i, expected |-> countdowns[i].rev,
                   content |-> o, basis |-> countdowns[i].content]
  <2>2. countdowns[i] \in CountdownRow
    BY <1>0 DEF CountdownsTyped
  <2>3. countdowns[i].rev \in Int /\ countdowns[i].content \in Int
    BY <2>2 DEF CountdownRow, Ids
  <2>4. o \in CountdownOps
    BY <1>0 DEF CountdownOps
  <2>5. ~PhonesOwn(o) /\ o \in (PhoneOps + 1)..(PhoneOps + issued'.partner)
    BY <1>0, <1>1 DEF PhonesOwn
  <2>6. Known(i, countdowns[i].rev, countdowns[i].content)
    BY <2>1 DEF Known, Actual
  <2> HIDE DEF o
  <2>7. q \in EditRows /\ q.op = o /\ q.content = o /\ q.id = i
        /\ q.expected = countdowns[i].rev /\ q.basis = countdowns[i].content
    BY <2>1, <2>3, <2>4 DEF EditRows
  <2> HIDE DEF q
  <2>8. PICK x \in EditRows : x = q
    BY <2>7
  <2>9. Numbered(x.op)' /\ Numbered(x.content)'
    BY <2>5, <2>7, <2>8 DEF Numbered
  <2>10. Sendable(x)
    BY <2>5, <2>6, <2>7, <2>8, <2>9 DEF Sendable
  <2>11. Handle(x)
    BY <2>1, <2>8 DEF q
  <2> QED BY <2>10, <2>11, HandleMoves
<1>6. RecordStays /\ SightStays /\ AnswersTrue'
  BY <1>0, <1>2, <1>4, <1>5, StepFacts
<1>7. PhoneRowsTyped'
  BY <1>0 DEF PhoneRowsTyped, CountdownsTyped
<1>8. ScreensSound
  BY <1>0, <1>6 DEF ScreensSound, SightStays, Shown, CountdownInv, SightsKnown
<1>9. NoEditVanishes'
  BY <1>0, <1>1, <1>6 DEF CountdownInv, NoEditVanishes, RecordStays
<1> QED BY <1>2, <1>4, <1>5, <1>6, <1>7, <1>8, <1>9, StepKeeps

\* The phone's user makes an edit.
LEMMA IssueMakesOne ==
    ASSUME CountdownInv, Issue, issued.phone < PhoneOps
    PROVE  IssuedGrows /\ issued'.phone = NextOp /\ NextOp \in 1..issued'.phone
           /\ NextOp \in CountdownOps /\ NextOp <= PhoneOps /\ issued.phone \in Nat
<1> USE CountdownNumbers
<1>0. /\ issued \in [phone : 0..PhoneOps, partner : 0..PartnerOps]
      /\ issued' = [issued EXCEPT !.phone = issued.phone + 1]
  BY DEF CountdownInv, CountdownsTyped, Issue
<1>1. /\ issued.phone \in 0..PhoneOps /\ issued.partner \in 0..PartnerOps
      /\ issued'.phone = issued.phone + 1 /\ issued'.partner = issued.partner
      /\ issued' \in [phone : 0..PhoneOps, partner : 0..PartnerOps]
  BY <1>0
<1> QED BY <1>0, <1>1 DEF IssuedGrows, NextOp, CountdownOps

LEMMA UserFoldsKeeps ==
    ASSUME CountdownInv, NEW o \in CountdownOps, UserFolds(o)
    PROVE  CountdownInv'
<1> USE CountdownNumbers
<1>0. /\ CountdownsTyped /\ issued.phone < PhoneOps /\ Issue
      /\ screen' = screen /\ batch' = batch /\ answer' = answer
      /\ countdowns' = countdowns /\ history' = history
      /\ settled' = settled \cup {NextOp}
      /\ cache' = [cache EXCEPT ![Key("local", o)] =
                      [NoRow EXCEPT !.pending = TRUE, !.content = NextOp, !.rev = 0]]
      /\ queue' = {IF q.op = o /\ q.kind = "create" THEN [q EXCEPT !.content = NextOp] ELSE q :
                      q \in queue}
  BY DEF CountdownInv, UserFolds
<1>1. IssuedGrows /\ issued'.phone = NextOp /\ NextOp \in 1..issued'.phone
      /\ NextOp \in CountdownOps
  BY <1>0, IssueMakesOne
<1>2. ServerMoves
  BY <1>0 DEF ServerMoves, serverVars
<1>3. \A q \in queue : LET x == [q EXCEPT !.content = NextOp] IN
         x \in EditRows /\ x.op = q.op /\ x.kind = q.kind /\ x.content = NextOp
  BY <1>0, <1>1 DEF CountdownsTyped, EditRows
<1>4. ASSUME NEW q \in Waiting'
      PROVE  q \in EditRows /\ (q \in Waiting \/ FoldedEdit(q)) /\ q.op # NextOp
  <2>1. CASE q \in Waiting
    BY <1>0, <2>1, NextOpIsNew DEF CountdownsTyped, Waiting
  <2>2. CASE q \notin Waiting
    <3>1. q \in queue'
      BY <1>0, <1>4, <2>2 DEF Waiting
    <3>2. PICK p \in queue : q = IF p.op = o /\ p.kind = "create" THEN [p EXCEPT !.content = NextOp] ELSE p
      BY <1>0, <3>1
    <3>3. p \in Waiting /\ p.kind = "create" /\ q = [p EXCEPT !.content = NextOp]
      BY <2>2, <3>2 DEF Waiting
    <3>4. q \in EditRows /\ q.op = p.op /\ q.kind = "create" /\ q.content = NextOp
      BY <1>3, <3>3
    <3> QED BY <1>1, <3>3, <3>4, NextOpIsNew DEF FoldedEdit
  <2> QED BY <2>1, <2>2
<1>5. NewEdits
  BY <1>4 DEF NewEdits, FreshEdit
<1>6. RecordStays /\ SightStays /\ AnswersTrue'
  BY <1>0, <1>1, <1>2, <1>5, StepFacts
<1>7. PhoneRowsTyped'
  <2>1. [NoRow EXCEPT !.pending = TRUE, !.content = NextOp, !.rev = 0] \in CacheRows
    <3>1. NextOp \in Int
      BY <1>1 DEF CountdownOps
    <3>2. PICK row : row = [NoRow EXCEPT !.pending = TRUE, !.content = NextOp, !.rev = 0]
      OBVIOUS
    <3>3. row = [pending |-> TRUE, conflict |-> FALSE, content |-> NextOp, rev |-> 0]
      BY <3>2 DEF NoRow
    <3>4. row \in CacheRows
      BY <3>1, <3>3 DEF CacheRows
    <3> QED BY <3>2, <3>4
  <2>2. queue' \subseteq EditRows
    BY <1>4 DEF Waiting
  <2>3. cache' \in [Keys -> CacheRows]
    BY <1>0, <2>1 DEF CountdownsTyped
  <2> QED BY <1>0, <2>2, <2>3 DEF PhoneRowsTyped, CountdownsTyped
<1>8. \A i \in Ids : cache'[Key("srv", i)] = cache[Key("srv", i)]
  BY <1>0, RowsOfThePhone DEF CountdownsTyped, Key
<1>9. ScreensSound
  BY <1>0, <1>6, <1>8 DEF ScreensSound, SightStays, Shown, CountdownInv, SightsKnown
<1>10. NoEditVanishes'
  <2> SUFFICES ASSUME NEW n \in 1..issued'.phone
               PROVE  Recorded(n)' \/ n \in settled' \/ \E q \in queue' : q.op = n
    BY DEF NoEditVanishes
  <2>1. CASE n = NextOp
    BY <1>0, <2>1
  <2>2. CASE n # NextOp
    <3>1. n \in 1..issued.phone
      BY <1>0, <1>1, <2>2, IssueMakesOne DEF NextOp
    <3>2. Recorded(n) \/ n \in settled \/ \E q \in queue : q.op = n
      BY <3>1 DEF CountdownInv, NoEditVanishes
    <3>3. ASSUME NEW q \in queue, q.op = n PROVE \E p \in queue' : p.op = n
      BY <1>0, <1>3, <3>3
    <3> QED BY <1>0, <1>6, <3>2, <3>3 DEF RecordStays
  <2> QED BY <2>1, <2>2
<1> QED BY <1>1, <1>2, <1>5, <1>6, <1>7, <1>9, <1>10, StepKeeps

LEMMA AttemptKeeps ==
    ASSUME CountdownInv, NEW q \in EditRows, issued.phone < PhoneOps, Issue,
           q.op = NextOp, q.content = NextOp,
           q.kind # "create" => Known(q.id, q.expected, q.basis), Attempt(q),
           screen' = screen, batch' = batch, answer' = answer
    PROVE  CountdownInv'
<1> USE CountdownNumbers
<1>0. CountdownsTyped /\ EditsNumbered
  BY DEF CountdownInv
<1>1. IssuedGrows /\ issued'.phone = NextOp /\ NextOp \in 1..issued'.phone
      /\ NextOp \in CountdownOps /\ NextOp <= PhoneOps
  BY IssueMakesOne
<1>2. /\ ~PhonesOwn(NextOp) /\ ~Recorded(NextOp) /\ ~Wrote(NextOp)
      /\ \A p \in Waiting : p.op # NextOp /\ p.content # NextOp
  BY <1>1, NextOpIsNew
<1>3. Sendable(q)
  <2>1. Numbered(q.op)' /\ Numbered(q.content)'
    BY <1>1 DEF Numbered, PhonesOwn
  <2> QED BY <1>2, <2>1 DEF Sendable
<1>4. UNCHANGED serverVars \/ Handle(q)
  BY DEF Attempt
<1>5. /\ ServerMoves
      /\ UNCHANGED serverVars \/ (/\ Recorded(q.op)' /\ countdowns'[Target(q)] = Written(q)
                                  /\ Written(q).there /\ Accepted(q))
  BY <1>3, <1>4, HandleMoves DEF ServerMoves
<1>6. Waiting' \subseteq Waiting \cup {q}
  BY DEF Attempt, Enqueue, Waiting
<1>7. FreshEdit(q)
  <2>1. UNCHANGED serverVars => ~Recorded(q.op)'
    BY <1>2 DEF serverVars, Recorded
  <2>2. Recorded(q.op)' => countdowns'[Target(q)].there
    BY <1>5, <2>1
  <2> QED BY <1>1, <2>2 DEF FreshEdit
<1>8. NewEdits
  BY <1>0, <1>2, <1>6, <1>7 DEF NewEdits, FreshEdit, CountdownsTyped, Waiting
<1>9. RecordStays /\ SightStays /\ AnswersTrue'
  BY <1>1, <1>5, <1>8, StepFacts
<1>10. /\ q.id \in Ids /\ q.expected \in Int /\ NextOp \in Int /\ NextOp \in Ids
       /\ CacheKey(q) \in Keys
  BY <1>1, RowsOfThePhone DEF EditRows, CountdownOps, Ids, CacheKey, CountdownInv
<1>11. Optimistic(q) \in CacheRows /\ Optimistic(q).content = NextOp
       /\ Optimistic(q).rev = IF q.kind = "create" THEN 0 ELSE q.expected + 1
  <2> DEFINE r == IF q.kind = "create" THEN 0 ELSE q.expected + 1
  <2>1. r \in Int
    BY <1>10
  <2>2. Optimistic(q) = [NoRow EXCEPT !.pending = TRUE, !.content = NextOp, !.rev = r]
    BY DEF Optimistic
  <2> HIDE DEF r
  <2>3. Optimistic(q) = [pending |-> TRUE, conflict |-> FALSE, content |-> NextOp, rev |-> r]
    BY <2>2 DEF NoRow
  <2> QED BY <1>10, <2>1, <2>3 DEF CacheRows, r
<1>12. \/ cache' = cache
       \/ /\ cache' = [cache EXCEPT ![CacheKey(q)] = NoRow]
       \/ /\ cache' = [cache EXCEPT ![CacheKey(q)] = Optimistic(q)]
          /\ q.kind # "delete" /\ queue' = queue \cup {q}
  BY DEF Attempt, Enqueue
<1>13. PhoneRowsTyped'
  <2>1. cache' \in [Keys -> CacheRows]
    BY <1>0, <1>10, <1>11, <1>12, RowsOfThePhone DEF CountdownsTyped
  <2>2. queue' \subseteq EditRows
    BY <1>0, <1>6 DEF Waiting, CountdownsTyped
  <2> QED BY <1>0, <2>1, <2>2 DEF PhoneRowsTyped, CountdownsTyped
<1>a. PICK c \in CountdownOps : c = NextOp
  BY <1>1
<1>14. ASSUME q.kind = "update" PROVE Known(q.id, q.expected + 1, c)'
  <2>1. Known(q.id, q.expected, q.basis) /\ countdowns[q.id].there
    BY <1>14 DEF Known
  <2>2. CASE UNCHANGED serverVars
    <3>1. ~Wrote(c)' /\ countdowns'[q.id].there
      BY <1>2, <1>a, <2>1, <2>2 DEF serverVars, Wrote
    <3>2. \A p \in Waiting' : p.content = c => p = q
      BY <1>2, <1>6, <1>a
    <3>3. q.expected = (q.expected + 1) - 1
      BY <1>10
    <3>4. PhonesOwn(c)'
      BY <1>1, <1>a DEF PhonesOwn
    <3> QED BY <1>14, <3>1, <3>2, <3>3, <3>4 DEF Known, Promised
  <2>3. CASE Accepted(q) /\ countdowns'[Target(q)] = Written(q)
    <3>1. Written(q) = Updated(q) /\ Target(q) = q.id
      BY <1>14 DEF Written, Target
    <3>2. /\ Written(q).rev = countdowns[q.id].rev + 1 /\ countdowns[q.id].rev = q.expected
          /\ Written(q).content = c /\ Written(q).there
      BY <1>0, <1>14, <1>a, <2>3, <2>1, <3>1, RowWritten DEF CountdownInv
    <3> QED BY <2>3, <3>1, <3>2 DEF Known, Actual
  <2> QED BY <1>5, <2>2, <2>3
<1>15. ScreensSound
  <2> SUFFICES ASSUME NEW i \in Ids, NEW row \in CacheRows, Shown(row, i)'
               PROVE  Sight(row, i)'
    BY DEF ScreensSound
  <2>1. row = cache'[Key("srv", i)] \/ row = screen[Key("srv", i)]
    BY DEF Shown
  <2>2. Key("srv", i) \in Keys
    BY <1>0, RowsOfThePhone
  <2>3. CASE Shown(row, i)
    BY <1>9, <2>3 DEF SightStays, CountdownInv, SightsKnown
  <2>4. CASE row = NoRow
    BY <2>4 DEF Sight, NoRow
  <2>5. CASE ~Shown(row, i) /\ row # NoRow
    <3>1. row = cache'[Key("srv", i)] /\ row # cache[Key("srv", i)]
      BY <2>1, <2>5 DEF Shown
    <3>2. row = Optimistic(q) /\ CacheKey(q) = Key("srv", i) /\ q.kind # "delete"
      BY <1>0, <1>10, <1>12, <2>2, <2>5, <3>1 DEF CountdownsTyped
    <3>3. q.kind = "update" /\ i = q.id
      BY <3>2 DEF CacheKey, Key, EditRows
    <3> QED BY <1>11, <1>14, <1>a, <3>2, <3>3 DEF Sight
  <2> QED BY <2>3, <2>4, <2>5
<1>16. NoEditVanishes'
  <2> SUFFICES ASSUME NEW n \in 1..issued'.phone
               PROVE  Recorded(n)' \/ n \in settled' \/ \E p \in queue' : p.op = n
    BY DEF NoEditVanishes
  <2>1. CASE n = NextOp
    <3>1. CASE Handle(q) /\ settled' = IF Succeeds(q) THEN settled ELSE settled \cup {q.op}
      BY <1>2, <1>3, <2>1, <3>1, HandleMoves DEF Succeeds
    <3>2. CASE q \in queue'
      BY <2>1, <3>2
    <3> QED BY <3>1, <3>2 DEF Attempt, Enqueue
  <2>2. CASE n # NextOp
    <3>1. n \in 1..issued.phone
      BY <1>1, <2>2, IssueMakesOne DEF NextOp
    <3>2. Recorded(n) \/ n \in settled \/ \E p \in queue : p.op = n
      BY <3>1 DEF CountdownInv, NoEditVanishes
    <3>3. queue \subseteq queue' /\ settled \subseteq settled'
      BY DEF Attempt, Enqueue
    <3> QED BY <1>9, <3>2, <3>3 DEF RecordStays
  <2> QED BY <2>1, <2>2
<1> QED BY <1>1, <1>5, <1>8, <1>9, <1>13, <1>15, <1>16, StepKeeps

LEMMA UserCreatesKeeps == ASSUME CountdownInv, UserCreates PROVE CountdownInv'
<1> DEFINE q == [op |-> NextOp, kind |-> "create", id |-> NextOp, expected |-> 0,
                 content |-> NextOp, basis |-> NextOp]
<1>1. issued.phone < PhoneOps /\ Attempt(q) /\ Issue
      /\ screen' = screen /\ batch' = batch /\ answer' = answer
  BY DEF UserCreates
<1>2. NextOp \in CountdownOps
  BY <1>1, IssueMakesOne
<1>3. q \in EditRows /\ q.op = NextOp /\ q.content = NextOp /\ q.kind = "create"
  BY <1>2, CountdownNumbers DEF EditRows, CountdownOps, Ids
<1> HIDE DEF q
<1>4. PICK x \in EditRows : x = q
  BY <1>3
<1> QED BY <1>1, <1>3, <1>4, AttemptKeeps

LEMMA UserEditsKeeps ==
    ASSUME CountdownInv, NEW i \in Ids, NEW kind \in {"update", "delete"}, UserEdits(i, kind)
    PROVE  CountdownInv'
<1> DEFINE shown == screen[Key("srv", i)]
           q == [op |-> NextOp, kind |-> kind, id |-> i, expected |-> shown.rev,
                 content |-> NextOp, basis |-> shown.content]
<1>1. issued.phone < PhoneOps /\ Attempt(q) /\ Issue /\ shown.rev >= 0
      /\ screen' = screen /\ batch' = batch /\ answer' = answer
  BY DEF UserEdits
<1>2. NextOp \in CountdownOps
  BY <1>1, IssueMakesOne
<1>3. shown \in CacheRows
  BY RowsOfThePhone DEF CountdownInv, CountdownsTyped
<1>4. Known(i, shown.rev, shown.content)
  BY <1>1, <1>3 DEF CountdownInv, SightsKnown, Shown, Sight
<1>5. shown.rev \in Int /\ shown.content \in Int
  BY <1>3 DEF CacheRows
<1> HIDE DEF shown
<1>6. q \in EditRows /\ q.op = NextOp /\ q.content = NextOp /\ q.kind = kind /\ q.id = i
      /\ q.expected = shown.rev /\ q.basis = shown.content
  BY <1>2, <1>5 DEF EditRows
<1> HIDE DEF q
<1>7. PICK x \in EditRows : x = q
  BY <1>6
<1> QED BY <1>1, <1>4, <1>6, <1>7, AttemptKeeps

LEMMA SendRowKeeps ==
    ASSUME CountdownInv, NEW q \in batch, SendRow(q)
    PROVE  CountdownInv'
<1> USE CountdownNumbers
<1>0. /\ CountdownsTyped /\ EditsNumbered /\ CountdownsExist
      /\ q \in EditRows /\ q \in Waiting /\ AtRow(q) /\ Handle(q)
      /\ answer' = [op |-> q.op, ok |-> Succeeds(q), row |-> Carried(q)]
      /\ cache' = cache /\ queue' = queue /\ screen' = screen /\ batch' = batch
      /\ settled' = settled /\ issued' = issued
  BY DEF CountdownInv, CountdownsTyped, SendRow, Waiting
<1>1. IssuedGrows
  BY <1>0 DEF IssuedGrows, CountdownsTyped
<1>2. \A n : PhonesOwn(n) => Numbered(n)'
  BY <1>0 DEF PhonesOwn, Numbered
<1>3. Sendable(q)
  BY <1>0, <1>2 DEF Sendable, EditsNumbered, CountdownInv, SightsKnown
<1>4. /\ ServerMoves
      /\ Accepted(q) => /\ Recorded(q.op)' /\ countdowns'[Target(q)] = Written(q)
                        /\ Written(q).there
      /\ ~Accepted(q) => UNCHANGED serverVars
  BY <1>0, <1>3, HandleMoves
<1>5. NewEdits
  BY <1>0, NextOpIsNew DEF NewEdits, FreshEdit, CountdownsTyped, Waiting
<1>6. RecordStays /\ SightStays
  BY <1>1, <1>4, <1>5, StepFacts
<1>7. Target(q) \in Ids /\ q.op \in Nat
  BY <1>0 DEF EditRows, Target, CountdownOps, Ids
<1>8. Succeeds(q) => Recorded(q.op)' /\ countdowns'[Target(q)].there
  <2>1. CASE Accepted(q)
    BY <1>4, <2>1
  <2>2. CASE ~Accepted(q) /\ Recorded(q.op)
    BY <1>0, <1>4, <1>6, <2>2 DEF CountdownsExist, serverVars, RecordStays
  <2> QED BY <2>1, <2>2 DEF Succeeds
<1>9. /\ Carried(q).content = countdowns'[Target(q)].content
      /\ Carried(q).rev = countdowns'[Target(q)].rev
      /\ Carried(q).pending = FALSE /\ Carried(q).conflict = FALSE
  BY <1>4 DEF Carried, serverVars, NoRow
<1>10. ServerParts'
  BY <1>1, <1>4, <1>5, StepFacts
<1>11. Carried(q) \in CacheRows
  <2>1. countdowns'[Target(q)] \in CountdownRow
    BY <1>7, <1>10 DEF ServerParts
  <2>2. countdowns'[Target(q)].content \in Int /\ countdowns'[Target(q)].rev \in Int
    BY <2>1 DEF CountdownRow, Ids
  <2> DEFINE c == countdowns'[Target(q)].content
             r == countdowns'[Target(q)].rev
  <2>a. \E row : Carried(q) = [NoRow EXCEPT !.content = row.content, !.rev = row.rev]
    BY DEF Carried
  <2>3. Carried(q) = [pending |-> FALSE, conflict |-> FALSE, content |-> c, rev |-> r]
    BY <1>9, <2>a DEF NoRow
  <2> HIDE DEF c, r
  <2> QED BY <2>2, <2>3 DEF CacheRows, c, r
<1>12. PhoneRowsTyped'
  <2>1. answer' \in [op : Nat, ok : BOOLEAN, row : CacheRows]
    BY <1>0, <1>7, <1>11 DEF Succeeds, Recorded, Accepted
  <2> QED BY <1>0, <2>1 DEF PhoneRowsTyped, CountdownsTyped
<1>13. AnswersTrue'
  <2> SUFFICES ASSUME NEW p \in batch, NEW row \in CacheRows, AtRow(p), Succeeds(q)
               PROVE  Recorded(p.op)' /\ (row = Carried(q) => Sight(row, Target(p))')
    BY <1>0 DEF AnswersTrue, AtRow
  <2>1. p \in EditRows /\ p \in Waiting /\ p.op \in Nat
    BY <1>0 DEF CountdownsTyped, Waiting, EditRows, CountdownOps
  <2>2. p.op = q.op
    BY <1>0, <1>7, <2>1 DEF AtRow
  <2>3. Target(p) = Target(q)
    BY <1>0, <2>1, <2>2 DEF EditsNumbered
  <2>4. row = Carried(q) => Sight(row, Target(q))'
    BY <1>8, <1>9 DEF Sight, Known, Actual
  <2> QED BY <1>8, <2>2, <2>3, <2>4
<1>14. ScreensSound
  BY <1>0, <1>6 DEF ScreensSound, SightStays, Shown, CountdownInv, SightsKnown
<1>15. NoEditVanishes'
  BY <1>0, <1>6 DEF CountdownInv, NoEditVanishes, RecordStays
<1> QED BY <1>1, <1>4, <1>5, <1>12, <1>13, <1>14, <1>15, StepKeeps

LEMMA CountdownInvInit == CountdownInit => CountdownInv
<1> USE CountdownNumbers
<1> SUFFICES ASSUME CountdownInit PROVE CountdownInv
  OBVIOUS
<1>0. NoRow \in CacheRows /\ NoAnswer \in [op : Nat, ok : BOOLEAN, row : CacheRows]
      /\ [NoRow EXCEPT !.content = 0, !.rev = 0] \in CacheRows
  <2>1. NoRow \in CacheRows
    BY DEF NoRow, CacheRows
  <2>2. NoAnswer \in [op : Nat, ok : BOOLEAN, row : CacheRows]
    BY <2>1 DEF NoAnswer
  <2>3. PICK row : row = [NoRow EXCEPT !.content = 0, !.rev = 0]
    OBVIOUS
  <2>4. row = [pending |-> FALSE, conflict |-> FALSE, content |-> 0, rev |-> 0]
    BY <2>3 DEF NoRow
  <2>5. row \in CacheRows
    BY <2>4 DEF CacheRows
  <2> QED BY <2>1, <2>2, <2>3, <2>5
<1>1. CountdownsTyped
  BY <1>0 DEF CountdownInit, CountdownsTyped, CountdownRow, Ids
<1>2. history = <<>> /\ DOMAIN history = {} /\ Waiting = {} /\ answer = NoAnswer
  BY DEF CountdownInit, Waiting
<1>3. \A i \in Ids : countdowns[i].there <=> i = 0
  BY DEF CountdownInit
<1>4. SightsKnown
  <2> SUFFICES ASSUME NEW i \in Ids, NEW row \in CacheRows, Shown(row, i) PROVE Sight(row, i)
    BY <1>2 DEF SightsKnown
  <2>1. row = IF i = 0 THEN [NoRow EXCEPT !.content = 0, !.rev = 0] ELSE NoRow
    BY DEF Shown, CountdownInit, Key, Keys
  <2>2. CASE i = 0
    <3>1. countdowns[i].there /\ countdowns[i].rev = 0 /\ countdowns[i].content = 0
      BY <2>2 DEF CountdownInit
    <3>2. row.rev = 0 /\ row.content = 0
      BY <2>1, <2>2 DEF NoRow
    <3> QED BY <3>1, <3>2 DEF Sight, Known, Actual
  <2>3. CASE i # 0
    BY <2>1, <2>3 DEF Sight, NoRow
  <2> QED BY <2>2, <2>3
<1>5. NoEditVanishes
  BY DEF NoEditVanishes, CountdownInit
<1> QED BY <1>1, <1>2, <1>3, <1>4, <1>5
       DEF CountdownInv, EditsNumbered, CountdownsExist, AnswersTrue, UpdatesHonest,
           EditsTakeEffectOnce

LEMMA CountdownStep == CountdownInv /\ [CountdownNext]_countdownVars => CountdownInv'
<1> SUFFICES ASSUME CountdownInv, [CountdownNext]_countdownVars PROVE CountdownInv'
  OBVIOUS
<1>1. CASE UNCHANGED countdownVars
  <2>1. /\ UNCHANGED <<countdowns, history, issued>> /\ UNCHANGED <<batch, answer>>
        /\ UNCHANGED <<queue, settled, cache, screen>>
    BY <1>1 DEF countdownVars
  <2>2. PhoneRowsTyped' /\ NoEditVanishes' /\ Waiting' = Waiting
    BY <2>1 DEF PhoneRowsTyped, CountdownInv, CountdownsTyped, NoEditVanishes, Recorded, Waiting
  <2>3. \A i \in Ids, row \in CacheRows : Shown(row, i)' => Shown(row, i)
    BY <2>1 DEF Shown
  <2> QED BY <2>1, <2>2, <2>3, QuietStep
<1>2. CASE \E i \in Ids, kind \in {"update", "delete"} : UserEdits(i, kind)
  BY <1>2, UserEditsKeeps
<1>3. CASE \E o \in CountdownOps : UserFolds(o) \/ UserForgets(o)
  BY <1>3, UserFoldsKeeps, UserForgetsKeeps
<1>4. CASE \E q \in batch : SendRow(q) \/ Acknowledge(q) \/ MarkConflict(q)
  BY <1>4, SendRowKeeps, AcknowledgeKeeps, MarkConflictKeeps
<1>5. CASE PartnerEdits \/ Load \/ LoadOffline \/ UserCreates \/ ClearPhone
  BY <1>5, PartnerEditsKeeps, LoadKeeps, LoadOfflineKeeps, UserCreatesKeeps, ClearPhoneKeeps
<1>6. CASE StartWork \/ RetryLater \/ FinishWork
  BY <1>6, WorkerPausesKeeps
<1> QED BY <1>1, <1>2, <1>3, <1>4, <1>5, <1>6 DEF CountdownNext

\* Every edit made on a phone counts once: whatever answers are lost, retries made or
\* sessions ended, the server applies it at most once, none vanishes, and none replaces a
\* version its author did not see, unless that version never reached the server.
THEOREM EditsCountedOnce == CountdownSpec => []EditsCountOnce
<1>1. CountdownInit => CountdownInv
  BY CountdownInvInit
<1>2. CountdownInv /\ [CountdownNext]_countdownVars => CountdownInv'
  BY CountdownStep
<1>3. CountdownInv => EditsCountOnce
  BY CountdownInvImplies
<1> QED BY <1>1, <1>2, <1>3, PTL DEF CountdownSpec

-----------------------------------------------------------------------------
(* Smooches                                                                 *)

SmoochRows == [op : Nat, at : Nat]

SendRows == [at : Nat, from : {"phone", "watch"}, auth : Nat]

\* What was sent was sent by now.
SendsOK ==
    /\ now \in Nat /\ authority \in Nat /\ wearAuth \in Nat
    /\ sends \in Seq(SendRows)
    /\ \A op \in DOMAIN sends : sends[op].at <= now

\* The recorded Smooches of a rolling hour that ends with t.
HourOf(rows, t) == {i \in DOMAIN rows : rows[i].at \in (t - Hour + 1)..t}

\* The rows are those of sent Smooches, one each, in time and within the limit of
\* every rolling hour.
RowsOK ==
    /\ smooches \in Seq(SmoochRows)
    /\ \A i \in DOMAIN smooches : smooches[i].op \in DOMAIN sends /\ smooches[i].at <= now
    /\ SmoochRecordedOnce
    /\ NoStaleSmooch
    /\ \A t \in Int : Cardinality(HourOf(smooches, t)) <= HourlyLimit

\* Queues and messages are about Smooches that were sent.
QueuesOK ==
    /\ DOMAIN wearQueue \subseteq DOMAIN sends
    /\ DOMAIN outbox \subseteq DOMAIN sends
    /\ DOMAIN toSend \subseteq DOMAIN sends
    /\ mail \subseteq DOMAIN sends /\ results \subseteq DOMAIN sends

\* The worker does not start what is too old, and its run takes no time.
RunIsShort == sender = "running" => \A op \in DOMAIN toSend : StillWanted(now, op)

\* The watch is answered when somebody else has taken over.
ResultsSettled ==
    \A op \in results : SmoochRecorded(op) \/ op \in given \/ op \in DOMAIN outbox

SmoochInv ==
    /\ SendsOK /\ RowsOK /\ QueuesOK /\ RunIsShort /\ ResultsSettled
    /\ NothingFromARemovedWatch /\ NoSmoochLost

-----------------------------------------------------------------------------
\* Which operations the queue operators keep.
LEMMA PendingKeeps ==
    ASSUME NEW box, NEW t
    PROVE  DOMAIN Pending(box, t) = {o \in DOMAIN box : StillWanted(t, o)}
BY DEF Pending, Remaining

LEMMA WithoutKeeps ==
    ASSUME NEW box, NEW op
    PROVE  DOMAIN Without(box, op) = DOMAIN box \ {op}
BY DEF Without, Remaining

LEMMA EnqueuedKeeps ==
    ASSUME NEW box, NEW op, NEW t
    PROVE  DOMAIN Enqueued(box, op, t) \subseteq DOMAIN box \cup {op}
<1>1. \A b : DOMAIN Squeezed(b) \subseteq DOMAIN b
  BY DEF Squeezed, Remaining
<1>2. \A b : DOMAIN Added(b, op) = DOMAIN b \cup {op}
  BY DEF Added
<1>3. PICK kept : kept = Pending(box, t)
  OBVIOUS
<1>4. PICK more : more = Added(kept, op)
  OBVIOUS
<1>5. DOMAIN kept \subseteq DOMAIN box
  BY <1>3, PendingKeeps
<1>6. Enqueued(box, op, t) = Squeezed(more)
  BY <1>3, <1>4 DEF Enqueued
<1>7. DOMAIN more = DOMAIN kept \cup {op}
  BY <1>2, <1>4
<1>8. DOMAIN Squeezed(more) \subseteq DOMAIN more
  BY <1>1
<1>9. DOMAIN Enqueued(box, op, t) \subseteq DOMAIN more
  BY <1>6, <1>8
<1> QED BY <1>5, <1>7, <1>9

LEMMA EmptyQueueIsEmpty == DOMAIN EmptyQueue = {}
BY DEF EmptyQueue

\* A row recorded now fits every rolling hour, if the last one has room.
LEMMA HourHolds ==
    ASSUME NEW rows \in Seq(SmoochRows), NEW n \in Nat,
           \A i \in DOMAIN rows : rows[i].at <= n,
           \A t \in Int : Cardinality(HourOf(rows, t)) <= HourlyLimit,
           Cardinality({i \in DOMAIN rows : rows[i].at > n - Hour}) < HourlyLimit,
           NEW op \in Nat, NEW t \in Int
    PROVE  Cardinality(HourOf(Append(rows, [op |-> op, at |-> n]), t)) <= HourlyLimit
<1> DEFINE new == Append(rows, [op |-> op, at |-> n])
           W == HourOf(rows, t)
           recent == {i \in DOMAIN rows : rows[i].at > n - Hour}
<1>0. Hour \in Nat \ {0} /\ HourlyLimit \in Nat \ {0}
  BY SmoochAssumption
<1>r. \A i \in DOMAIN rows : rows[i] \in SmoochRows
  OBVIOUS
<1>1. /\ DOMAIN new = DOMAIN rows \cup {Len(rows) + 1} /\ Len(rows) \in Nat
      /\ DOMAIN rows = 1..Len(rows)
      /\ \A i \in DOMAIN rows : new[i] = rows[i]
      /\ new[Len(rows) + 1] = [op |-> op, at |-> n]
  OBVIOUS
<1>2. new[Len(rows) + 1].at = n /\ \A i \in DOMAIN rows : rows[i].at \in Nat
  BY <1>r, <1>1 DEF SmoochRows
<1> HIDE DEF new
<1>3. IsFiniteSet(DOMAIN rows)
  BY <1>1, FS_Interval
<1>4. /\ IsFiniteSet(W) /\ IsFiniteSet(recent)
      /\ Cardinality(W) \in Nat /\ Cardinality(recent) \in Nat
  BY <1>3, FS_Subset, FS_CardinalityType DEF HourOf
<1>5. CASE n \in (t - Hour + 1)..t
  <2>1. W \subseteq recent
    BY <1>0, <1>1, <1>2, <1>5 DEF HourOf
  <2>2. Cardinality(W) <= Cardinality(recent)
    BY <1>4, <2>1, FS_Subset
  <2>3. HourOf(new, t) = W \cup {Len(rows) + 1}
    BY <1>1, <1>2, <1>5 DEF HourOf
  <2>4. Cardinality(W \cup {Len(rows) + 1}) <= Cardinality(W) + 1
    <3>1. PICK v : v = W
      OBVIOUS
    <3>2. Cardinality(v \cup {Len(rows) + 1}) \in {Cardinality(v), Cardinality(v) + 1}
      BY <1>4, <3>1, FS_AddElement
    <3> QED BY <1>4, <3>1, <3>2
  <2>5. Cardinality(W \cup {Len(rows) + 1}) \in Nat
    <3>1. IsFiniteSet(W \cup {Len(rows) + 1})
      BY <1>4, FS_AddElement
    <3> QED BY <3>1, FS_CardinalityType
  <2>6. Cardinality(recent) < HourlyLimit
    OBVIOUS
  <2>7. Cardinality(HourOf(new, t)) <= HourlyLimit
    BY <1>0, <1>4, <2>2, <2>3, <2>4, <2>5, <2>6
  <2> QED BY <2>7 DEF new
<1>6. CASE n \notin (t - Hour + 1)..t
  <2>1. HourOf(new, t) = W
    BY <1>1, <1>2, <1>6 DEF HourOf
  <2> QED BY <2>1 DEF new
<1> QED BY <1>5, <1>6

\* Recent sends can be counted.
LEMMA RecentCounted == SmoochInv => Cardinality(RecentSends(now)) \in Nat
<1> SUFFICES ASSUME SmoochInv PROVE Cardinality(RecentSends(now)) \in Nat
  OBVIOUS
<1>1. DOMAIN smooches = 1..Len(smooches) /\ Len(smooches) \in Nat
  BY DEF SmoochInv, RowsOK
<1>2. IsFiniteSet(DOMAIN smooches)
  BY <1>1, FS_Interval
<1>3. RecentSends(now) \subseteq DOMAIN smooches
  BY DEF RecentSends
<1> QED BY <1>2, <1>3, FS_Subset, FS_CardinalityType

\* A Smooch that was not recorded, is wanted and fits the hour may be recorded.
LEMMA RowAdded ==
    ASSUME SmoochInv, SendsOK', now' = now, NEW op \in DOMAIN sends',
           DOMAIN sends \subseteq DOMAIN sends',
           \A o \in DOMAIN sends : sends'[o] = sends[o],
           ~SmoochRecorded(op), Cardinality(RecentSends(now)) < HourlyLimit,
           sends'[op].at + Lifetime > now,
           smooches' = Append(smooches, [op |-> op, at |-> now])
    PROVE  /\ RowsOK'
           /\ \A o : SmoochRecorded(o)' <=> SmoochRecorded(o) \/ o = op
<1> USE DEF SmoochInv
<1>0. op \in Nat /\ now \in Nat
  BY DEF SendsOK
<1>p. [op |-> op, at |-> now] \in SmoochRows /\ smooches \in Seq(SmoochRows)
  BY <1>0 DEF SmoochRows, RowsOK
<1>1. /\ smooches' \in Seq(SmoochRows)
      /\ DOMAIN smooches' = DOMAIN smooches \cup {Len(smooches) + 1}
      /\ Len(smooches) + 1 \notin DOMAIN smooches
      /\ \A i \in DOMAIN smooches : smooches'[i] = smooches[i]
      /\ smooches'[Len(smooches) + 1] = [op |-> op, at |-> now]
  BY <1>p
<1>2. \A i \in DOMAIN smooches' : smooches'[i].op \in DOMAIN sends' /\ smooches'[i].at <= now'
  BY <1>0, <1>1 DEF RowsOK
<1>3. SmoochRecordedOnce'
  BY <1>1 DEF RowsOK, SmoochRecordedOnce, SmoochRecorded
<1>4. NoStaleSmooch'
  BY <1>1 DEF RowsOK, NoStaleSmooch, StillWanted, SentAt
<1>5. \A t \in Int : Cardinality(HourOf(smooches', t)) <= HourlyLimit
  BY <1>0, HourHolds DEF RowsOK, RecentSends
<1>6. \A o : SmoochRecorded(o)' <=> SmoochRecorded(o) \/ o = op
  BY <1>1 DEF SmoochRecorded
<1> QED BY <1>1, <1>2, <1>3, <1>4, <1>5, <1>6 DEF RowsOK

\* Rows that stay are not harmed by another send or a later time.
LEMMA RowsStay ==
    ASSUME RowsOK, UNCHANGED smooches, now \in Nat, now' \in Nat, now' >= now,
           DOMAIN sends \subseteq DOMAIN sends',
           \A o \in DOMAIN sends : sends'[o] = sends[o]
    PROVE  /\ RowsOK'
           /\ \A o : SmoochRecorded(o)' <=> SmoochRecorded(o)
<1>0. \A i \in DOMAIN smooches : smooches[i] \in SmoochRows
  BY DEF RowsOK
<1>1. \A i \in DOMAIN smooches : smooches[i].at \in Nat
  BY <1>0 DEF SmoochRows
<1> QED BY <1>1 DEF RowsOK, SmoochRecordedOnce, NoStaleSmooch, SmoochRecorded, HourOf

\* A Smooch is sent: the ones before it keep their numbers.
LEMMA SendAdded ==
    ASSUME SmoochInv, NEW from \in {"phone", "watch"}, NEW auth \in Nat,
           sends' = NewSend(from, auth), UNCHANGED <<now, authority, wearAuth>>
    PROVE  /\ SendsOK'
           /\ DOMAIN sends' = DOMAIN sends \cup {ThisSend} /\ ThisSend \notin DOMAIN sends
           /\ \A o \in DOMAIN sends : sends'[o] = sends[o]
           /\ sends'[ThisSend] = [at |-> now, from |-> from, auth |-> auth]
           /\ sends'[ThisSend].at + Lifetime > now /\ ~SmoochRecorded(ThisSend)
<1> USE DEF SmoochInv
<1>1. /\ sends' \in Seq(SendRows) /\ now \in Nat
      /\ DOMAIN sends' = DOMAIN sends \cup {ThisSend} /\ ThisSend \notin DOMAIN sends
      /\ \A o \in DOMAIN sends : sends'[o] = sends[o]
      /\ sends'[ThisSend] = [at |-> now, from |-> from, auth |-> auth]
  BY DEF SendsOK, NewSend, ThisSend, SendRows
<1>2. SendsOK'
  BY <1>1 DEF SendsOK
<1>3. ~SmoochRecorded(ThisSend)
  BY <1>1 DEF RowsOK, SmoochRecorded
<1> QED BY <1>1, <1>2, <1>3, SmoochAssumption

-----------------------------------------------------------------------------
(* The initial state and the actions                                        *)

LEMMA SmoochStart == SmoochInit => SmoochInv
<1> SUFFICES ASSUME SmoochInit PROVE SmoochInv
  OBVIOUS
<1> USE DEF SmoochInit
<1>1. SendsOK /\ QueuesOK /\ RunIsShort /\ ResultsSettled
  BY EmptyQueueIsEmpty DEF SendsOK, QueuesOK, RunIsShort, ResultsSettled
<1>2. RowsOK
  <2>1. \A t \in Int : HourOf(smooches, t) = {}
    BY DEF HourOf
  <2>2. \A t \in Int : Cardinality(HourOf(smooches, t)) <= HourlyLimit
    BY <2>1, FS_EmptySet, SmoochAssumption
  <2>3. smooches \in Seq(SmoochRows) /\ DOMAIN smooches = {}
    OBVIOUS
  <2> QED BY <2>2, <2>3 DEF RowsOK, SmoochRecordedOnce, NoStaleSmooch
<1>3. NothingFromARemovedWatch /\ NoSmoochLost
  BY EmptyQueueIsEmpty DEF NothingFromARemovedWatch, NoSmoochLost
<1> QED BY <1>1, <1>2, <1>3 DEF SmoochInv

\* Sending on the phone's own screen: a new number, recorded at most once.
LEMMA PhoneSendKeeps ==
    ASSUME SmoochInv, PhoneSend
    PROVE  SmoochInv'
<1> USE DEF SmoochInv
<1>0. PICK k : k = ThisSend
  OBVIOUS
<1>1. /\ sends' = NewSend("phone", 0)
      /\ UNCHANGED <<now, wearQueue, wearAuth, mail, results, authority, toSend, again>>
  BY DEF PhoneSend
<1>2. /\ SendsOK'
      /\ DOMAIN sends' = DOMAIN sends \cup {k} /\ k \notin DOMAIN sends
      /\ \A o \in DOMAIN sends : sends'[o] = sends[o]
      /\ sends'[k] = [at |-> now, from |-> "phone", auth |-> 0]
      /\ sends'[k].at + Lifetime > now /\ ~SmoochRecorded(k)
  BY <1>0, <1>1, SendAdded
<1>3. \/ UNCHANGED smooches
      \/ /\ Cardinality(RecentSends(now)) < HourlyLimit
         /\ smooches' = Append(smooches, [op |-> k, at |-> now])
  <2>1. Cardinality(RecentSends(now)) \in Nat
    BY RecentCounted
  <2> QED BY <1>0, <2>1, SmoochAssumption DEF PhoneSend
<1>4. RowsOK' /\ \A o : SmoochRecorded(o) => SmoochRecorded(o)'
  <2>1. CASE UNCHANGED smooches
    BY <1>1, <1>2, <2>1, RowsStay DEF SendsOK
  <2>2. CASE ~UNCHANGED smooches
    BY <1>1, <1>2, <1>3, <2>2, RowAdded
  <2> QED BY <2>1, <2>2
<1>5. \/ SmoochRecorded(k)' /\ UNCHANGED <<outbox, sender, given>>
      \/ given' = given \cup {k} /\ UNCHANGED <<outbox, sender>>
      \/ /\ outbox' = Enqueued(outbox, k, now)
         /\ given' = given \cup Dropped(outbox, outbox', k)
         /\ sender' = WorkKept
  <2>1. smooches' = Append(smooches, [op |-> k, at |-> now]) => SmoochRecorded(k)'
    BY <1>1, <1>2, <1>3, RowAdded
  <2> QED BY <1>0, <2>1 DEF PhoneSend
<1>6. DOMAIN Enqueued(outbox, k, now) \subseteq DOMAIN outbox \cup {k}
  BY EnqueuedKeeps
<1>7. /\ DOMAIN outbox' \subseteq DOMAIN outbox \cup {k} /\ given \subseteq given'
      /\ DOMAIN outbox \subseteq DOMAIN outbox' \cup given'
      /\ SmoochRecorded(k)' \/ k \in given' \/ k \in DOMAIN outbox'
      /\ sender' = "running" => sender = "running"
  BY <1>5, <1>6 DEF Dropped, WorkKept
<1>8. QueuesOK' /\ ResultsSettled'
  BY <1>1, <1>2, <1>4, <1>7 DEF QueuesOK, ResultsSettled
<1>9. RunIsShort'
  BY <1>1, <1>2, <1>7 DEF RunIsShort, QueuesOK, StillWanted, SentAt
<1>10. NothingFromARemovedWatch' /\ NoSmoochLost'
  BY <1>1, <1>2, <1>4, <1>7 DEF NothingFromARemovedWatch, NoSmoochLost, QueuesOK
<1> QED BY <1>2, <1>4, <1>8, <1>9, <1>10

\* Sending on the watch.
LEMMA WatchSendKeeps ==
    ASSUME SmoochInv, WatchSend
    PROVE  SmoochInv'
<1> USE DEF SmoochInv
<1>0. PICK k : k = ThisSend
  OBVIOUS
<1>1. /\ sends' = NewSend("watch", wearAuth)
      /\ wearQueue' = Enqueued(wearQueue, k, now)
      /\ given' = given \cup (Dropped(wearQueue, wearQueue', k) \ DOMAIN outbox)
      /\ UNCHANGED <<now, smooches, wearAuth, mail, results, authority, outbox, sender,
                     toSend, again>>
  BY <1>0 DEF WatchSend
<1>2. /\ SendsOK'
      /\ DOMAIN sends' = DOMAIN sends \cup {k} /\ k \notin DOMAIN sends
      /\ \A o \in DOMAIN sends : sends'[o] = sends[o]
  BY <1>0, <1>1, SendAdded DEF SendsOK
<1>3. RowsOK' /\ \A o : SmoochRecorded(o) => SmoochRecorded(o)'
  BY <1>1, <1>2, RowsStay DEF SendsOK
<1>4. /\ DOMAIN wearQueue' \subseteq DOMAIN wearQueue \cup {k} /\ given \subseteq given'
      /\ DOMAIN wearQueue \cup {k} \subseteq DOMAIN wearQueue' \cup given' \cup DOMAIN outbox
  BY <1>1, EnqueuedKeeps DEF Dropped
<1>5. QueuesOK' /\ ResultsSettled'
  BY <1>1, <1>2, <1>3, <1>4 DEF QueuesOK, ResultsSettled
<1>6. RunIsShort'
  BY <1>1, <1>2 DEF RunIsShort, QueuesOK, StillWanted, SentAt
<1>7. NothingFromARemovedWatch' /\ NoSmoochLost'
  BY <1>1, <1>2, <1>3, <1>4 DEF NothingFromARemovedWatch, NoSmoochLost, QueuesOK
<1> QED BY <1>2, <1>3, <1>5, <1>6, <1>7

\* Steps that neither send nor record: nothing is let go that is not given up, and
\* what enters the outbox or is answered may do so.
LEMMA MovedKeeps ==
    ASSUME SmoochInv, UNCHANGED <<now, sends, smooches>>,
           authority' \in Nat, wearAuth' \in Nat,
           given \subseteq given',
           DOMAIN wearQueue' \subseteq DOMAIN wearQueue,
           \A op \in DOMAIN wearQueue \ DOMAIN wearQueue' :
              SmoochRecorded(op) \/ op \in given' \/ op \in DOMAIN outbox,
           DOMAIN outbox' \subseteq DOMAIN sends,
           DOMAIN outbox \subseteq DOMAIN outbox' \cup given',
           \A op \in DOMAIN outbox' :
              sends[op].from = "watch" => sends[op].auth = authority',
           mail' \subseteq DOMAIN sends,
           results' \subseteq DOMAIN sends,
           \A op \in results' \ results :
              SmoochRecorded(op) \/ op \in given' \/ op \in DOMAIN outbox',
           DOMAIN toSend' \subseteq DOMAIN sends,
           sender' = "running" => \A op \in DOMAIN toSend' : StillWanted(now, op)
    PROVE  SmoochInv'
<1> USE DEF SmoochInv
<1>1. SendsOK' /\ QueuesOK'
  BY DEF SendsOK, QueuesOK
<1>2. RowsOK' /\ \A o : SmoochRecorded(o)' <=> SmoochRecorded(o)
  BY RowsStay DEF SendsOK
<1>3. ResultsSettled'
  BY <1>2 DEF ResultsSettled
<1>4. RunIsShort'
  BY DEF RunIsShort, StillWanted, SentAt
<1>5. NothingFromARemovedWatch'
  BY DEF NothingFromARemovedWatch
<1>6. NoSmoochLost'
  BY <1>2 DEF NoSmoochLost
<1> QED BY <1>1, <1>2, <1>3, <1>4, <1>5, <1>6

\* The bridge of the phone.
LEMMA AcceptSmoochKeeps ==
    ASSUME SmoochInv, NEW op \in mail, AcceptSmooch(op)
    PROVE  SmoochInv'
<1> USE DEF SmoochInv
<1>1. /\ mail' = mail \ {op} /\ results' = results \cup {op}
      /\ UNCHANGED <<now, sends, smooches, wearQueue, wearAuth, authority, toSend, again>>
      /\ op \in DOMAIN sends /\ mail \subseteq DOMAIN sends /\ results \subseteq DOMAIN sends
      /\ DOMAIN outbox \subseteq DOMAIN sends /\ DOMAIN toSend \subseteq DOMAIN sends
      /\ authority \in Nat /\ wearAuth \in Nat
  BY DEF AcceptSmooch, QueuesOK, SendsOK
<1>2. CASE Authorized(op)
  <2>1. /\ outbox' = Enqueued(outbox, op, sends[op].at)
        /\ given' = given \cup Dropped(outbox, outbox', op)
        /\ sender' = "running" => sender = "running"
    BY <1>2 DEF AcceptSmooch, EnqueueOnPhone, WorkKept
  <2>2. /\ DOMAIN outbox' \subseteq DOMAIN outbox \cup {op}
        /\ DOMAIN outbox \cup {op} \subseteq DOMAIN outbox' \cup given'
    BY <2>1, EnqueuedKeeps DEF Dropped
  <2>3. \A o \in DOMAIN outbox' :
           sends[o].from = "watch" => sends[o].auth = authority'
    BY <1>1, <1>2, <2>2 DEF Authorized, NothingFromARemovedWatch
  <2> QED BY <1>1, <2>1, <2>2, <2>3, MovedKeeps DEF RunIsShort
<1>3. CASE ~Authorized(op)
  <2>1. /\ given \subseteq given' /\ UNCHANGED <<outbox, sender>>
        /\ op \in given' \/ op \in DOMAIN outbox \/ SmoochRecorded(op)
    BY <1>3 DEF AcceptSmooch
  <2> QED BY <1>1, <2>1, MovedKeeps DEF RunIsShort, NothingFromARemovedWatch
<1> QED BY <1>2, <1>3

\* The answer reaches the watch.
LEMMA AcceptResultKeeps ==
    ASSUME SmoochInv, NEW op \in results, AcceptResult(op)
    PROVE  SmoochInv'
<1> USE DEF SmoochInv
<1>1. /\ results' = results \ {op}
      /\ UNCHANGED <<now, sends, smooches, wearAuth, mail, authority, outbox, sender, toSend,
                     again, given>>
      /\ DOMAIN wearQueue \ {op} \subseteq DOMAIN wearQueue'
      /\ DOMAIN wearQueue' \subseteq DOMAIN wearQueue
  BY WithoutKeeps DEF AcceptResult
<1>2. SmoochRecorded(op) \/ op \in given \/ op \in DOMAIN outbox
  BY DEF ResultsSettled
<1> QED BY <1>1, <1>2, MovedKeeps
        DEF RunIsShort, NothingFromARemovedWatch, QueuesOK, SendsOK

\* Removals, sign-outs, purges, lost messages and repeated sends.
LEMMA DevicesKeep ==
    ASSUME SmoochInv,
           RemoveSmoochWatch \/ ClearOutbox \/ FlushToPhone \/ WatchLearns \/ LoseMessage
    PROVE  SmoochInv'
<1> USE DEF SmoochInv
<1>0. /\ mail \subseteq DOMAIN sends /\ results \subseteq DOMAIN sends
      /\ DOMAIN wearQueue \subseteq DOMAIN sends
      /\ DOMAIN outbox \subseteq DOMAIN sends /\ DOMAIN toSend \subseteq DOMAIN sends
      /\ authority \in Nat /\ wearAuth \in Nat
      /\ sender = "running" => \A op \in DOMAIN toSend : StillWanted(now, op)
      /\ \A op \in DOMAIN outbox : sends[op].from = "watch" => sends[op].auth = authority
  BY DEF QueuesOK, SendsOK, RunIsShort, NothingFromARemovedWatch
<1>1. CASE RemoveSmoochWatch
  <2>1. /\ authority' = authority + 1
        /\ DOMAIN outbox' = {op \in DOMAIN outbox : sends[op].from = "phone"}
        /\ given' = given \cup (DOMAIN outbox \ DOMAIN outbox')
        /\ UNCHANGED <<now, sends, smooches, wearQueue, wearAuth, mail, results, sender,
                       toSend>>
    BY <1>1 DEF RemoveSmoochWatch, Remaining
  <2> QED BY <1>0, <2>1, MovedKeeps
<1>2. CASE ClearOutbox
  <2>1. /\ DOMAIN outbox' = {} /\ given' = given \cup DOMAIN outbox
        /\ UNCHANGED <<now, sends, smooches, wearQueue, wearAuth, mail, results, authority,
                       sender, toSend>>
    BY <1>2, EmptyQueueIsEmpty DEF ClearOutbox
  <2> QED BY <1>0, <2>1, MovedKeeps
<1>3. CASE FlushToPhone
  <2>1. /\ mail' = mail \cup DOMAIN wearQueue'
        /\ DOMAIN wearQueue' \subseteq DOMAIN wearQueue
        /\ given' = given \cup (DOMAIN wearQueue \ (DOMAIN wearQueue' \cup DOMAIN outbox))
        /\ UNCHANGED <<now, sends, smooches, wearAuth, results, authority, outbox, sender,
                       toSend>>
    BY <1>3, PendingKeeps DEF FlushToPhone
  <2> QED BY <1>0, <2>1, MovedKeeps
<1>4. CASE WatchLearns
  <2>1. /\ wearAuth' \in {0, authority} /\ DOMAIN wearQueue' = {}
        /\ given' = given \cup (DOMAIN wearQueue \ DOMAIN outbox)
        /\ UNCHANGED <<now, sends, smooches, mail, results, authority, outbox, sender, toSend>>
    BY <1>4, EmptyQueueIsEmpty DEF WatchLearns
  <2> QED BY <1>0, <2>1, MovedKeeps
<1>5. CASE LoseMessage
  <2>1. /\ mail' \subseteq mail /\ results' \subseteq results
        /\ UNCHANGED <<now, sends, smooches, wearQueue, wearAuth, authority, outbox, sender,
                       toSend, given>>
    BY <1>5 DEF LoseMessage
  <2> QED BY <1>0, <2>1, MovedKeeps
<1> QED BY <1>1, <1>2, <1>3, <1>4, <1>5

\* The worker begins and ends.
LEMMA WorkerKeeps ==
    ASSUME SmoochInv, StartSending \/ FinishSending
    PROVE  SmoochInv'
<1> USE DEF SmoochInv
<1>0. /\ mail \subseteq DOMAIN sends /\ results \subseteq DOMAIN sends
      /\ DOMAIN outbox \subseteq DOMAIN sends /\ DOMAIN toSend \subseteq DOMAIN sends
      /\ authority \in Nat /\ wearAuth \in Nat
      /\ \A op \in DOMAIN outbox : sends[op].from = "watch" => sends[op].auth = authority
  BY DEF QueuesOK, SendsOK, NothingFromARemovedWatch
<1>1. CASE StartSending
  <2>1. /\ DOMAIN outbox' = {op \in DOMAIN outbox : StillWanted(now, op)}
        /\ toSend' = outbox' /\ given' = given \cup (DOMAIN outbox \ DOMAIN outbox')
        /\ UNCHANGED <<now, sends, smooches, wearQueue, wearAuth, mail, results, authority>>
    BY <1>1, PendingKeeps DEF StartSending
  <2> QED BY <1>0, <2>1, MovedKeeps
<1>2. CASE FinishSending
  <2>1. /\ DOMAIN outbox' \subseteq DOMAIN outbox /\ sender' # "running"
        /\ given' = given \cup (DOMAIN outbox \ DOMAIN outbox')
        /\ UNCHANGED <<now, sends, smooches, wearQueue, wearAuth, mail, results, authority,
                       toSend>>
    BY <1>2, PendingKeeps DEF FinishSending
  <2> QED BY <1>0, <2>1, MovedKeeps
<1> QED BY <1>1, <1>2

\* One request of the worker: recorded, found recorded, limited, or lost.
LEMMA SendPendingKeeps ==
    ASSUME SmoochInv, SendPending
    PROVE  SmoochInv'
<1> USE DEF SmoochInv
<1>1. PICK op \in DOMAIN toSend, reply \in {"answered", "unanswered", "unsent"} :
          /\ toSend' = Without(toSend, op)
          /\ reply = "answered" => Answer(op) # "limited"
          /\ IF reply = "unsent" THEN UNCHANGED smooches ELSE SendSmooch(op)
          /\ outbox' = OutboxAfter(op, reply)
  BY DEF SendPending
<1>2. /\ sender = "running"
      /\ UNCHANGED <<now, sends, wearQueue, wearAuth, mail, results, authority, sender, given>>
  BY DEF SendPending
<1>3. op \in DOMAIN sends /\ StillWanted(now, op) /\ now \in Nat
  BY <1>1, <1>2 DEF QueuesOK, RunIsShort, SendsOK
<1>4. SendsOK'
  BY <1>2 DEF SendsOK
<1>5. \/ UNCHANGED smooches /\ (reply = "answered" => SmoochRecorded(op))
      \/ /\ ~SmoochRecorded(op) /\ Cardinality(RecentSends(now)) < HourlyLimit
         /\ smooches' = Append(smooches, [op |-> op, at |-> now])
  <2>1. Cardinality(RecentSends(now)) \in Nat
    BY RecentCounted
  <2> QED BY <1>1, <2>1, SmoochAssumption DEF SendSmooch, Answer
<1>6. /\ RowsOK'
      /\ \A o : SmoochRecorded(o) => SmoochRecorded(o)'
      /\ reply = "answered" => SmoochRecorded(op)'
  <2>1. CASE UNCHANGED smooches /\ (reply = "answered" => SmoochRecorded(op))
    BY <1>2, <1>3, <2>1, RowsStay
  <2>2. CASE /\ ~SmoochRecorded(op) /\ Cardinality(RecentSends(now)) < HourlyLimit
             /\ smooches' = Append(smooches, [op |-> op, at |-> now])
    BY <1>2, <1>3, <1>4, <2>2, RowAdded DEF StillWanted, SentAt
  <2> QED BY <1>5, <2>1, <2>2
<1>7. /\ DOMAIN toSend' \subseteq DOMAIN toSend
      /\ DOMAIN outbox' \subseteq DOMAIN outbox
      /\ \A o \in DOMAIN outbox \ DOMAIN outbox' : SmoochRecorded(o)'
  BY <1>1, <1>6, WithoutKeeps DEF OutboxAfter
<1>8. QueuesOK' /\ ResultsSettled'
  BY <1>2, <1>6, <1>7 DEF QueuesOK, ResultsSettled
<1>9. RunIsShort'
  BY <1>2, <1>7 DEF RunIsShort, StillWanted, SentAt
<1>10. NothingFromARemovedWatch' /\ NoSmoochLost'
  BY <1>2, <1>6, <1>7 DEF NothingFromARemovedWatch, NoSmoochLost
<1> QED BY <1>4, <1>6, <1>8, <1>9, <1>10

LEMMA SmoochTickKeeps ==
    ASSUME SmoochInv, SmoochTick
    PROVE  SmoochInv'
<1> USE DEF SmoochInv, SmoochTick
<1>0. \A op \in DOMAIN sends : sends[op].at \in Nat
  <2>1. \A op \in DOMAIN sends : sends[op] \in SendRows
    BY DEF SendsOK
  <2> QED BY <2>1 DEF SendRows
<1>1. SendsOK' /\ QueuesOK' /\ RunIsShort'
  BY <1>0 DEF SendsOK, QueuesOK, RunIsShort
<1>2. RowsOK' /\ \A o : SmoochRecorded(o)' <=> SmoochRecorded(o)
  BY RowsStay DEF SendsOK
<1>3. ResultsSettled' /\ NothingFromARemovedWatch' /\ NoSmoochLost'
  BY <1>2 DEF ResultsSettled, NothingFromARemovedWatch, NoSmoochLost
<1> QED BY <1>1, <1>2, <1>3

LEMMA SmoochStep == SmoochInv /\ [SmoochNext]_smoochVars => SmoochInv'
<1> SUFFICES ASSUME SmoochInv, [SmoochNext]_smoochVars PROVE SmoochInv'
  OBVIOUS
<1>1. CASE UNCHANGED smoochVars
  <2> USE <1>1 DEF SmoochInv, smoochVars
  <2>1. SendsOK' /\ QueuesOK' /\ RunIsShort' /\ ResultsSettled'
    BY DEF SendsOK, QueuesOK, RunIsShort, ResultsSettled, StillWanted, SentAt, SmoochRecorded
  <2>2. RowsOK'
    BY DEF RowsOK, SmoochRecordedOnce, NoStaleSmooch
  <2>3. NothingFromARemovedWatch' /\ NoSmoochLost'
    BY DEF NothingFromARemovedWatch, NoSmoochLost, SmoochRecorded
  <2> QED BY <2>1, <2>2, <2>3
<1>2. CASE SmoochNext
  BY <1>2, PhoneSendKeeps, WatchSendKeeps, AcceptSmoochKeeps, AcceptResultKeeps,
     DevicesKeep, WorkerKeeps, SendPendingKeeps, SmoochTickKeeps
     DEF SmoochNext
<1> QED BY <1>1, <1>2

\* A Smooch repeated by the watch, the phone and its worker counts once, in time and
\* within the hourly limit, and none is lost without being given up.
THEOREM SmoochesOnce == SmoochSpec => []SmoochesArriveOnce
<1>1. SmoochInv => SmoochesArriveOnce
  <2> SUFFICES ASSUME SmoochInv PROVE SmoochesArriveOnce
    OBVIOUS
  <2>1. \A t \in Int : Cardinality(HourOf(smooches, t)) <= HourlyLimit
    BY DEF SmoochInv, RowsOK
  <2>2. HourlyLimitHolds
    <3> SUFFICES ASSUME NEW t \in 1..MaxNow
                 PROVE  Cardinality({i \in DOMAIN smooches :
                                       smooches[i].at \in (t - Hour + 1)..t}) <= HourlyLimit
      BY DEF HourlyLimitHolds
    <3>1. {i \in DOMAIN smooches : smooches[i].at \in (t - Hour + 1)..t} = HourOf(smooches, t)
      BY DEF HourOf
    <3>2. t \in Int
      OBVIOUS
    <3>3. Cardinality(HourOf(smooches, t)) <= HourlyLimit
      BY <2>1, <3>2
    <3> QED BY <3>1, <3>3, Zenon
  <2> QED BY <2>2 DEF SmoochInv, RowsOK, SmoochesArriveOnce, SmoochesCountOnce
<1> QED BY <1>1, SmoochStart, SmoochStep, PTL DEF SmoochSpec

-----------------------------------------------------------------------------
(* Together time.  A minute is counted by what happened between two        *)
(* instants at most a bridge apart (CountedBetween), so samples outside    *)
(* that interval change nothing (CountedKept).  The ranges a batch has     *)
(* computed again hold every minute its samples can reach; a minute out of *)
(* their reach could only be changed by a sample just before its interval, *)
(* and there is none: a phone sends its rows in order, so a member whose   *)
(* row is new was not known to be near since (RecomputedProven).  SentIn-  *)
(* Order says so.  The sums over days are compared with the numbers of     *)
(* minutes by the least set of days for which they would differ.           *)

\* A set of naturals that is not empty has a least member.
LEMMA LeastInstant ==
    ASSUME NEW S \in SUBSET Nat, S # {}
    PROVE  Min(S) \in S /\ \A y \in S : Min(S) <= y
<1>1. IsWellFoundedOn(OpToRel(<, Nat), Nat)
  BY NatLessThanWellFounded
<1>2. PICK x \in S : \A y \in S : ~(<<y, x>> \in OpToRel(<, Nat))
  BY <1>1, WFMin
<1>3. \A y \in S : <<y, x>> \in OpToRel(<, Nat) <=> y < x
  BY Zenon DEF OpToRel
<1>4. \A y \in S : ~(y < x)
  BY <1>2, <1>3, Zenon
<1>5. \A y \in S : x <= y
  BY <1>4
<1> QED BY <1>5 DEF Min

\* A bounded one has a greatest.
LEMMA LatestInstant ==
    ASSUME NEW S \in SUBSET Nat, S # {}, NEW b \in Nat, \A y \in S : y <= b
    PROVE  Max(S) \in S /\ \A y \in S : y <= Max(S)
<1> DEFINE above == {n \in Nat : \A y \in S : y <= n}
<1>1. above \in SUBSET Nat /\ above # {}
  OBVIOUS
<1>2. Min(above) \in above /\ \A n \in above : Min(above) <= n
  <2> HIDE DEF above
  <2> QED BY <1>1, LeastInstant
<1> DEFINE top == Min(above)
<1>3. top \in Nat /\ \A y \in S : y <= top
  BY <1>2
<1>4. top \in S
  <2> SUFFICES ASSUME top \notin S PROVE FALSE
    OBVIOUS
  <2>1. PICK y \in S : TRUE
    OBVIOUS
  <2>2. \A z \in S : z <= top - 1
    BY <1>3
  <2>3. top - 1 \in Nat
    BY <1>3, <2>1, <2>2
  <2>4. top - 1 \in above
    BY <2>2, <2>3
  <2> QED BY <1>2, <1>3, <2>4
<1> HIDE DEF above, top
<1>5. top \in S /\ \A y \in S : top >= y
  BY <1>3, <1>4
<1> QED BY <1>5 DEF Max

\* Every sample has a member and a time, and no member has two at one time.
Plain(S) ==
    \A s \in S : /\ s.who \in Partners /\ s.at \in Nat
                 /\ \A u \in S : u.who = s.who /\ u.at = s.at => u = s

\* What is known of a member at an instant.
KnownBy(S, p, t) == {s \in S : s.who = p /\ s.at <= t}

LEMMA TwoPartners ==
    \E p, q \in Partners : /\ p = CHOOSE x \in Partners : TRUE
                           /\ q = CHOOSE x \in Partners : x # p
                           /\ p # q /\ Partners = {p, q}
<1>1. IsFiniteSet(Partners) /\ Cardinality(Partners) = 2
  BY TogetherAssumption
<1> DEFINE p == CHOOSE x \in Partners : TRUE
<1>2. Partners # {}
  BY <1>1, FS_EmptySet
<1>3. p \in Partners
  BY <1>2
<1> HIDE DEF p
<1>4. IsFiniteSet(Partners \ {p}) /\ Cardinality(Partners \ {p}) = 1
  BY <1>1, <1>3, FS_RemoveElement
<1>5. PICK z : Partners \ {p} = {z}
  BY <1>4, FS_Singleton
<1> DEFINE q == CHOOSE x \in Partners : x # p
<1>6. q \in Partners /\ q # p
  BY <1>5
<1> HIDE DEF q
<1>7. q = z /\ Partners = {p, q}
  BY <1>3, <1>5, <1>6
<1> QED BY <1>3, <1>6, <1>7 DEF p, q

\* The newest of what is known is one sample.
LEMMA BestKnown ==
    ASSUME NEW S, Plain(S), NEW p, NEW t \in Nat, KnownBy(S, p, t) # {}
    PROVE  /\ Best(KnownBy(S, p, t)) \in KnownBy(S, p, t)
           /\ \A u \in KnownBy(S, p, t) : u.at <= Best(KnownBy(S, p, t)).at
<1> DEFINE K == KnownBy(S, p, t)
           times == {s.at : s \in K}
<1>1. times \in SUBSET Nat /\ times # {} /\ \A y \in times : y <= t
  BY DEF Plain, KnownBy
<1> HIDE DEF times
<1>2. Max(times) \in times /\ \A y \in times : y <= Max(times)
  BY <1>1, LatestInstant
<1>3. PICK s \in K : s.at = Max(times)
  BY <1>2 DEF times
<1>4. \A u \in K : s.at >= u.at
  BY <1>1, <1>2, <1>3 DEF times
<1> HIDE DEF K
<1>5. Best(K) \in K /\ \A u \in K : Best(K).at >= u.at
  BY <1>3, <1>4 DEF Best
<1>6. \A u \in K : u.at \in Nat
  BY DEF K, KnownBy, Plain
<1> QED BY <1>5, <1>6 DEF K

LEMMA BestIs ==
    ASSUME NEW S, Plain(S), NEW p, NEW t \in Nat, NEW s \in KnownBy(S, p, t),
           \A u \in KnownBy(S, p, t) : u.at <= s.at
    PROVE  Best(KnownBy(S, p, t)) = s
<1> DEFINE b == Best(KnownBy(S, p, t))
<1>1. b \in KnownBy(S, p, t) /\ s.at <= b.at
  BY BestKnown
<1>2. b.at <= s.at
  BY <1>1
<1>3. b.who = p /\ s.who = p /\ b \in S /\ s \in S
  BY <1>1 DEF KnownBy
<1>4. b.at \in Nat /\ s.at \in Nat
  BY <1>3 DEF Plain
<1>5. b.at = s.at
  BY <1>1, <1>2, <1>4
<1> QED BY <1>3, <1>5 DEF Plain

\* Two records of samples that agree on the newest sample of each member give
\* the same state.
SameBest(S, T, t) ==
    \A p \in Partners : /\ KnownBy(S, p, t) = {} <=> KnownBy(T, p, t) = {}
                        /\ KnownBy(S, p, t) # {} => Best(KnownBy(S, p, t)) = Best(KnownBy(T, p, t))

LEMMA AnchorSame ==
    ASSUME NEW S, NEW T, NEW t, SameBest(S, T, t)
    PROVE  Anchor(S, t) = Anchor(T, t)
<1>1. PICK p, q \in Partners : /\ p = CHOOSE x \in Partners : TRUE
                               /\ q = CHOOSE x \in Partners : x # p
                               /\ p # q /\ Partners = {p, q}
  BY TwoPartners
<1>2. \A R : Anchor(R, t) = IF \E x \in Partners : KnownBy(R, x, t) = {} THEN "waiting_for_partner"
                             ELSE IF t - Older(Best(KnownBy(R, p, t)), Best(KnownBy(R, q, t))) > Fresh
                                  THEN "stale"
                                  ELSE Proximity(Best(KnownBy(R, p, t)), Best(KnownBy(R, q, t)))
  BY <1>1 DEF Anchor, KnownBy
<1> QED BY <1>1, <1>2 DEF SameBest

\* Members found near each other both reported lately.
LEMMA NearbyKnown ==
    ASSUME NEW S, Plain(S), NEW t \in Nat, Anchor(S, t) = "nearby"
    PROVE  \A p \in Partners : \E s \in KnownBy(S, p, t) :
              s.at >= t - Fresh /\ \A u \in KnownBy(S, p, t) : u.at <= s.at
<1>1. PICK p, q \in Partners : /\ p = CHOOSE x \in Partners : TRUE
                               /\ q = CHOOSE x \in Partners : x # p
                               /\ p # q /\ Partners = {p, q}
  BY TwoPartners
<1> DEFINE a == Best(KnownBy(S, p, t))
           b == Best(KnownBy(S, q, t))
<1>2. Anchor(S, t) = IF \E x \in Partners : KnownBy(S, x, t) = {} THEN "waiting_for_partner"
                     ELSE IF t - Older(a, b) > Fresh THEN "stale" ELSE Proximity(a, b)
  BY <1>1 DEF Anchor, KnownBy
<1>3. KnownBy(S, p, t) # {} /\ KnownBy(S, q, t) # {} /\ ~(t - Older(a, b) > Fresh)
  BY <1>1, <1>2
<1>4. /\ a \in KnownBy(S, p, t) /\ \A u \in KnownBy(S, p, t) : u.at <= a.at
      /\ b \in KnownBy(S, q, t) /\ \A u \in KnownBy(S, q, t) : u.at <= b.at
  BY <1>3, BestKnown
<1> HIDE DEF a, b
<1>5. a.at \in Nat /\ b.at \in Nat /\ Fresh \in Nat
  BY <1>4, TogetherAssumption DEF KnownBy, Plain
<1>6. a.at >= t - Fresh /\ b.at >= t - Fresh
  BY <1>3, <1>5 DEF Older
<1> QED BY <1>1, <1>4, <1>6

\* Two timelines agree on what happened from p to c.
Agree(A, B, p, c) ==
    \A t \in p..c : /\ t \in DOMAIN A <=> t \in DOMAIN B
                    /\ t \in DOMAIN A => A[t] = B[t]

\* The instants of a timeline up to a minute, and those after it.
InstantsUpTo(A, m) == {t \in DOMAIN A : t <= m}
InstantsAfter(A, m) == {t \in DOMAIN A : t > m}

\* The instants around a minute are the same in both.
LEMMA SamePair ==
    ASSUME NEW A, NEW B, DOMAIN A \in SUBSET Nat, DOMAIN B \in SUBSET Nat,
           NEW p \in DOMAIN A, NEW c \in DOMAIN A, NEW m \in Nat, p <= m, m < c,
           Agree(A, B, p, c),
           NEW x, NEW y, x = Max(InstantsUpTo(A, m)), y = Min(InstantsAfter(A, m))
    PROVE  /\ x \in p..m /\ y \in (m + 1)..c
           /\ x = Max(InstantsUpTo(B, m)) /\ y = Min(InstantsAfter(B, m))
           /\ x \in DOMAIN A /\ y \in DOMAIN A /\ A[x] = B[x] /\ A[y] = B[y]
           /\ InstantsUpTo(B, m) # {} /\ InstantsAfter(B, m) # {}
<1> DEFINE before(D) == InstantsUpTo(D, m)
           after(D) == InstantsAfter(D, m)
<1> USE DEF InstantsUpTo, InstantsAfter
<1>1. p \in Nat /\ c \in Nat
  OBVIOUS
<1>2. before(A) \in SUBSET Nat /\ p \in before(A) /\ \A t \in before(A) : t <= m
  OBVIOUS
<1>3. x \in before(A) /\ \A t \in before(A) : t <= x
  <2> HIDE DEF InstantsUpTo
  <2> QED BY <1>2, LatestInstant
<1>4. after(A) \in SUBSET Nat /\ c \in after(A)
  OBVIOUS
<1>5. y \in after(A) /\ \A t \in after(A) : y <= t
  <2> HIDE DEF InstantsAfter
  <2> QED BY <1>4, LeastInstant
<1>6. x \in p..m /\ y \in (m + 1)..c
  BY <1>1, <1>2, <1>3, <1>4, <1>5
<1>7. x \in DOMAIN B /\ y \in DOMAIN B /\ A[x] = B[x] /\ A[y] = B[y]
  BY <1>1, <1>3, <1>5, <1>6 DEF Agree
<1>8. before(B) \in SUBSET Nat /\ x \in before(B) /\ \A t \in before(B) : t <= m
  BY <1>6, <1>7
<1>9. \A t \in before(B) : t <= x
  <2>0. x \in Nat /\ \A t \in before(B) : t \in Nat
    BY <1>1, <1>6, <1>8
  <2> SUFFICES ASSUME NEW t \in before(B), t > x PROVE FALSE
    BY <2>0
  <2>1. t \in p..c
    BY <1>1, <1>6, <1>8
  <2>2. t \in before(A)
    BY <2>1 DEF Agree
  <2>3. t \in Nat /\ x \in Nat
    BY <1>1, <1>6, <1>8
  <2> HIDE DEF InstantsUpTo
  <2>4. t <= x
    BY <1>3, <2>2
  <2> QED BY <2>3, <2>4
<1>10. after(B) \in SUBSET Nat /\ y \in after(B)
  BY <1>6, <1>7
<1>11. \A t \in after(B) : y <= t
  <2> SUFFICES ASSUME NEW t \in after(B), t < y PROVE FALSE
    BY <1>1, <1>6, <1>10
  <2>1. t \in p..c
    BY <1>1, <1>6, <1>10
  <2>2. t \in after(A)
    BY <2>1 DEF Agree
  <2> QED BY <1>5, <1>6, <1>10, <2>2
<1>12. x = Max(before(B))
  <2> HIDE DEF InstantsUpTo
  <2>1. Max(before(B)) \in before(B) /\ \A t \in before(B) : t <= Max(before(B))
    BY <1>8, LatestInstant
  <2> QED BY <1>8, <1>9, <2>1
<1>13. y = Min(after(B))
  <2> HIDE DEF InstantsAfter
  <2>1. Min(after(B)) \in after(B) /\ \A t \in after(B) : Min(after(B)) <= t
    BY <1>10, LeastInstant
  <2> QED BY <1>10, <1>11, <2>1
<1> QED BY <1>3, <1>5, <1>6, <1>7, <1>8, <1>10, <1>12, <1>13

\* A counted minute lies between two instants at which the members were near each
\* other, at most a bridge apart, and what happened between these two decides.
Between(A, m, p, c) ==
    /\ p \in DOMAIN A /\ c \in DOMAIN A /\ p <= m /\ m < c /\ c - p <= Bridge
    /\ A[p] = "nearby" /\ A[c] = "nearby"

LEMMA CountedBetween ==
    ASSUME NEW A, DOMAIN A \in SUBSET Nat, NEW m \in Nat, Estimate(A, m) \in CountedEvidence
    PROVE  \E p, c : /\ Between(A, m, p, c)
                     /\ \A B : DOMAIN B \in SUBSET Nat /\ Agree(A, B, p, c)
                                   => Estimate(B, m) \in CountedEvidence
<1> DEFINE before == InstantsUpTo(A, m)
           after == InstantsAfter(A, m)
           x == Max(before)
           y == Min(after)
           kind == PairKind(A, x, y)
<1>0. Fresh \in Nat /\ Bridge \in Nat /\ Fresh < Bridge
  BY TogetherAssumption
<1>1. /\ before # {} /\ after # {}
      /\ Estimate(A, m) = IF kind = "unverified" /\ Bridged(A, m) THEN "bridged" ELSE kind
  BY DEF Estimate, CountedEvidence, InstantsUpTo, InstantsAfter
<1>2. before \in SUBSET Nat /\ after \in SUBSET Nat /\ \A t \in before : t <= m
  BY DEF InstantsUpTo, InstantsAfter
<1>3. x \in before /\ y \in after
  <2> QED BY <1>1, <1>2, LatestInstant, LeastInstant
<1>4. x \in DOMAIN A /\ y \in DOMAIN A /\ x <= m /\ m < y /\ x \in Nat /\ y \in Nat
  BY <1>3 DEF InstantsUpTo, InstantsAfter
<1>5. ASSUME NEW p \in DOMAIN A, NEW c \in DOMAIN A, p <= m, m < c,
             NEW B, DOMAIN B \in SUBSET Nat, Agree(A, B, p, c)
      PROVE  /\ x \in p..m /\ y \in (m + 1)..c
             /\ Estimate(B, m) = IF kind = "unverified" /\ Bridged(B, m) THEN "bridged" ELSE kind
  <2>0. x = Max(InstantsUpTo(A, m)) /\ y = Min(InstantsAfter(A, m))
    OBVIOUS
  <2> HIDE DEF x, y
  <2>1. /\ x \in p..m /\ y \in (m + 1)..c /\ x = Max(InstantsUpTo(B, m)) /\ y = Min(InstantsAfter(B, m))
        /\ A[x] = B[x] /\ A[y] = B[y] /\ InstantsUpTo(B, m) # {} /\ InstantsAfter(B, m) # {}
    BY <1>5, <2>0, SamePair
  <2>2. Estimate(B, m) = IF PairKind(B, x, y) = "unverified" /\ Bridged(B, m)
                         THEN "bridged" ELSE PairKind(B, x, y)
    BY <2>1 DEF Estimate, InstantsUpTo, InstantsAfter
  <2>3. PairKind(B, x, y) = kind
    BY <2>1 DEF PairKind
  <2> QED BY <2>1, <2>2, <2>3
<1>6. CASE kind = "observed"
  <2>1. A[x] = "nearby" /\ A[y] = "nearby" /\ y - x <= Fresh
    BY <1>6 DEF PairKind
  <2>2. Between(A, m, x, y)
    BY <1>0, <1>4, <2>1 DEF Between
  <2>3. ASSUME NEW B, DOMAIN B \in SUBSET Nat, Agree(A, B, x, y)
        PROVE  Estimate(B, m) \in CountedEvidence
    <3>1. Estimate(B, m) = IF kind = "unverified" /\ Bridged(B, m) THEN "bridged" ELSE kind
      BY <1>4, <1>5, <2>3
    <3> QED BY <1>6, <3>1 DEF CountedEvidence
  <2> QED BY <2>2, <2>3
<1>7. CASE kind = "unverified" /\ Bridged(A, m)
  <2>1. PICK p, c \in DOMAIN A :
            /\ p <= m /\ m < c
            /\ A[p] = "nearby" /\ A[c] = "nearby"
            /\ c - p > Fresh /\ c - p <= Bridge
            /\ \A t \in (p + 1)..(c - 1) :
                  t \in DOMAIN A => A[t] \notin {"nearby", "apart", "poor_accuracy"}
    BY <1>7 DEF Bridged
  <2>2. Between(A, m, p, c)
    BY <2>1 DEF Between
  <2>3. ASSUME NEW B, DOMAIN B \in SUBSET Nat, Agree(A, B, p, c)
        PROVE  Estimate(B, m) \in CountedEvidence
    <3>1. Estimate(B, m) = IF kind = "unverified" /\ Bridged(B, m) THEN "bridged" ELSE kind
      BY <1>5, <2>1, <2>3
    <3>2. p \in Nat /\ c \in Nat
      OBVIOUS
    <3>3. p \in DOMAIN B /\ c \in DOMAIN B /\ B[p] = "nearby" /\ B[c] = "nearby"
      BY <2>1, <2>3, <3>2 DEF Agree
    <3>4. \A t \in (p + 1)..(c - 1) :
             t \in DOMAIN B => B[t] \notin {"nearby", "apart", "poor_accuracy"}
      <4> TAKE t \in (p + 1)..(c - 1)
      <4>1. t \in p..c
        BY <3>2
      <4> QED BY <2>1, <2>3, <4>1 DEF Agree
    <3>5. Bridged(B, m)
      BY <2>1, <3>3, <3>4 DEF Bridged
    <3> QED BY <1>7, <3>1, <3>5 DEF CountedEvidence
  <2> QED BY <2>2, <2>3
<1>8. kind \in {"observed", "apart", "poor_accuracy", "unverified"}
  BY DEF PairKind
<1> QED BY <1>1, <1>6, <1>7, <1>8 DEF CountedEvidence

\* Samples later than an interval, or earlier than everything else there is, do not
\* change what happened in it.
Outside(S, T, c) == \A u \in T \ S : u.at > c \/ \A s \in S : u.at < s.at

LEMMA AnchorsKept ==
    ASSUME NEW S, NEW T, Plain(T), S \subseteq T,
           NEW p \in SampleTimes(S), NEW c \in SampleTimes(S), p <= c,
           Anchor(S, p) = "nearby", Outside(S, T, c)
    PROVE  Agree(Anchors(S), Anchors(T), p, c)
<1>1. Plain(S)
  BY DEF Plain
<1>2. p \in Nat /\ c \in Nat
  BY <1>1 DEF Plain, SampleTimes
<1>3. \A t \in p..c : t \in SampleTimes(S) <=> t \in SampleTimes(T)
  <2> TAKE t \in p..c
  <2>1. ASSUME t \in SampleTimes(T) PROVE t \in SampleTimes(S)
    <3>1. PICK u \in T : u.at = t
      BY <2>1 DEF SampleTimes
    <3>2. PICK s \in S : s.at = p
      BY DEF SampleTimes
    <3>3. ~(u.at > c) /\ ~(u.at < s.at)
      BY <1>2, <3>1, <3>2
    <3>4. u \in S
      BY <3>2, <3>3 DEF Outside
    <3> QED BY <3>1, <3>4 DEF SampleTimes
  <2>2. t \in SampleTimes(S) => t \in SampleTimes(T)
    BY DEF SampleTimes
  <2> QED BY <2>1, <2>2
<1>4. ASSUME NEW t \in p..c PROVE Anchor(S, t) = Anchor(T, t)
  <2>0. t \in Nat
    BY <1>2
  <2>1. ASSUME NEW q \in Partners
        PROVE  KnownBy(S, q, t) # {} /\ KnownBy(T, q, t) # {}
               /\ Best(KnownBy(S, q, t)) = Best(KnownBy(T, q, t))
    <3> DEFINE b == Best(KnownBy(S, q, t))
    <3>1. PICK s \in KnownBy(S, q, p) : TRUE
      BY <1>1, <1>2, NearbyKnown
    <3>2. s \in KnownBy(S, q, t)
      BY <1>1, <1>2 DEF KnownBy, Plain
    <3>3. b \in KnownBy(S, q, t) /\ \A u \in KnownBy(S, q, t) : u.at <= b.at
      BY <1>1, <2>0, <3>2, BestKnown
    <3> HIDE DEF b
    <3>4. b \in KnownBy(T, q, t) /\ b \in S
      BY <3>3 DEF KnownBy
    <3>5. \A u \in KnownBy(T, q, t) : u.at <= b.at
      <4> TAKE u \in KnownBy(T, q, t)
      <4>1. u \in T /\ u.at \in Nat /\ b.at \in Nat /\ ~(u.at > c)
        BY <1>2, <3>4 DEF KnownBy, Plain
      <4>2. CASE u \in S
        BY <3>3, <4>2 DEF KnownBy
      <4>3. CASE u \notin S
        <5>1. u.at < b.at
          BY <3>4, <4>1, <4>3 DEF Outside
        <5> QED BY <4>1, <5>1
      <4> QED BY <4>2, <4>3
    <3>6. Best(KnownBy(T, q, t)) = b
      BY <2>0, <3>4, <3>5, BestIs
    <3> QED BY <3>2, <3>4, <3>6 DEF b
  <2>2. SameBest(S, T, t)
    BY <2>1 DEF SameBest
  <2> QED BY <2>2, AnchorSame
<1> QED BY <1>3, <1>4 DEF Agree, Anchors

\* A minute that some of the samples count is counted by all of them when the others
\* lie outside every interval that could have counted it.
LEMMA CountedKept ==
    ASSUME NEW S, NEW T, Plain(T), S \subseteq T, NEW m \in Nat,
           Estimate(Anchors(S), m) \in CountedEvidence,
           \A p, c \in SampleTimes(S) :
              Between(Anchors(S), m, p, c) => Outside(S, T, c)
    PROVE  Estimate(Anchors(T), m) \in CountedEvidence
<1>1. Plain(S)
  BY DEF Plain
<1>2. /\ DOMAIN Anchors(S) = SampleTimes(S) /\ DOMAIN Anchors(T) = SampleTimes(T)
      /\ SampleTimes(S) \in SUBSET Nat /\ SampleTimes(T) \in SUBSET Nat
  BY <1>1 DEF Anchors, SampleTimes, Plain
<1>3. PICK p, c : /\ Between(Anchors(S), m, p, c)
                  /\ \A B : DOMAIN B \in SUBSET Nat /\ Agree(Anchors(S), B, p, c)
                                => Estimate(B, m) \in CountedEvidence
  BY <1>2, CountedBetween
<1>4. /\ p \in SampleTimes(S) /\ c \in SampleTimes(S) /\ p <= m /\ m < c
      /\ Anchors(S)[p] = "nearby"
  BY <1>2, <1>3 DEF Between
<1>5. p \in Nat /\ c \in Nat
  BY <1>2, <1>4
<1>6. p <= c /\ Anchor(S, p) = "nearby" /\ Outside(S, T, c)
  BY <1>3, <1>4, <1>5 DEF Anchors
<1>7. Agree(Anchors(S), Anchors(T), p, c)
  BY <1>4, <1>6, AnchorsKept
<1> QED BY <1>2, <1>3, <1>7
-----------------------------------------------------------------------------
(* The ranges recomputation goes through. *)

Cover(changed, present) ==
    UNION {Impact(t, present) : t \in {x \in changed : x <= present /\ x >= present - Horizon}}

\* The merged ranges hold exactly the minutes the observations may change.
LEMMA RangesCover ==
    ASSUME NEW changed, NEW present
    PROVE  /\ \A r \in Ranges(changed, present) : r # {} /\ r \subseteq Cover(changed, present)
           /\ \A m \in Cover(changed, present) : \E r \in Ranges(changed, present) : m \in r
           /\ Cover(changed, present) \subseteq Minutes
<1> DEFINE cover == Cover(changed, present)
           starts == {m \in cover : m - 1 \notin cover}
           ends == {m \in cover : m + 1 \notin cover}
           stretches == {first..last : first \in starts, last \in ends}
<1>1. Ranges(changed, present) = {r \in stretches : r # {} /\ r \subseteq cover}
  BY DEF Ranges, Cover
<1>2. cover \subseteq Minutes
  BY DEF Cover, Impact
<1> HIDE DEF cover
<1>3. LastMinute \in Nat /\ Minutes = 0..LastMinute
  BY TogetherAssumption DEF Minutes
<1>4. ASSUME NEW m \in cover PROVE \E r \in Ranges(changed, present) : m \in r
  <2> DEFINE lows == {f \in 0..m : \A x \in f..m : x \in cover}
             highs == {l \in m..LastMinute : \A x \in m..l : x \in cover}
  <2>0. m \in Nat /\ m <= LastMinute
    BY <1>2, <1>3
  <2>1. lows \in SUBSET Nat /\ m \in lows
    BY <2>0
  <2>2. Min(lows) \in lows /\ \A x \in lows : Min(lows) <= x
    <3> HIDE DEF lows
    <3> QED BY <2>1, LeastInstant
  <2>3. highs \in SUBSET Nat /\ m \in highs /\ \A x \in highs : x <= LastMinute
    BY <2>0
  <2>4. Max(highs) \in highs /\ \A x \in highs : x <= Max(highs)
    <3> HIDE DEF highs
    <3> QED BY <1>3, <2>3, LatestInstant
  <2> DEFINE f == Min(lows)
             l == Max(highs)
  <2>5. f \in 0..m /\ l \in m..LastMinute /\ f..l \subseteq cover
    BY <2>0, <2>2, <2>4
  <2>6. f \in starts
    <3>1. f - 1 \notin lows
      BY <2>0, <2>2, <2>5
    <3>2. ASSUME f - 1 \in cover PROVE FALSE
      <4>1. f - 1 \in 0..m
        BY <1>2, <1>3, <2>0, <2>5, <3>2
      <4>2. \A x \in (f - 1)..m : x = f - 1 \/ x \in f..l
        BY <2>0, <2>5
      <4> QED BY <2>5, <3>1, <3>2, <4>1, <4>2
    <3> HIDE DEF f
    <3> QED BY <2>0, <2>5, <3>2
  <2>7. l \in ends
    <3>1. l + 1 \notin highs
      BY <2>0, <2>4, <2>5
    <3>2. ASSUME l + 1 \in cover PROVE FALSE
      <4>1. l + 1 \in m..LastMinute
        BY <1>2, <1>3, <2>0, <2>5, <3>2
      <4>2. \A x \in m..(l + 1) : x = l + 1 \/ x \in f..l
        BY <2>0, <2>5
      <4> QED BY <2>5, <3>1, <3>2, <4>1, <4>2
    <3> HIDE DEF l, f
    <3>3. l \in f..l
      BY <2>0, <2>5
    <3>4. l \in cover
      BY <2>5, <3>3
    <3> QED BY <3>2, <3>4
  <2> HIDE DEF f, l
  <2>8. m \in f..l
    BY <2>0, <2>5
  <2>9. f..l \in Ranges(changed, present)
    BY <1>1, <2>5, <2>6, <2>7, <2>8
  <2> QED BY <2>8, <2>9
<1>5. \A r \in Ranges(changed, present) : r # {} /\ r \subseteq cover
  <2> HIDE DEF stretches
  <2> QED BY <1>1
<1> QED BY <1>2, <1>4, <1>5 DEF cover

\* What a range counts from the samples around it, the whole timeline counts.
LEMMA ContextCounts ==
    ASSUME NEW T, Plain(T), NEW present \in Nat, NEW r \in SUBSET Minutes, NEW m \in r,
           Estimate(Anchors(Context(T, r, present)), m) \in CountedEvidence
    PROVE  Estimate(Anchors({s \in T : s.at <= present}), m) \in CountedEvidence
<1> DEFINE C == Context(T, r, present)
           W == {s \in T : s.at <= present}
<1>1. LastMinute \in Nat /\ Minutes = 0..LastMinute /\ Bridge \in Nat
  BY TogetherAssumption DEF Minutes
<1>2. r \in SUBSET Nat /\ r # {} /\ \A x \in r : x <= LastMinute
  BY <1>1
<1>3. Min(r) \in Nat /\ Max(r) \in Nat /\ Min(r) <= m /\ m <= Max(r) /\ m \in Nat
  BY <1>1, <1>2, LeastInstant, LatestInstant
<1>4. C \subseteq W /\ Plain(W) /\ \A s \in W : s.at \in Nat
  BY DEF Context, Plain
<1>5. \A s \in C : s.at >= Min(r) - Bridge
  BY DEF Context
<1>6. \A u \in W \ C : u.at < Min(r) - Bridge \/ u.at > Max(r) + 1 + Bridge
  BY <1>1, <1>3, <1>4 DEF Context
<1> HIDE DEF C, W
<1>7. ASSUME NEW p \in SampleTimes(C), NEW c \in SampleTimes(C), Between(Anchors(C), m, p, c)
      PROVE  Outside(C, W, c)
  <2>1. p <= m /\ c - p <= Bridge
    BY <1>7 DEF Between
  <2>2. p \in Nat /\ c \in Nat
    BY <1>4 DEF SampleTimes
  <2>3. c <= Max(r) + Bridge
    BY <1>1, <1>3, <2>1, <2>2
  <2>4. \A u \in W \ C : u.at > c \/ \A s \in C : u.at < s.at
    <3> TAKE u \in W \ C
    <3>1. u.at \in Nat
      BY <1>4
    <3>2. CASE u.at < Min(r) - Bridge
      BY <1>1, <1>3, <1>4, <1>5, <3>1, <3>2
    <3>3. CASE u.at > Max(r) + 1 + Bridge
      BY <1>1, <1>3, <2>2, <2>3, <3>1, <3>3
    <3> QED BY <1>6, <3>2, <3>3
  <2> QED BY <2>4 DEF Outside
<1>8. Estimate(Anchors(C), m) \in CountedEvidence
  BY DEF C
<1>9. Estimate(Anchors(W), m) \in CountedEvidence
  BY <1>3, <1>4, <1>7, <1>8, CountedKept
<1> QED BY <1>9 DEF W

\* Recomputation around the new samples is enough: each of them is later than all its
\* member's stored samples, so a minute out of their reach that was counted has
\* its evidence before them.
LEMMA RecomputedProven ==
    ASSUME NEW T, Plain(T), samples \subseteq T, minute \in Nat,
           \A u \in T \ samples : /\ u.at >= minute - Horizon
                                  /\ \A s \in samples : s.who = u.who => s.at < u.at,
           CountedTimeIsProven,
           NEW m \in Minutes \ standing, m >= minute - Horizon,
           Recomputed(T, SampleTimes(T \ samples), minute)[m] \in CountedEvidence
    PROVE  Estimate(Anchors({s \in T : s.at <= minute}), m) \in CountedEvidence
<1> DEFINE changed == SampleTimes(T \ samples)
           ranges == Ranges(changed, minute)
           S == {s \in samples : s.at <= minute}
           W == {s \in T : s.at <= minute}
<1>1. /\ LastMinute \in Nat /\ Minutes = 0..LastMinute /\ Bridge \in Nat /\ Fresh \in Nat
      /\ Horizon \in Nat /\ Fresh < Bridge
  BY TogetherAssumption DEF Minutes
<1>2. CASE \E r \in ranges : m \in r
  <2> DEFINE r == CHOOSE x \in ranges : m \in x
  <2>1. r \in ranges /\ m \in r
    BY <1>2
  <2>2. r \in SUBSET Minutes
    BY <2>1, RangesCover
  <2>3. Recomputed(T, changed, minute)[m] = Estimate([x \in ranges |-> Anchors(Context(T, x, minute))][r], m)
    BY <1>2 DEF Recomputed
  <2> HIDE DEF r
  <2>4. Estimate(Anchors(Context(T, r, minute)), m) \in CountedEvidence
    BY <2>1, <2>3
  <2> QED BY <2>1, <2>2, <2>4, ContextCounts
<1>3. CASE ~\E r \in ranges : m \in r
  <2>1. m \notin Cover(changed, minute)
    BY <1>3, RangesCover
  <2>2. Recomputed(T, changed, minute)[m] = minuteEvidence[m]
    BY <1>3 DEF Recomputed
  <2>3. Estimate(Anchors(S), m) \in CountedEvidence
    BY <2>2 DEF CountedTimeIsProven
  <2>4. S \subseteq W /\ Plain(W) /\ Plain(S) /\ \A s \in W : s.at \in Nat /\ s.at <= minute
    BY DEF Plain
  <2>5. \A u \in W \ S : u \in T \ samples /\ u.at \in changed
    BY DEF SampleTimes
  <2> HIDE DEF S, W
  <2>6. ASSUME NEW p \in SampleTimes(S), NEW c \in SampleTimes(S), Between(Anchors(S), m, p, c),
               NEW u \in W \ S
        PROVE  u.at > c
    <3>1. p <= m /\ m < c /\ c - p <= Bridge
      BY <2>6 DEF Between
    <3>2. p \in Nat /\ c \in Nat /\ c <= minute /\ u.at \in Nat /\ u.at <= minute /\ m \in Nat
      BY <1>1, <2>4 DEF SampleTimes
    <3>3. u \in T \ samples /\ u.at \in changed /\ u.at >= minute - Horizon
      BY <2>5
    <3>4. m \notin Impact(u.at, minute)
      <4> HIDE DEF changed
      <4> QED BY <2>1, <3>2, <3>3 DEF Cover
    <3>5. m < u.at - Bridge \/ m >= u.at + Bridge
      BY <1>1, <3>1, <3>2, <3>4 DEF Impact
    <3>6. CASE m < u.at - Bridge
      BY <1>1, <3>1, <3>2, <3>6
    <3>7. CASE m >= u.at + Bridge
      <4>1. Anchor(S, c) = "nearby"
        BY <2>6 DEF Between, Anchors
      <4>2. u.who \in Partners
        BY <3>3 DEF Plain
      <4>3. PICK s \in KnownBy(S, u.who, c) : s.at >= c - Fresh
        BY <2>4, <3>2, <4>1, <4>2, NearbyKnown
      <4>4. s \in samples /\ s.who = u.who
        BY <4>3 DEF KnownBy, S
      <4>5. s.at < u.at /\ s.at \in Nat
        BY <3>3, <4>4 DEF Plain
      <4> QED BY <1>1, <3>1, <3>2, <3>7, <4>3, <4>5
    <3> QED BY <3>5, <3>6, <3>7
  <2>7. Estimate(Anchors(W), m) \in CountedEvidence
    BY <1>1, <2>3, <2>4, <2>6, CountedKept DEF Outside
  <2> QED BY <2>7 DEF W
<1> QED BY <1>2, <1>3

-----------------------------------------------------------------------------
(* The live state from the two newest samples of each member. *)

\* The later samples of a sample's member.
LaterOnes(S, s, present) == {t \in S : t.who = s.who /\ t.at <= present /\ t.at > s.at}

\* A sample with at most one later one of its member is among them.
LEMMA InStreams ==
    ASSUME NEW S, NEW present, NEW s \in S, s.at <= present,
           \A t, u \in LaterOnes(S, s, present) : t = u
    PROVE  s \in LatestStreams(S, present)
<1> DEFINE later == LaterOnes(S, s, present)
<1>0. Cardinality(later) < 2 => s \in LatestStreams(S, present)
  BY DEF LatestStreams, LaterOnes
<1>1. CASE later = {}
  <2>1. Cardinality(later) < 2
    BY <1>1, FS_EmptySet
  <2> QED BY <1>0, <2>1
<1>2. CASE later # {}
  <2>1. PICK u : u \in later
    BY <1>2
  <2>2. later = {u}
    BY <2>1
  <2>3. Cardinality(later) = 1
    <3> HIDE DEF later
    <3> QED BY <2>2, FS_Singleton
  <2>4. Cardinality(later) < 2
    BY <2>3
  <2> QED BY <1>0, <2>4
<1> QED BY <1>1, <1>2

\* They hold the newest sample of each member at any instant that only the last one
\* follows.
LEMMA StreamsBest ==
    ASSUME NEW S, IsFiniteSet(S), Plain(S), NEW present \in Nat, NEW last, NEW t \in Nat, t <= present,
           \A s \in S : s.at <= present => s.at <= t \/ s.at = last
    PROVE  SameBest({s \in S : s.at <= present}, LatestStreams(S, present), t)
<1> DEFINE K == {s \in S : s.at <= present}
           L == LatestStreams(S, present)
<1>1. L \subseteq K /\ Plain(K) /\ Plain(L)
  BY DEF LatestStreams, Plain
<1>2. ASSUME NEW p \in Partners, KnownBy(K, p, t) # {}
      PROVE  KnownBy(L, p, t) # {} /\ Best(KnownBy(K, p, t)) = Best(KnownBy(L, p, t))
  <2> DEFINE b == Best(KnownBy(K, p, t))
  <2>1. b \in KnownBy(K, p, t) /\ \A u \in KnownBy(K, p, t) : u.at <= b.at
    BY <1>1, <1>2, BestKnown
  <2> HIDE DEF b
  <2>2. b \in S /\ b.at <= present /\ b.who = p /\ b.at <= t /\ b.at \in Nat
    BY <2>1 DEF KnownBy, Plain
  <2>3. ASSUME NEW u \in S, u.who = p, u.at <= present, u.at > b.at PROVE u.at = last
    <3>1. u.at \in Nat
      BY DEF Plain
    <3>2. u \notin KnownBy(K, p, t)
      BY <2>1, <2>2, <2>3, <3>1
    <3> QED BY <2>3, <3>2 DEF KnownBy
  <2>4. b \in L
    <3>1. ASSUME NEW x \in LaterOnes(S, b, present), NEW u \in LaterOnes(S, b, present)
          PROVE  x = u
      <4>1. x \in S /\ u \in S /\ x.who = p /\ u.who = p
        BY <2>2 DEF LaterOnes
      <4>2. x.at = last /\ u.at = last
        BY <2>2, <2>3 DEF LaterOnes
      <4> QED BY <4>1, <4>2 DEF Plain
    <3> QED BY <2>2, <3>1, InStreams
  <2>5. b \in KnownBy(L, p, t) /\ \A u \in KnownBy(L, p, t) : u.at <= b.at
    BY <1>1, <2>1, <2>2, <2>4 DEF KnownBy
  <2>6. Best(KnownBy(L, p, t)) = b
    BY <1>1, <2>5, BestIs
  <2> QED BY <2>5, <2>6 DEF b
<1>3. ASSUME NEW p \in Partners, KnownBy(K, p, t) = {} PROVE KnownBy(L, p, t) = {}
  BY <1>1, <1>3 DEF KnownBy
<1> QED BY <1>2, <1>3 DEF SameBest

\* The projection of what is known, by its last instant and the last mutual one.
LastOf(K, p) == Max({s.at : s \in {x \in K : x.who = p}})
Mutual(K) == Min({LastOf(K, p) : p \in Partners})

NearBefore(K, last) ==
    LET earlier == SampleTimes(K) \ {last}
    IN  /\ earlier # {}
        /\ Anchor(K, Max(earlier)) = "nearby"
        /\ last - Max(earlier) <= Fresh

SeenAt(K, last, mutual, t) ==
    CASE Anchor(K, last) = "stale" \/ mutual + Fresh <= t -> "stale"
      [] OTHER ->
         IF Anchor(K, last) # "nearby" THEN Anchor(K, last)
         ELSE IF NearBefore(K, last) THEN "nearby" ELSE "confirming"

Seen(K, t) ==
    IF \E p \in Partners : ~\E s \in K : s.who = p THEN "waiting_for_partner"
    ELSE SeenAt(K, Max(SampleTimes(K)), Mutual(K), t)

LEMMA ProjectionSees ==
    ASSUME NEW S, NEW t
    PROVE  Projection(S, t) = Seen({s \in S : s.at <= t}, t)
  BY DEF Projection, Seen, SeenAt, NearBefore, Mutual, LastOf

LEMMA StreamsShow ==
    ASSUME NEW S, IsFiniteSet(S), Plain(S), NEW present \in Nat
    PROVE  Projection(LatestStreams(S, present), present) = Projection(S, present)
<1> DEFINE K == {s \in S : s.at <= present}
           L == LatestStreams(S, present)
<1>1. {s \in L : s.at <= present} = L
  BY DEF LatestStreams
<1>2. Projection(S, present) = Seen(K, present) /\ Projection(L, present) = Seen(L, present)
  BY <1>1, ProjectionSees
<1>3. L \subseteq K /\ Plain(K) /\ Plain(L)
  BY DEF LatestStreams, Plain
<1>4. \A s \in K : s.at \in Nat /\ s.at <= present
  BY DEF Plain
<1>5. SampleTimes(K) \in SUBSET Nat /\ SampleTimes(L) \subseteq SampleTimes(K)
      /\ \A x \in SampleTimes(K) : x <= present
  BY <1>3, <1>4 DEF SampleTimes
<1>6. SameBest(K, L, present)
  <2>1. \A s \in S : s.at <= present => s.at <= present \/ s.at = present
    OBVIOUS
  <2> QED BY <2>1, StreamsBest
<1>7. \A p \in Partners : (\E s \in K : s.who = p) <=> (\E s \in L : s.who = p)
  <2> TAKE p \in Partners
  <2>1. KnownBy(K, p, present) = {} <=> KnownBy(L, p, present) = {}
    BY <1>6 DEF SameBest
  <2> HIDE DEF K, L
  <2> QED BY <1>3, <1>4, <2>1 DEF KnownBy
<1>8. CASE \E p \in Partners : ~\E s \in K : s.who = p
  <2>1. Seen(K, present) = "waiting_for_partner"
    BY <1>8 DEF Seen
  <2>2. Seen(L, present) = "waiting_for_partner"
    BY <1>7, <1>8 DEF Seen
  <2> QED BY <1>2, <2>1, <2>2
<1>9. CASE \A p \in Partners : \E s \in K : s.who = p
  <2> DEFINE last == Max(SampleTimes(K))
             earlier(X) == SampleTimes(X) \ {last}
             prior == Max(earlier(K))
  <2>1. \A p \in Partners : LastOf(K, p) = LastOf(L, p)
    <3> TAKE p \in Partners
    <3> DEFINE b == Best(KnownBy(K, p, present))
               kt == {s.at : s \in {x \in K : x.who = p}}
               lt == {s.at : s \in {x \in L : x.who = p}}
    <3>1. KnownBy(K, p, present) # {} /\ KnownBy(L, p, present) # {}
          /\ Best(KnownBy(L, p, present)) = b
      BY <1>4, <1>6, <1>9 DEF KnownBy, SameBest
    <3>2. /\ b \in KnownBy(K, p, present) /\ \A u \in KnownBy(K, p, present) : u.at <= b.at
          /\ b \in KnownBy(L, p, present)
      BY <1>3, <3>1, BestKnown
    <3> HIDE DEF b, K, L
    <3>3. b.at \in kt /\ b.at \in lt /\ lt \subseteq kt /\ kt \in SUBSET Nat
      BY <1>3, <1>4, <3>2 DEF KnownBy
    <3>4. \A x \in kt : x <= b.at
      BY <1>4, <3>2 DEF KnownBy
    <3> HIDE DEF kt, lt
    <3>5. Max(kt) \in kt /\ \A x \in kt : x <= Max(kt)
      BY <3>3, <3>4, LatestInstant
    <3>6. Max(lt) \in lt /\ \A x \in lt : x <= Max(lt)
      BY <3>3, <3>4, LatestInstant
    <3>7. Max(kt) = b.at /\ Max(lt) = b.at
      <4>1. Max(kt) \in Nat /\ Max(lt) \in Nat /\ b.at \in Nat
        BY <3>3, <3>5, <3>6
      <4>2. Max(kt) <= b.at /\ Max(lt) <= b.at /\ b.at <= Max(kt) /\ b.at <= Max(lt)
        BY <3>3, <3>4, <3>5, <3>6
      <4> QED BY <4>1, <4>2
    <3> QED BY <3>7 DEF kt, lt, LastOf
  <2>2. last \in SampleTimes(K) /\ \A x \in SampleTimes(K) : x <= last
    <3>1. SampleTimes(K) # {}
      BY <1>9, TwoPartners DEF SampleTimes
    <3> HIDE DEF K
    <3> QED BY <1>5, <3>1, LatestInstant
  <2> HIDE DEF last
  <2>3. last \in Nat /\ last <= present
    BY <1>5, <2>2
  <2>4. SameBest(K, L, last)
    <3>1. \A s \in S : s.at <= present => s.at <= last \/ s.at = last
      BY <2>2 DEF SampleTimes
    <3> QED BY <2>3, <3>1, StreamsBest
  <2>5. last \in SampleTimes(L)
    <3>1. PICK s \in K : s.at = last
      BY <2>2 DEF SampleTimes
    <3>2. LaterOnes(S, s, present) = {}
      BY <2>2, <2>3, <3>1, <1>4 DEF SampleTimes, LaterOnes
    <3>3. s \in L
      BY <3>1, <3>2, InStreams
    <3> QED BY <3>1, <3>3 DEF SampleTimes
  <2>6. Max(SampleTimes(L)) = last
    <3> HIDE DEF K, L
    <3>1. Max(SampleTimes(L)) \in SampleTimes(L) /\ \A x \in SampleTimes(L) : x <= Max(SampleTimes(L))
      <4>1. SampleTimes(L) \in SUBSET Nat /\ SampleTimes(L) # {} /\ \A x \in SampleTimes(L) : x <= present
        BY <1>5, <2>5
      <4> QED BY <4>1, LatestInstant
    <3>2. Max(SampleTimes(L)) \in Nat /\ Max(SampleTimes(L)) <= last /\ last <= Max(SampleTimes(L))
      BY <1>5, <2>2, <2>5, <3>1
    <3> QED BY <2>3, <3>2
  <2>7. Anchor(K, last) = Anchor(L, last)
    BY <2>4, AnchorSame
  <2> DEFINE mutual == Mutual(K)
  <2>10. /\ Seen(K, present) = SeenAt(K, last, mutual, present)
         /\ Seen(L, present) = SeenAt(L, last, mutual, present)
    <3>1. Mutual(L) = mutual
      BY <2>1 DEF Mutual
    <3>2. Seen(K, present) = SeenAt(K, last, mutual, present)
      BY <1>9 DEF Seen, last
    <3>3. Seen(L, present) = SeenAt(L, Max(SampleTimes(L)), Mutual(L), present)
      BY <1>7, <1>9 DEF Seen
    <3> QED BY <2>6, <3>1, <3>2, <3>3
  <2> HIDE DEF mutual, K, L
  <2>8. CASE earlier(K) = {}
    <3>1. earlier(L) = {}
      BY <1>5, <2>8
    <3>2. ~NearBefore(K, last) /\ ~NearBefore(L, last)
      BY <2>8, <3>1 DEF NearBefore
    <3>3. SeenAt(K, last, mutual, present) = SeenAt(L, last, mutual, present)
      BY <2>7, <3>2 DEF SeenAt
    <3> QED BY <1>2, <2>10, <3>3 DEF L
  <2>9. CASE earlier(K) # {}
    <3>1. prior \in earlier(K) /\ \A x \in earlier(K) : x <= prior
      <4>1. earlier(K) \in SUBSET Nat /\ \A x \in earlier(K) : x <= present
        BY <1>5
      <4> HIDE DEF earlier
      <4> QED BY <2>9, <4>1, LatestInstant
    <3> HIDE DEF prior
    <3>2. prior \in Nat /\ prior <= present /\ prior \in SampleTimes(K) /\ prior # last
      BY <1>5, <3>1
    <3>3. \A s \in S : s.at <= present => s.at <= prior \/ s.at = last
      BY <3>1 DEF SampleTimes, K
    <3>4. Anchor(K, prior) = Anchor(L, prior)
      <4>1. SameBest(K, L, prior)
        BY <3>2, <3>3, StreamsBest DEF K, L
      <4> QED BY <4>1, AnchorSame
    <3>5. prior \in SampleTimes(L)
      <4>1. PICK s \in K : s.at = prior
        BY <3>2 DEF SampleTimes
      <4>2. ASSUME NEW x \in LaterOnes(S, s, present), NEW u \in LaterOnes(S, s, present)
            PROVE  x = u
        <5>1. x \in S /\ u \in S /\ x.who = u.who
          BY DEF LaterOnes
        <5>2. x.at = last /\ u.at = last
          <6>1. prior \in Nat /\ x.at \in Nat /\ u.at \in Nat /\ s.at = prior
            BY <3>2, <4>1, <5>1 DEF Plain
          <6> QED BY <3>3, <6>1 DEF LaterOnes
        <5> QED BY <5>1, <5>2 DEF Plain
      <4>3. s \in L
        BY <4>1, <4>2, InStreams DEF K, L
      <4> QED BY <4>1, <4>3 DEF SampleTimes
    <3>6. prior \in earlier(L) /\ \A x \in earlier(L) : x <= prior
      BY <1>5, <3>1, <3>2, <3>5
    <3>7. Max(earlier(L)) = prior
      <4>1. earlier(L) \in SUBSET Nat
        BY <1>5
      <4> HIDE DEF earlier
      <4>2. Max(earlier(L)) \in earlier(L) /\ \A x \in earlier(L) : x <= Max(earlier(L))
        BY <3>2, <3>6, <4>1, LatestInstant
      <4> QED BY <3>2, <3>6, <4>1, <4>2
    <3>8. earlier(L) # {}
      BY <3>6
    <3>9. prior = Max(earlier(K))
      BY DEF prior
    <3>10. NearBefore(K, last) <=> NearBefore(L, last)
      BY <2>9, <3>4, <3>7, <3>8, <3>9 DEF NearBefore
    <3>11. SeenAt(K, last, mutual, present) = SeenAt(L, last, mutual, present)
      BY <2>7, <3>10 DEF SeenAt
    <3> QED BY <1>2, <2>10, <3>11 DEF L
  <2> QED BY <2>8, <2>9
<1> QED BY <1>8, <1>9

-----------------------------------------------------------------------------
(* Totals of days. *)

\* A later minute is of no earlier day.
LEMMA DaysInOrder ==
    ASSUME NEW m \in Minutes, NEW z \in {0, 1}
    PROVE  DayOf(m, z) \in Days
<1> DEFINE k == DayLength
           a == m + z
           b == LastMinute + 1
<1>1. k \in Nat /\ k > 0 /\ a \in Nat /\ b \in Nat /\ a <= b
  BY TogetherAssumption DEF Minutes
<1> HIDE DEF k, a, b
<1> DEFINE q == a \div k
           r == b \div k
<1>2. q \in Int /\ r \in Int /\ a = k * q + (a % k) /\ b = k * r + (b % k)
      /\ a % k \in 0..(k - 1) /\ b % k \in 0..(k - 1)
  BY <1>1
<1> HIDE DEF q, r
<1>3. q >= 0
  <2> SUFFICES ASSUME q <= -1 PROVE FALSE
    BY <1>2
  <2>1. k * q <= k * (-1)
    BY <1>1, <1>2
  <2> QED BY <1>1, <1>2, <2>1
<1>4. q <= r
  <2> SUFFICES ASSUME q >= r + 1 PROVE FALSE
    BY <1>2
  <2>1. k * q >= k * (r + 1)
    BY <1>1, <1>2
  <2>2. k * (r + 1) = k * r + k
    BY <1>1, <1>2
  <2> QED BY <1>1, <1>2, <2>1, <2>2
<1>5. q \in 0..r
  BY <1>2, <1>3, <1>4
<1> QED BY <1>5 DEF Days, DayOf, q, r, a, b, k

DayShape == dayTotals \in [Days -> [stored : BOOLEAN, estimate : Nat, corrected : {-1, 0},
                                    revision : Nat]]

DaysMatch ==
    ~moved => \A d \in Days : dayTotals[d].estimate = CountedOn(minuteEvidence, d, zone)

\* The minutes of some days that the summary counts.
MinutesOf(s) ==
    {m \in Minutes : /\ minuteEvidence[m] \in CountedEvidence /\ DayOf(m, zone) \in s
                     /\ dayTotals[DayOf(m, zone)].corrected = -1}

DayValue(d) == IF dayTotals[d].corrected = -1 THEN dayTotals[d].estimate
               ELSE dayTotals[d].corrected

LEMMA MinutesFinite ==
    /\ IsFiniteSet(Minutes)
    /\ \A T \in SUBSET Minutes : IsFiniteSet(T) /\ Cardinality(T) \in Nat
<1>1. IsFiniteSet(Minutes)
  BY FS_Interval, TogetherAssumption DEF Minutes
<1> QED BY <1>1, FS_Subset, FS_CardinalityType

LEMMA OneMoreDay ==
    ASSUME DayShape, \A d \in Days : dayTotals[d].estimate = CountedOn(minuteEvidence, d, zone),
           NEW s \in SUBSET Days, NEW x \in s
    PROVE  Cardinality(MinutesOf(s)) = DayValue(x) + Cardinality(MinutesOf(s \ {x}))
<1> DEFINE one == MinutesOf({x})
           rest == MinutesOf(s \ {x})
<1>1. one \cup rest = MinutesOf(s) /\ one \cap rest = {}
  BY DEF MinutesOf
<1>2. IsFiniteSet(one) /\ IsFiniteSet(rest) /\ Cardinality(one) \in Nat /\ Cardinality(rest) \in Nat
  <2>1. one \in SUBSET Minutes /\ rest \in SUBSET Minutes
    BY DEF MinutesOf
  <2> HIDE DEF one, rest
  <2> QED BY <2>1, MinutesFinite
<1>3. Cardinality(one) = DayValue(x)
  <2>1. CASE dayTotals[x].corrected = -1
    <3>1. one = {m \in Minutes : minuteEvidence[m] \in CountedEvidence /\ DayOf(m, zone) = x}
      BY <2>1 DEF MinutesOf
    <3> QED BY <2>1, <3>1 DEF DayValue, CountedOn
  <2>2. CASE dayTotals[x].corrected # -1
    <3>1. one = {}
      BY <2>2 DEF MinutesOf
    <3>2. dayTotals[x].corrected = 0
      BY <2>2 DEF DayShape
    <3> QED BY <2>2, <3>1, <3>2, FS_EmptySet DEF DayValue
  <2> QED BY <2>1, <2>2
<1> HIDE DEF one, rest
<1>4. Cardinality(one \cup rest) = Cardinality(one) + Cardinality(rest)
  <2>1. Cardinality(one \cap rest) = 0
    BY <1>1, FS_EmptySet
  <2>2. Cardinality(one \cup rest) = Cardinality(one) + Cardinality(rest)
                                        - Cardinality(one \cap rest)
    BY <1>2, FS_Union
  <2> QED BY <1>2, <2>1, <2>2
<1> QED BY <1>1, <1>3, <1>4 DEF rest

\* The sum over the days is the number of their minutes.
LEMMA SumOfDays ==
    ASSUME DayShape, \A d \in Days : dayTotals[d].estimate = CountedOn(minuteEvidence, d, zone)
    PROVE  ObservedMinutes = Cardinality(MinutesOf(Days))
<1> DEFINE Adds(f) == f = [s \in SUBSET Days |->
                              IF s = {} THEN 0
                              ELSE DayValue(CHOOSE x \in s : TRUE)
                                       + f[s \ {CHOOSE x \in s : TRUE}]]
           sum == CHOOSE f : Adds(f)
<1>1. ObservedMinutes = sum[Days]
  BY DEF ObservedMinutes, MapThenSumSet, MapThenFoldSet, DayValue
<1> DEFINE count == [s \in SUBSET Days |-> Cardinality(MinutesOf(s))]
           pick(s) == CHOOSE x \in s : TRUE
<1>2. ASSUME NEW s \in SUBSET Days, s # {}
      PROVE  Cardinality(MinutesOf(s)) = DayValue(pick(s)) + Cardinality(MinutesOf(s \ {pick(s)}))
  <2>1. pick(s) \in s
    BY <1>2
  <2> HIDE DEF pick
  <2> QED BY <2>1, OneMoreDay
<1>3. Cardinality(MinutesOf({})) = 0
  <2>1. MinutesOf({}) = {}
    BY DEF MinutesOf
  <2> QED BY <2>1, FS_EmptySet
<1>4. Adds(count)
  <2>1. \A s \in SUBSET Days :
           count[s] = IF s = {} THEN 0 ELSE DayValue(pick(s)) + count[s \ {pick(s)}]
    <3> TAKE s \in SUBSET Days
    <3>1. s \ {pick(s)} \in SUBSET Days
      OBVIOUS
    <3> QED BY <1>2, <1>3, <3>1
  <2> QED BY <2>1
<1>5. Adds(sum)
  <2> HIDE DEF Adds, count
  <2> QED BY <1>4
<1>6. \A s \in SUBSET Days :
         sum[s] = IF s = {} THEN 0 ELSE DayValue(pick(s)) + sum[s \ {pick(s)}]
  <2> HIDE DEF sum
  <2> QED BY <1>5
<1> HIDE DEF Adds, sum
<1>7. IsFiniteSet(Days)
  BY FS_Interval, TogetherAssumption DEF Days, DayOf
<1> DEFINE bad == {n \in Nat : \E s \in SUBSET Days : Cardinality(s) = n /\ sum[s] # count[s]}
<1>8. bad = {}
  <2> SUFFICES ASSUME bad # {} PROVE FALSE
    OBVIOUS
  <2>1. bad \in SUBSET Nat
    OBVIOUS
  <2>2. Min(bad) \in bad /\ \A n \in bad : Min(bad) <= n
    <3> HIDE DEF bad
    <3> QED BY <2>1, LeastInstant
  <2>3. PICK s \in SUBSET Days : Cardinality(s) = Min(bad) /\ sum[s] # count[s]
    BY <2>2
  <2>4. s # {}
    BY <1>3, <1>6, <2>3
  <2>5. pick(s) \in s
    BY <2>4
  <2>6. IsFiniteSet(s) /\ Cardinality(s) \in Nat
    BY <1>7, FS_Subset, FS_CardinalityType
  <2> DEFINE rest == s \ {pick(s)}
  <2> HIDE DEF pick
  <2>7. rest \in SUBSET Days /\ Cardinality(rest) = Cardinality(s) - 1 /\ Cardinality(rest) \in Nat
    <3>1. IsFiniteSet(rest) /\ Cardinality(rest) = Cardinality(s) - 1
      BY <2>5, <2>6, FS_RemoveElement
    <3> QED BY <3>1, FS_CardinalityType
  <2>8. Cardinality(rest) \notin bad
    <3> HIDE DEF bad, rest
    <3>1. ASSUME Cardinality(rest) \in bad PROVE FALSE
      <4>1. Cardinality(s) <= Cardinality(rest)
        BY <2>2, <2>3, <3>1
      <4> QED BY <2>6, <2>7, <4>1
    <3> QED BY <3>1
  <2>9. sum[rest] = count[rest]
    BY <2>7, <2>8
  <2>10. count[s] = DayValue(pick(s)) + count[rest]
    BY <1>2, <2>4, <2>7
  <2>11. sum[s] = DayValue(pick(s)) + sum[rest]
    BY <1>6, <2>4
  <2> QED BY <2>3, <2>9, <2>10, <2>11
<1>9. sum[Days] = count[Days]
  <2>1. Cardinality(Days) \in Nat
    BY <1>7, FS_CardinalityType
  <2> HIDE DEF count
  <2> QED BY <1>8, <2>1
<1> QED BY <1>1, <1>9

-----------------------------------------------------------------------------
(* The invariant. *)

\* A phone's rows and the server's are one record of its fixes.
RowsAreFixes ==
    /\ minute \in Nat
    /\ IsFiniteSet(samples) /\ Plain(samples)
    /\ fixQueue = [p \in Partners |-> fixQueue[p]]
    /\ \A p \in Partners : /\ IsFiniteSet(fixQueue[p])
                           /\ \A s \in fixQueue[p] : s.who = p
                           /\ Plain(fixQueue[p] \cup samples)
                           /\ \A s \in fixQueue[p] \cup samples :
                                 s.who = p => s.at <= minute + ClockAhead[p]

\* A row the server would still take comes after everything it has of that phone.
SentInOrder ==
    \A p \in Partners : \A s \in fixQueue[p] \ samples :
        s.at >= minute - Horizon => \A t \in samples : t.who = p => t.at < s.at

TogetherInv ==
    /\ RowsAreFixes /\ SentInOrder /\ CountedTimeIsProven
    /\ zone \in {0, 1} /\ DayShape /\ DaysMatch

\* Withdrawn, refused and expired rows leave the others in order.
LEMMA RowsRemoved ==
    ASSUME TogetherInv, minute' = minute,
           samples' \subseteq samples,
           samples' = {} \/ \A s \in samples \ samples' : s.at < minute - Horizon,
           fixQueue' = [p \in Partners |-> fixQueue'[p]],
           \A p \in Partners : fixQueue'[p] \subseteq fixQueue[p]
    PROVE  RowsAreFixes' /\ SentInOrder'
<1>1. RowsAreFixes'
  <2>1. IsFiniteSet(samples') /\ \A p \in Partners : IsFiniteSet(fixQueue'[p])
    <3>1. IsFiniteSet(samples')
      BY FS_Subset DEF TogetherInv, RowsAreFixes
    <3>2. ASSUME NEW p \in Partners PROVE IsFiniteSet(fixQueue'[p])
      BY FS_Subset DEF TogetherInv, RowsAreFixes
    <3> QED BY <3>1, <3>2
  <2>2. Plain(samples)'
    BY DEF TogetherInv, RowsAreFixes, Plain
  <2>3. ASSUME NEW p \in Partners
        PROVE  /\ \A s \in fixQueue'[p] : s.who = p
               /\ Plain(fixQueue'[p] \cup samples')
               /\ \A s \in fixQueue'[p] \cup samples' : s.who = p => s.at <= minute' + ClockAhead[p]
    <3>1. fixQueue'[p] \cup samples' \subseteq fixQueue[p] \cup samples
      OBVIOUS
    <3> QED BY <3>1 DEF TogetherInv, RowsAreFixes, Plain
  <2> QED BY <2>1, <2>2, <2>3 DEF TogetherInv, RowsAreFixes
<1>2. SentInOrder'
  <2> SUFFICES ASSUME NEW p \in Partners, NEW s \in fixQueue'[p] \ samples',
                      s.at >= minute - Horizon, NEW t \in samples', t.who = p
               PROVE  t.at < s.at
    BY DEF SentInOrder
  <2>1. s \in fixQueue[p] /\ t \in samples
    OBVIOUS
  <2>2. s.at \in Nat /\ minute \in Nat /\ Horizon \in Nat
    BY <2>1, TogetherAssumption DEF TogetherInv, RowsAreFixes, Plain
  <2>3. s \notin samples
    BY <2>2
  <2> QED BY <2>1, <2>3 DEF TogetherInv, SentInOrder
<1> QED BY <1>1, <1>2

\* Some of a phone's oldest rows are stored.
LEMMA RowsStored ==
    ASSUME TogetherInv, minute' = minute, NEW p \in Partners, NEW B \in SUBSET fixQueue[p],
           NEW Q \in SUBSET fixQueue[p],
           samples' = samples \cup B, fixQueue' = [fixQueue EXCEPT ![p] = Q],
           \A s \in Q \ (samples \cup B), t \in B : t.at < s.at
    PROVE  RowsAreFixes' /\ SentInOrder'
<1>0. \A q \in Partners : fixQueue'[q] = IF q = p THEN Q ELSE fixQueue[q]
  BY DEF TogetherInv, RowsAreFixes
<1>1. RowsAreFixes'
  <2>1. IsFiniteSet(samples')
    <3>1. IsFiniteSet(B) /\ IsFiniteSet(samples)
      BY FS_Subset DEF TogetherInv, RowsAreFixes
    <3> QED BY <3>1, FS_Union
  <2>2. Plain(samples)'
    BY DEF TogetherInv, RowsAreFixes, Plain
  <2>3. ASSUME NEW q \in Partners
        PROVE  /\ IsFiniteSet(fixQueue'[q])
               /\ \A s \in fixQueue'[q] : s.who = q
               /\ Plain(fixQueue'[q] \cup samples')
               /\ \A s \in fixQueue'[q] \cup samples' : s.who = q => s.at <= minute' + ClockAhead[q]
    <3>1. fixQueue'[q] \subseteq fixQueue[q]
      BY <1>0
    <3>2. IsFiniteSet(fixQueue'[q])
      BY <3>1, FS_Subset DEF TogetherInv, RowsAreFixes
    <3>3. /\ \A s \in fixQueue[q] : s.who = q
          /\ \A s \in fixQueue[p] : s.who = p
          /\ Plain(fixQueue[q] \cup samples) /\ Plain(fixQueue[p] \cup samples)
          /\ \A s \in fixQueue[q] \cup samples : s.who = q => s.at <= minute + ClockAhead[q]
          /\ \A s \in fixQueue[p] \cup samples : s.who = p => s.at <= minute + ClockAhead[p]
      BY DEF TogetherInv, RowsAreFixes
    <3>4. Plain(fixQueue'[q] \cup samples')
      <4> SUFFICES ASSUME NEW s \in fixQueue'[q] \cup samples'
                   PROVE  /\ s.who \in Partners /\ s.at \in Nat
                          /\ \A u \in fixQueue'[q] \cup samples' :
                                u.who = s.who /\ u.at = s.at => u = s
        BY DEF Plain
      <4>1. s \in fixQueue[q] \cup samples \/ s \in fixQueue[p] \cup samples
        BY <3>1
      <4>2. s.who \in Partners /\ s.at \in Nat
        BY <3>3, <4>1 DEF Plain
      <4>3. ASSUME NEW u \in fixQueue'[q] \cup samples', u.who = s.who, u.at = s.at PROVE u = s
        <5>1. u \in fixQueue[q] \cup samples \/ u \in fixQueue[p] \cup samples
          BY <3>1
        <5>2. CASE s.who = p
          BY <3>1, <3>3, <4>3, <5>2 DEF Plain
        <5>3. CASE s.who # p
          BY <3>1, <3>3, <4>3, <5>3 DEF Plain
        <5> QED BY <5>2, <5>3
      <4> QED BY <4>2, <4>3
    <3>5. \A s \in fixQueue'[q] \cup samples' : s.who = q => s.at <= minute' + ClockAhead[q]
      BY <3>1, <3>3
    <3> QED BY <3>1, <3>2, <3>3, <3>4, <3>5
  <2> QED BY <2>1, <2>2, <2>3 DEF TogetherInv, RowsAreFixes
<1>2. SentInOrder'
  <2> SUFFICES ASSUME NEW q \in Partners, NEW s \in fixQueue'[q] \ samples',
                      s.at >= minute - Horizon, NEW t \in samples', t.who = q
               PROVE  t.at < s.at
    BY DEF SentInOrder
  <2>1. s \in fixQueue[q] \ samples
    BY <1>0
  <2>2. CASE t \in samples
    BY <2>1, <2>2 DEF TogetherInv, SentInOrder
  <2>3. CASE t \notin samples
    <3>1. t \in B /\ t.who = p
      BY <2>3 DEF TogetherInv, RowsAreFixes
    <3>2. s \in Q \ (samples \cup B)
      BY <1>0, <3>1
    <3> QED BY <3>1, <3>2
  <2> QED BY <2>2, <2>3
<1> QED BY <1>1, <1>2

\* A new fix is later than all before it.
LEMMA RowTaken ==
    ASSUME TogetherInv, NEW p \in Partners, NEW place, Collect(p, place, ClockAhead[p])
    PROVE  RowsAreFixes' /\ SentInOrder'
<1> DEFINE x == [who |-> p, at |-> minute + ClockAhead[p], place |-> place]
           Q == Newest(fixQueue[p] \cup {x}, QueueCap)
<1>1. /\ fixQueue' = [fixQueue EXCEPT ![p] = Q] /\ minute' = minute /\ samples' = samples
      /\ ~\E s \in fixQueue[p] \cup samples : s.who = p /\ s.at = minute + ClockAhead[p]
  BY DEF Collect
<1>2. Q \subseteq fixQueue[p] \cup {x}
  BY DEF Newest
<1>3. x.who = p /\ x.at = minute + ClockAhead[p] /\ x.at \in Nat
  BY TogetherAssumption DEF TogetherInv, RowsAreFixes
<1> HIDE DEF x, Q
<1>4. \A q \in Partners : fixQueue'[q] = IF q = p THEN Q ELSE fixQueue[q]
  BY <1>1 DEF TogetherInv, RowsAreFixes
<1>5. /\ \A q \in Partners : \A s \in fixQueue[q] : s.who = q
      /\ \A q \in Partners : Plain(fixQueue[q] \cup samples)
      /\ \A s \in fixQueue[p] \cup samples : s.who = p => s.at <= x.at
  BY <1>3 DEF TogetherInv, RowsAreFixes
<1>6. \A s \in fixQueue[p] \cup samples : s.who = p => s.at < x.at
  BY <1>1, <1>3, <1>5 DEF Plain
<1>7. RowsAreFixes'
  <2>1. IsFiniteSet(Q)
    <3>1. IsFiniteSet(fixQueue[p] \cup {x})
      BY FS_AddElement DEF TogetherInv, RowsAreFixes
    <3> QED BY <1>2, <3>1, FS_Subset
  <2>2. ASSUME NEW q \in Partners
        PROVE  /\ IsFiniteSet(fixQueue'[q])
               /\ \A s \in fixQueue'[q] : s.who = q
               /\ Plain(fixQueue'[q] \cup samples')
               /\ \A s \in fixQueue'[q] \cup samples' : s.who = q => s.at <= minute' + ClockAhead[q]
    <3>1. CASE q # p
      BY <1>1, <1>4, <3>1 DEF TogetherInv, RowsAreFixes
    <3>2. CASE q = p
      <4>1. fixQueue'[q] \cup samples' \subseteq fixQueue[p] \cup samples \cup {x}
        BY <1>1, <1>2, <1>4, <3>2
      <4>2. Plain(fixQueue[p] \cup samples)
        BY <1>5
      <4>3. Plain(fixQueue'[q] \cup samples')
        <5> SUFFICES ASSUME NEW s \in fixQueue'[q] \cup samples'
                     PROVE  /\ s.who \in Partners /\ s.at \in Nat
                            /\ \A u \in fixQueue'[q] \cup samples' :
                                  u.who = s.who /\ u.at = s.at => u = s
          BY DEF Plain
        <5>1. CASE s = x
          BY <1>3, <1>6, <4>1, <4>2, <5>1 DEF Plain
        <5>2. CASE s # x
          BY <1>3, <1>6, <4>1, <4>2, <5>2 DEF Plain
        <5> QED BY <5>1, <5>2
      <4>4. \A s \in fixQueue'[q] \cup samples' : s.who = q => s.at <= minute' + ClockAhead[q]
        BY <1>1, <1>3, <1>5, <3>2, <4>1
      <4>5. \A s \in fixQueue'[q] : s.who = q
        BY <1>2, <1>3, <1>4, <1>5, <3>2
      <4> QED BY <1>4, <2>1, <3>2, <4>3, <4>4, <4>5
    <3> QED BY <3>1, <3>2
  <2> QED BY <1>1, <2>2 DEF TogetherInv, RowsAreFixes
<1>8. SentInOrder'
  <2> SUFFICES ASSUME NEW q \in Partners, NEW s \in fixQueue'[q] \ samples',
                      s.at >= minute - Horizon, NEW t \in samples', t.who = q
               PROVE  t.at < s.at
    BY <1>1 DEF SentInOrder
  <2>1. CASE s \in fixQueue[q]
    BY <1>1, <2>1 DEF TogetherInv, SentInOrder
  <2>2. CASE s \notin fixQueue[q]
    BY <1>1, <1>2, <1>4, <1>6, <2>2
  <2> QED BY <2>1, <2>2
<1> QED BY <1>7, <1>8

\* Stored rows: the minutes within their reach are computed again, and their days.
LEMMA CountIsNatural ==
    ASSUME NEW stored, NEW d, NEW z
    PROVE  CountedOn(stored, d, z) \in Nat
<1>1. {m \in Minutes : stored[m] \in CountedEvidence /\ DayOf(m, z) = d} \in SUBSET Minutes
  OBVIOUS
<1> QED BY <1>1, MinutesFinite DEF CountedOn

LEMMA StoreProves ==
    ASSUME TogetherInv, NEW p \in Partners, NEW B \in SUBSET fixQueue[p],
           \A s \in B : Acceptable(s), StoreBatch(B),
           minute' = minute, zone' = zone, standing' = standing, moved' = moved
    PROVE  CountedTimeIsProven' /\ DayShape' /\ DaysMatch'
<1> DEFINE T == samples \cup B
           changed == SampleTimes(B \ samples)
           stored == Recomputed(T, changed, minute)
           touched == UNION Ranges(changed, minute)
<1>1. samples' = T /\ minuteEvidence' = stored /\ dayTotals' = SyncDailyTotals(stored, touched, zone)
  BY DEF StoreBatch, RecomputeRecentProximity
<1>2. T \ samples = B \ samples /\ samples \subseteq T
  OBVIOUS
<1>3. Plain(T)
  <2>1. T \subseteq fixQueue[p] \cup samples
    OBVIOUS
  <2> QED BY <2>1 DEF TogetherInv, RowsAreFixes, Plain
<1>4. \A u \in T \ samples : /\ u.at >= minute - Horizon
                             /\ \A s \in samples : s.who = u.who => s.at < u.at
  <2> TAKE u \in T \ samples
  <2>1. u \in fixQueue[p] \ samples /\ u \in B
    OBVIOUS
  <2>2. u.who = p /\ u.at >= minute - Horizon
    BY <2>1 DEF TogetherInv, RowsAreFixes, Acceptable
  <2> QED BY <2>1, <2>2 DEF TogetherInv, SentInOrder
<1> HIDE DEF T
<1>5. CountedTimeIsProven'
  <2> SUFFICES ASSUME NEW m \in Minutes \ standing, m >= minute - Horizon,
                      stored[m] \in CountedEvidence
               PROVE  Estimate(Anchors({s \in T : s.at <= minute}), m) \in CountedEvidence
    BY <1>1 DEF CountedTimeIsProven
  <2>1. SampleTimes(T \ samples) = changed
    BY <1>2
  <2>2. Recomputed(T, SampleTimes(T \ samples), minute)[m] \in CountedEvidence
    BY <2>1
  <2>3. minute \in Nat /\ CountedTimeIsProven
    BY DEF TogetherInv, RowsAreFixes
  <2> QED BY <1>2, <1>3, <1>4, <2>2, <2>3, RecomputedProven
<1>6. \A d \in Days : dayTotals'[d] = IF d \in {DayOf(m, zone) : m \in touched}
                                      THEN [dayTotals[d] EXCEPT !.stored = TRUE,
                                                !.estimate = CountedOn(stored, d, zone)]
                                      ELSE dayTotals[d]
  BY <1>1 DEF SyncDailyTotals
<1>7. DayShape'
  <2>1. \A d \in Days : CountedOn(stored, d, zone) \in Nat
    BY CountIsNatural
  <2>2. dayTotals' = [d \in Days |-> dayTotals'[d]]
    BY <1>1 DEF SyncDailyTotals
  <2> HIDE DEF stored, touched
  <2>3. \A d \in Days : dayTotals[d] \in [stored : BOOLEAN, estimate : Nat, corrected : {-1, 0},
                                          revision : Nat]
    BY DEF TogetherInv, DayShape
  <2>4. \A d \in Days : dayTotals'[d] \in [stored : BOOLEAN, estimate : Nat, corrected : {-1, 0},
                                           revision : Nat]
    BY <1>6, <2>1, <2>3
  <2> QED BY <2>2, <2>4 DEF DayShape
<1>8. DaysMatch'
  <2> SUFFICES ASSUME ~moved, NEW d \in Days
               PROVE  dayTotals'[d].estimate = CountedOn(stored, d, zone)
    BY <1>1 DEF DaysMatch
  <2>1. dayTotals[d] \in [stored : BOOLEAN, estimate : Nat, corrected : {-1, 0}, revision : Nat]
        /\ dayTotals[d].estimate = CountedOn(minuteEvidence, d, zone)
    BY DEF TogetherInv, DayShape, DaysMatch
  <2>2. CASE d \in {DayOf(m, zone) : m \in touched}
    <3> HIDE DEF stored, touched
    <3> QED BY <1>6, <2>1, <2>2
  <2>3. CASE d \notin {DayOf(m, zone) : m \in touched}
    <3>1. \A m \in Minutes : DayOf(m, zone) = d => stored[m] = minuteEvidence[m]
      BY <2>3 DEF Recomputed
    <3> HIDE DEF stored, touched
    <3>2. {m \in Minutes : stored[m] \in CountedEvidence /\ DayOf(m, zone) = d}
          = {m \in Minutes : minuteEvidence[m] \in CountedEvidence /\ DayOf(m, zone) = d}
      BY <3>1
    <3>3. CountedOn(stored, d, zone) = CountedOn(minuteEvidence, d, zone)
      BY <3>2 DEF CountedOn
    <3> QED BY <1>6, <2>1, <2>3, <3>3
  <2> QED BY <2>2, <2>3
<1> QED BY <1>5, <1>7, <1>8

\* Steps that leave the estimates, and of the samples at most what stands recorded.
LEMMA EstimatesStand ==
    ASSUME TogetherInv, minute' = minute, minuteEvidence' = minuteEvidence,
           \/ samples' = samples /\ standing' = standing
           \/ standing' = standing \cup {m \in Minutes : minuteEvidence[m] \in CountedEvidence}
    PROVE  CountedTimeIsProven'
<1>1. CASE samples' = samples /\ standing' = standing
  BY <1>1 DEF TogetherInv, CountedTimeIsProven
<1>2. CASE standing' = standing \cup {m \in Minutes : minuteEvidence[m] \in CountedEvidence}
  BY <1>2 DEF CountedTimeIsProven
<1> QED BY <1>1, <1>2

LEMMA DaysStand ==
    ASSUME TogetherInv, minuteEvidence' = minuteEvidence, dayTotals' = dayTotals,
           zone' = zone, moved' = moved
    PROVE  DayShape' /\ DaysMatch'
  BY DEF TogetherInv, DayShape, DaysMatch
-----------------------------------------------------------------------------
(* One lemma per action. *)

LEMMA SetSharingKeeps ==
    ASSUME TogetherInv, NEW p \in Partners, SetSharing(p)
    PROVE  TogetherInv'
<1>1. /\ minute' = minute /\ fixQueue' = fixQueue /\ minuteEvidence' = minuteEvidence
      /\ dayTotals' = dayTotals /\ zone' = zone /\ moved' = moved
      /\ \/ samples' = {}
            /\ standing' = standing \cup {m \in Minutes : minuteEvidence[m] \in CountedEvidence}
         \/ samples' = samples /\ standing' = standing
  BY DEF SetSharing
<1>2. RowsAreFixes' /\ SentInOrder'
  BY <1>1, RowsRemoved DEF TogetherInv, RowsAreFixes
<1>3. CountedTimeIsProven'
  BY <1>1, EstimatesStand
<1>4. DayShape' /\ DaysMatch'
  BY <1>1, DaysStand
<1> QED BY <1>1, <1>2, <1>3, <1>4 DEF TogetherInv

LEMMA PurgeSamplesKeeps ==
    ASSUME TogetherInv, PurgeSamples
    PROVE  TogetherInv'
<1>1. /\ minute' = minute /\ fixQueue' = fixQueue /\ minuteEvidence' = minuteEvidence
      /\ dayTotals' = dayTotals /\ zone' = zone /\ moved' = moved
      /\ samples' = samples \ ExpiredSamples
      /\ standing' = standing \cup {m \in Minutes : minuteEvidence[m] \in CountedEvidence}
  BY DEF PurgeSamples
<1>2. \A s \in samples \ samples' : s.at < minute - Horizon
  <2> TAKE s \in samples \ samples'
  <2>1. s \in samples /\ s.at + Keep <= minute
    BY <1>1 DEF ExpiredSamples
  <2>2. s.at \in Nat /\ minute \in Nat /\ Keep \in Nat /\ Horizon \in Nat /\ Horizon < Keep
    BY <2>1, TogetherAssumption DEF TogetherInv, RowsAreFixes, Plain
  <2> QED BY <2>1, <2>2
<1>3. RowsAreFixes' /\ SentInOrder'
  BY <1>1, <1>2, RowsRemoved DEF TogetherInv, RowsAreFixes
<1>4. CountedTimeIsProven'
  BY <1>1, EstimatesStand
<1>5. DayShape' /\ DaysMatch'
  BY <1>1, DaysStand
<1> QED BY <1>1, <1>3, <1>4, <1>5 DEF TogetherInv

LEMMA ConsentDeniedKeeps ==
    ASSUME TogetherInv, NEW p \in Partners, ConsentDenied(p)
    PROVE  TogetherInv'
<1>1. /\ minute' = minute /\ samples' = samples /\ minuteEvidence' = minuteEvidence
      /\ dayTotals' = dayTotals /\ zone' = zone /\ moved' = moved /\ standing' = standing
      /\ fixQueue' = [fixQueue EXCEPT ![p] = {}]
  BY DEF ConsentDenied
<1>2. /\ fixQueue' = [q \in Partners |-> fixQueue'[q]]
      /\ \A q \in Partners : fixQueue'[q] \subseteq fixQueue[q]
  BY <1>1 DEF TogetherInv, RowsAreFixes
<1>3. RowsAreFixes' /\ SentInOrder'
  BY <1>1, <1>2, RowsRemoved
<1>4. CountedTimeIsProven'
  BY <1>1, EstimatesStand
<1>5. DayShape' /\ DaysMatch'
  BY <1>1, DaysStand
<1> QED BY <1>1, <1>3, <1>4, <1>5 DEF TogetherInv

LEMMA CollectKeeps ==
    ASSUME TogetherInv, NEW p \in Partners, NEW place, Collect(p, place, ClockAhead[p])
    PROVE  TogetherInv'
<1>1. /\ minute' = minute /\ samples' = samples /\ minuteEvidence' = minuteEvidence
      /\ dayTotals' = dayTotals /\ zone' = zone /\ moved' = moved /\ standing' = standing
  BY DEF Collect
<1>2. RowsAreFixes' /\ SentInOrder'
  BY RowTaken
<1>3. CountedTimeIsProven'
  BY <1>1, EstimatesStand
<1>4. DayShape' /\ DaysMatch'
  BY <1>1, DaysStand
<1> QED BY <1>1, <1>2, <1>3, <1>4 DEF TogetherInv

\* The rows of a batch are earlier than the others.
LEMMA BatchIsOldest ==
    ASSUME TogetherInv, NEW p \in Partners,
           NEW s \in fixQueue[p] \ OldestBatch(p), NEW t \in OldestBatch(p)
    PROVE  t.at < s.at
<1> DEFINE Before(x) == {u \in fixQueue[p] : u.at < x.at}
<1>1. t \in fixQueue[p] /\ \A u \in fixQueue[p] : u.at \in Nat
  BY DEF TogetherInv, RowsAreFixes, Plain, OldestBatch
<1> SUFFICES ASSUME s.at <= t.at PROVE FALSE
  BY <1>1
<1>2. Before(s) \subseteq Before(t)
  BY <1>1
<1>3. IsFiniteSet(Before(t)) /\ Cardinality(Before(t)) \in Nat
  <2>1. IsFiniteSet(fixQueue[p]) /\ Before(t) \in SUBSET fixQueue[p]
    BY DEF TogetherInv, RowsAreFixes
  <2> HIDE DEF Before
  <2> QED BY <2>1, FS_Subset, FS_CardinalityType
<1>4. Cardinality(Before(s)) <= Cardinality(Before(t)) /\ Cardinality(Before(s)) \in Nat
  <2> HIDE DEF Before
  <2> QED BY <1>2, <1>3, FS_Subset, FS_CardinalityType
<1>5. Cardinality(Before(t)) < BatchLimit /\ ~(Cardinality(Before(s)) < BatchLimit)
  BY DEF OldestBatch
<1>6. BatchLimit \in Nat
  BY TogetherAssumption
<1> HIDE DEF Before
<1> QED BY <1>3, <1>4, <1>5, <1>6

LEMMA UploadKeeps ==
    ASSUME TogetherInv, NEW p \in Partners, Upload(p)
    PROVE  TogetherInv'
<1> DEFINE B == OldestBatch(p)
<1>1. /\ minute' = minute /\ zone' = zone /\ moved' = moved /\ standing' = standing
      /\ StoreBatch(B) /\ \A s \in B : Acceptable(s)
      /\ samples' = samples \cup B
  BY DEF Upload, StoreBatch
<1>2. PICK Q \in SUBSET fixQueue[p] : fixQueue' = [fixQueue EXCEPT ![p] = Q]
                                      /\ (Q = fixQueue[p] \/ Q = fixQueue[p] \ B)
  <2>1. CASE fixQueue' = [fixQueue EXCEPT ![p] = @ \ B]
    BY <2>1
  <2>2. CASE fixQueue' = fixQueue
    <3>1. fixQueue' = [fixQueue EXCEPT ![p] = fixQueue[p]]
      BY <2>2 DEF TogetherInv, RowsAreFixes
    <3> QED BY <3>1
  <2> QED BY <2>1, <2>2 DEF Upload
<1>3. B \in SUBSET fixQueue[p]
  BY DEF OldestBatch
<1>4. \A s \in Q \ (samples \cup B), t \in B : t.at < s.at
  BY <1>2, BatchIsOldest
<1> HIDE DEF B
<1>5. RowsAreFixes' /\ SentInOrder'
  BY <1>1, <1>2, <1>3, <1>4, RowsStored
<1>6. CountedTimeIsProven' /\ DayShape' /\ DaysMatch'
  BY <1>1, <1>3, StoreProves
<1> QED BY <1>1, <1>5, <1>6 DEF TogetherInv

\* The row isolated is the oldest of all.
LEMMA IsolateInvalidRowKeeps ==
    ASSUME TogetherInv, NEW p \in Partners, IsolateInvalidRow(p)
    PROVE  TogetherInv'
<1>1. /\ minute' = minute /\ zone' = zone /\ moved' = moved /\ standing' = standing
  BY DEF IsolateInvalidRow
<1>2. PICK s \in OldestBatch(p) :
          /\ \A t \in OldestBatch(p) : s.at <= t.at
          /\ IF Acceptable(s) THEN StoreBatch({s})
             ELSE UNCHANGED <<samples, minuteEvidence, dayTotals>>
          /\ fixQueue' = [fixQueue EXCEPT ![p] = @ \ {s}]
  BY DEF IsolateInvalidRow
<1> DEFINE Q == fixQueue[p] \ {s}
<1>3. s \in fixQueue[p] /\ fixQueue' = [fixQueue EXCEPT ![p] = Q]
  BY <1>2 DEF OldestBatch
<1>4. CASE Acceptable(s)
  <2>1. StoreBatch({s}) /\ samples' = samples \cup {s}
    BY <1>2, <1>4 DEF StoreBatch
  <2>2. \A u \in Q \ (samples \cup {s}), t \in {s} : t.at < u.at
    <3> SUFFICES ASSUME NEW u \in fixQueue[p], u # s PROVE s.at < u.at
      OBVIOUS
    <3>1. CASE u \notin OldestBatch(p)
      BY <3>1, BatchIsOldest
    <3>2. CASE u \in OldestBatch(p)
      <4>1. s.at <= u.at
        BY <1>2, <3>2
      <4>2. s.at \in Nat /\ u.at \in Nat /\ s.at # u.at
        BY <1>3 DEF TogetherInv, RowsAreFixes, Plain
      <4> QED BY <4>1, <4>2
    <3> QED BY <3>1, <3>2
  <2>3. RowsAreFixes' /\ SentInOrder'
    BY <1>1, <1>3, <2>1, <2>2, RowsStored
  <2>4. CountedTimeIsProven' /\ DayShape' /\ DaysMatch'
    BY <1>1, <1>3, <1>4, <2>1, StoreProves
  <2> QED BY <1>1, <2>3, <2>4 DEF TogetherInv
<1>5. CASE ~Acceptable(s)
  <2>1. samples' = samples /\ minuteEvidence' = minuteEvidence /\ dayTotals' = dayTotals
    BY <1>2, <1>5
  <2>2. /\ fixQueue' = [q \in Partners |-> fixQueue'[q]]
        /\ \A q \in Partners : fixQueue'[q] \subseteq fixQueue[q]
    BY <1>3 DEF TogetherInv, RowsAreFixes
  <2>3. RowsAreFixes' /\ SentInOrder'
    BY <1>1, <2>1, <2>2, RowsRemoved
  <2>4. CountedTimeIsProven'
    BY <1>1, <2>1, EstimatesStand
  <2>5. DayShape' /\ DaysMatch'
    BY <1>1, <2>1, DaysStand
  <2> QED BY <1>1, <2>3, <2>4, <2>5 DEF TogetherInv
<1> QED BY <1>4, <1>5

LEMMA NextMinuteKeeps ==
    ASSUME TogetherInv, NextMinute
    PROVE  TogetherInv'
<1>1. /\ minute' = minute + 1 /\ samples' = samples /\ fixQueue' = fixQueue
      /\ minuteEvidence' = minuteEvidence /\ dayTotals' = dayTotals /\ zone' = zone
      /\ moved' = moved /\ standing' = standing
  BY DEF NextMinute
<1>2. minute \in Nat /\ Plain(samples) /\ Horizon \in Nat /\ ClockAhead \in [Partners -> Nat]
  BY TogetherAssumption DEF TogetherInv, RowsAreFixes
<1>3. RowsAreFixes'
  <2>1. \A p \in Partners : \A s \in fixQueue[p] \cup samples :
           s.who = p => s.at <= minute + 1 + ClockAhead[p]
    <3> TAKE p \in Partners
    <3> TAKE s \in fixQueue[p] \cup samples
    <3>1. s.at \in Nat /\ ClockAhead[p] \in Nat /\ (s.who = p => s.at <= minute + ClockAhead[p])
      BY <1>2 DEF TogetherInv, RowsAreFixes, Plain
    <3> QED BY <1>2, <3>1
  <2> QED BY <1>1, <2>1 DEF TogetherInv, RowsAreFixes, Plain
<1>4. SentInOrder'
  <2> SUFFICES ASSUME NEW p \in Partners, NEW s \in fixQueue'[p] \ samples',
                      s.at >= minute' - Horizon, NEW t \in samples', t.who = p
               PROVE  t.at < s.at
    BY DEF SentInOrder
  <2>1. s \in fixQueue[p] \ samples /\ t \in samples /\ s.at \in Nat
    BY <1>1 DEF TogetherInv, RowsAreFixes, Plain
  <2>2. s.at >= minute - Horizon
    BY <1>1, <1>2, <2>1
  <2> QED BY <2>1, <2>2 DEF TogetherInv, SentInOrder
<1>5. CountedTimeIsProven'
  <2> DEFINE S == {s \in samples : s.at <= minute}
             W == {s \in samples : s.at <= minute + 1}
  <2> SUFFICES ASSUME NEW m \in Minutes \ standing', m >= minute' - Horizon,
                      minuteEvidence'[m] \in CountedEvidence
               PROVE  Estimate(Anchors({s \in samples' : s.at <= minute'}), m) \in CountedEvidence
    BY DEF CountedTimeIsProven
  <2>0. {s \in samples' : s.at <= minute'} = W
    BY <1>1
  <2>1. m \in Nat /\ m >= minute - Horizon /\ m \in Minutes \ standing
        /\ minuteEvidence[m] \in CountedEvidence
    BY <1>1, <1>2, TogetherAssumption DEF Minutes
  <2>2. Estimate(Anchors(S), m) \in CountedEvidence
    BY <2>1 DEF TogetherInv, CountedTimeIsProven
  <2>3. Plain(W) /\ S \subseteq W
    BY <1>2 DEF Plain
  <2>4. \A s \in S, u \in W \ S : u.at > s.at
    BY <1>2 DEF Plain
  <2> HIDE DEF S, W
  <2>5. \A p, c \in SampleTimes(S) : Outside(S, W, c)
    BY <2>4 DEF SampleTimes, Outside
  <2> QED BY <2>0, <2>1, <2>2, <2>3, <2>5, CountedKept
<1>6. DayShape' /\ DaysMatch'
  BY <1>1, DaysStand
<1> QED BY <1>1, <1>3, <1>4, <1>5, <1>6 DEF TogetherInv

LEMMA SetHomeTimezoneKeeps ==
    ASSUME TogetherInv, SetHomeTimezone
    PROVE  TogetherInv'
<1>1. /\ minute' = minute /\ samples' = samples /\ fixQueue' = fixQueue
      /\ minuteEvidence' = minuteEvidence /\ dayTotals' = dayTotals /\ zone' = 1 - zone
      /\ moved' = TRUE /\ standing' = standing
  BY DEF SetHomeTimezone
<1>2. RowsAreFixes' /\ SentInOrder'
  BY <1>1, RowsRemoved DEF TogetherInv, RowsAreFixes
<1>3. CountedTimeIsProven'
  BY <1>1, EstimatesStand
<1>4. DayShape' /\ DaysMatch' /\ zone' \in {0, 1}
  BY <1>1 DEF TogetherInv, DayShape, DaysMatch
<1> QED BY <1>2, <1>3, <1>4 DEF TogetherInv

LEMMA CorrectDayKeeps ==
    ASSUME TogetherInv, NEW d \in Days, CorrectDay(d)
    PROVE  TogetherInv'
<1> DEFINE rows == [stored : BOOLEAN, estimate : Nat, corrected : {-1, 0}, revision : Nat]
           count == CountedOn(minuteEvidence, d, zone)
<1>1. /\ minute' = minute /\ samples' = samples /\ fixQueue' = fixQueue
      /\ minuteEvidence' = minuteEvidence /\ zone' = zone
      /\ moved' = moved /\ standing' = standing
  BY DEF CorrectDay
<1>2. RowsAreFixes' /\ SentInOrder'
  BY <1>1, RowsRemoved DEF TogetherInv, RowsAreFixes
<1>3. CountedTimeIsProven'
  BY <1>1, EstimatesStand
<1>4. dayTotals \in [Days -> rows] /\ count \in Nat
  BY CountIsNatural DEF TogetherInv, DayShape
<1> HIDE DEF count
<1>5. dayTotals' = [x \in Days |->
          IF x = d THEN [stored |-> TRUE, corrected |-> 0, revision |-> dayTotals[d].revision + 1,
                         estimate |-> IF dayTotals[d].stored THEN dayTotals[d].estimate ELSE count]
          ELSE dayTotals[x]]
  BY <1>4 DEF CorrectDay, count
<1>6. DayShape'
  BY <1>4, <1>5 DEF DayShape
<1>7. DaysMatch'
  <2> SUFFICES ASSUME ~moved, NEW x \in Days
               PROVE  dayTotals'[x].estimate = CountedOn(minuteEvidence, x, zone)
    BY <1>1 DEF DaysMatch
  <2>1. dayTotals[x].estimate = CountedOn(minuteEvidence, x, zone)
    BY DEF TogetherInv, DaysMatch
  <2>2. CASE x = d
    BY <1>5, <2>1, <2>2 DEF count
  <2>3. CASE x # d
    BY <1>5, <2>1, <2>3
  <2> QED BY <2>2, <2>3
<1> QED BY <1>1, <1>2, <1>3, <1>6, <1>7 DEF TogetherInv

LEMMA ReaggregateKeeps ==
    ASSUME TogetherInv, Reaggregate
    PROVE  TogetherInv'
<1>1. /\ minute' = minute /\ samples' = samples /\ fixQueue' = fixQueue
      /\ minuteEvidence' = minuteEvidence /\ zone' = zone
      /\ moved /\ moved' = moved /\ standing' = standing
      /\ dayTotals' = SyncDailyTotals(minuteEvidence, 0..minute, zone)
  BY DEF Reaggregate
<1>2. RowsAreFixes' /\ SentInOrder'
  BY <1>1, RowsRemoved DEF TogetherInv, RowsAreFixes
<1>3. CountedTimeIsProven'
  BY <1>1, EstimatesStand
<1>4. \A d \in Days : CountedOn(minuteEvidence, d, zone) \in Nat
  BY CountIsNatural
<1>5. DayShape'
  BY <1>1, <1>4 DEF TogetherInv, DayShape, SyncDailyTotals
<1>6. DaysMatch'
  BY <1>1 DEF DaysMatch
<1> QED BY <1>1, <1>2, <1>3, <1>5, <1>6 DEF TogetherInv

LEMMA TogetherInitInv == TogetherInit => TogetherInv
<1> SUFFICES ASSUME TogetherInit PROVE TogetherInv
  OBVIOUS
<1> USE DEF TogetherInit
<1>1. RowsAreFixes /\ SentInOrder
  BY FS_EmptySet DEF RowsAreFixes, SentInOrder, Plain
<1>2. CountedTimeIsProven
  BY DEF CountedTimeIsProven, CountedEvidence
<1>3. DayShape
  BY DEF DayShape, NoTotal
<1>4. DaysMatch
  <2> SUFFICES ASSUME NEW d \in Days PROVE dayTotals[d].estimate = CountedOn(minuteEvidence, d, zone)
    BY DEF DaysMatch
  <2>1. {m \in Minutes : minuteEvidence[m] \in CountedEvidence /\ DayOf(m, zone) = d} = {}
    BY DEF CountedEvidence
  <2> QED BY <2>1, FS_EmptySet DEF CountedOn, NoTotal
<1> QED BY <1>1, <1>2, <1>3, <1>4 DEF TogetherInv

LEMMA TogetherKeeps == TogetherInv /\ [TogetherNext]_togetherVars => TogetherInv'
<1> SUFFICES ASSUME TogetherInv, [TogetherNext]_togetherVars PROVE TogetherInv'
  OBVIOUS
<1>1. CASE UNCHANGED togetherVars
  <2>1. /\ minute' = minute /\ samples' = samples /\ fixQueue' = fixQueue
        /\ minuteEvidence' = minuteEvidence /\ dayTotals' = dayTotals /\ zone' = zone
        /\ moved' = moved /\ standing' = standing
    BY <1>1 DEF togetherVars
  <2>2. RowsAreFixes' /\ SentInOrder'
    BY <2>1, RowsRemoved DEF TogetherInv, RowsAreFixes
  <2>3. CountedTimeIsProven'
    BY <2>1, EstimatesStand
  <2>4. DayShape' /\ DaysMatch'
    BY <2>1, DaysStand
  <2> QED BY <2>1, <2>2, <2>3, <2>4 DEF TogetherInv
<1>2. ASSUME NEW p \in Partners, \/ SetSharing(p) \/ ConsentDenied(p) \/ Upload(p)
                                 \/ IsolateInvalidRow(p)
      PROVE  TogetherInv'
  BY <1>2, SetSharingKeeps, ConsentDeniedKeeps, UploadKeeps, IsolateInvalidRowKeeps
<1>3. ASSUME NEW p \in Partners, NEW place \in PlacesOf[p], Collect(p, place, ClockAhead[p])
      PROVE  TogetherInv'
  BY <1>3, CollectKeeps
<1>4. ASSUME NEW d \in Days, CorrectDay(d) PROVE TogetherInv'
  BY <1>4, CorrectDayKeeps
<1>5. CASE SetHomeTimezone \/ Reaggregate \/ PurgeSamples \/ NextMinute
  BY <1>5, SetHomeTimezoneKeeps, ReaggregateKeeps, PurgeSamplesKeeps, NextMinuteKeeps
<1> QED BY <1>1, <1>2, <1>3, <1>4, <1>5 DEF TogetherNext

\* A summary's minutes are those its days count.
LEMMA TotalsMatch == TogetherInv => DayTotalsMatch
<1> SUFFICES ASSUME TogetherInv, ~moved
             PROVE  /\ \A d \in Days : dayTotals[d].estimate = CountedOn(minuteEvidence, d, zone)
                    /\ ObservedMinutes =
                          Cardinality({m \in Minutes :
                                          /\ minuteEvidence[m] \in CountedEvidence
                                          /\ dayTotals[DayOf(m, zone)].corrected = -1})
  BY DEF DayTotalsMatch
<1>1. DayShape /\ zone \in {0, 1}
      /\ \A d \in Days : dayTotals[d].estimate = CountedOn(minuteEvidence, d, zone)
  BY DEF TogetherInv, DaysMatch
<1>2. ObservedMinutes = Cardinality(MinutesOf(Days))
  BY <1>1, SumOfDays
<1>3. MinutesOf(Days) = {m \in Minutes : /\ minuteEvidence[m] \in CountedEvidence
                                         /\ dayTotals[DayOf(m, zone)].corrected = -1}
  BY <1>1, DaysInOrder DEF MinutesOf
<1> QED BY <1>1, <1>2, <1>3

\* The time a couple is told they were together is what their retained samples prove,
\* minute by minute and day by day, and the live state is the one all of them give,
\* however late, often and in whatever order of the two phones the batches arrive
\* (together_time_service.py, domain/location.py).
THEOREM TogetherTimeProven == TogetherSpec => []TogetherTimeIsProven
<1>1. TogetherInv => TogetherTimeIsProven
  <2> SUFFICES ASSUME TogetherInv PROVE TogetherTimeIsProven
    OBVIOUS
  <2>1. CountedTimeIsProven /\ DayTotalsMatch
    BY TotalsMatch DEF TogetherInv
  <2>2. LiveAgreesWithHistory
    BY StreamsShow DEF TogetherInv, RowsAreFixes, LiveAgreesWithHistory, CurrentLiveProjection
  <2> QED BY <2>1, <2>2 DEF TogetherTimeIsProven
<1> QED BY <1>1, TogetherInitInv, TogetherKeeps, PTL DEF TogetherSpec
=============================================================================
