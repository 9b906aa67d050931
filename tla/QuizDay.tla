------------------------------- MODULE QuizDay -------------------------------
(***************************************************************************)
(* The daily quiz of one couple: quiz_v2_service.py, quiz_v2_mutations.py, *)
(* quiz_custom_service.py, routes/quizzes_v2.py (which versions 3 and 4    *)
(* wrap) and the phone's QuizViewModel.                                    *)
(*                                                                         *)
(* Every handler that writes holds the couple lock until its commit and    *)
(* loads the day after it has the lock, so a handler is one step; what it  *)
(* answers is read afterwards, without the lock, while the day's revision  *)
(* and reveal mark keep the values of the commit. A request the phone has  *)
(* given up stays on the wire. An answer is its draft's revision; prompts, *)
(* options, kinds and themes are left out.                                 *)
(***************************************************************************)
EXTENDS Integers, FiniteSets

CONSTANTS
    QuizMembers,  \* the two members
    DaySize,      \* questions of a day: five in the code
    Supply,       \* general questions published for a date
    CatchUp,      \* CATCH_UP_DAYS
    Written,      \* custom questions the couple may have written before the first date
    LastDay,      \* bound of the model: dates 1..LastDay
    MaxCalls,     \* bound of the model: requests of the phones
    MaxSwitches   \* bound of the model: reports, changes of consent and of custom questions,
                  \* requests given up

ASSUME QuizAssumption ==
    /\ Cardinality(QuizMembers) = 2
    /\ {DaySize, Supply, LastDay, MaxCalls} \subseteq Nat \ {0}
    /\ {CatchUp, MaxSwitches} \subseteq Nat
    /\ IsFiniteSet(Written) /\ \A q \in Written : q.from = "couple"

VARIABLES
    today,     \* utc_today()
    days,      \* QuizDay, QuizDayQuestion and QuizDayMember rows by date, or NoDay
    drafts,    \* QuizDraft rows: <<date, member>> to a function from questions to revisions
    customs,   \* the couple's custom Question rows
    bank,      \* curated Question rows created for the couple
    reported,  \* QuestionReport rows
    consent,   \* CoupleMember.intimacy_enabled
    performed, \* QuizOperation rows: numbers of completed operations
    wire,      \* requests sent and not yet delivered
    reply,     \* what the server is about to answer each member, or NoReply
    view,      \* QuizScreenState of each phone
    signed,    \* history: the answers on the screen of a member who finished
    calls,     \* requests of the phones so far
    switches   \* what MaxSwitches bounds, so far

quizVars == <<today, days, drafts, customs, bank, reported, consent, performed, wire, reply, view,
              signed, calls, switches>>
quizTables == <<days, drafts, customs, bank, reported, consent, performed, signed>>
quizPhones == <<wire, reply, view, calls>>

Dates == 1..LastDay
NoDrafts == [q \in {} |-> 0]
NoDay == [made |-> FALSE, revision |-> 0, questions |-> {}, done |-> {}, revealed |-> FALSE]
NoReply == [date |-> 0, revision |-> 0, revealed |-> FALSE]
NoView == [date |-> 0, revision |-> 0, revealed |-> FALSE, finished |-> FALSE, questions |-> {},
           mine |-> NoDrafts, waits |-> 0]

\* Question rows: published for everyone, written by the couple, or taken from the curated bank.
Published(d) == [from : {"all"}, date : {d}, intimate : BOOLEAN, n : 1..Supply]
CustomQuestion == [from : {"couple"}, date : Dates, intimate : BOOLEAN, n : 1..DaySize]
BankItem(d, intimate, n) == [from |-> "bank", date |-> d, intimate |-> intimate, n |-> n]

GeneralOf(d) == {q \in Published(d) : ~q.intimate}
IntimateOf(d) == {q \in Published(d) : q.intimate /\ q.n = 1}

QuizTypeOK ==
    /\ today \in Dates
    /\ \A d \in Dates : days[d] # NoDay =>
          /\ Cardinality(days[d].questions) = DaySize
          /\ days[d].done \subseteq QuizMembers
          /\ days[d].revision \in Nat
    /\ \A d \in Dates, m \in QuizMembers : \A q \in DOMAIN drafts[<<d, m>>] :
          drafts[<<d, m>>][q] \in Nat \ {0}
    /\ customs \subseteq CustomQuestion
    /\ consent \in [QuizMembers -> BOOLEAN]
    /\ calls \in 0..MaxCalls /\ switches \in 0..MaxSwitches

QuizInit ==
    /\ today = 1
    /\ days = [d \in Dates |-> NoDay]
    /\ drafts = [k \in Dates \X QuizMembers |-> NoDrafts]
    /\ customs \in {{}, Written}
    /\ bank = {} /\ reported = {} /\ performed = {}
    /\ consent = [m \in QuizMembers |-> TRUE]
    /\ wire = {}
    /\ reply = [m \in QuizMembers |-> NoReply]
    /\ view = [m \in QuizMembers |-> NoView]
    /\ signed = [k \in Dates \X QuizMembers |-> NoDrafts]
    /\ calls = 0 /\ switches = 0

-----------------------------------------------------------------------------
(* The questions of a day.                                                 *)

BothConsent == \A m \in QuizMembers : consent[m]
Asked == UNION {days[d].questions : d \in {e \in Dates : days[e] # NoDay}}
Editable(d) == d >= today - CatchUp

First(n, S) == {q \in S : Cardinality({p \in S : p.date < q.date \/ (p.date = q.date /\ p.n < q.n)}) < n}

\* _due_custom_questions: written for this date or an earlier one, and not in any day yet.
DueCustoms(d) ==
    First(DaySize, {q \in customs : q.date <= d /\ q \notin Asked /\ (q.intimate => BothConsent)})

\* _questions_for_day: the couple's own, then one intimate question if both agreed, then general ones.
QuestionsForDay(d) ==
    LET own == DueCustoms(d)
        intimate == IF BothConsent /\ Cardinality(own) < DaySize THEN IntimateOf(d) ELSE {}
        needed == DaySize - Cardinality(own) - Cardinality(intimate)
    IN  own \cup intimate \cup First(needed, GeneralOf(d))

NewDay(d) == [made |-> TRUE, revision |-> 0, questions |-> QuestionsForDay(d), done |-> {}, revealed |-> FALSE]

\* materialize_day gives the stored day, or makes one if enough questions are prepared.
Materialized(d) == IF days[d] # NoDay THEN days[d] ELSE NewDay(d)
Available(d) == d <= today /\ Cardinality(Materialized(d).questions) = DaySize

\* Questions of an unrevealed day give way to others and both members are unfinished again.
Replaced(day, old, new) ==
    [day EXCEPT !.questions = (@ \ old) \cup new, !.done = {}, !.revision = @ + Cardinality(old)]

WithoutDrafts(d, old) ==
    [k \in DOMAIN drafts |->
        IF k[1] = d THEN [p \in DOMAIN drafts[k] \ old |-> drafts[k][p]] ELSE drafts[k]]

\* Questions published for the date that are neither in the day nor reported.
Candidates(d, day, intimate) ==
    {q \in (IF intimate THEN IntimateOf(d) ELSE GeneralOf(d)) : q \notin day.questions \cup reported}

BankItems(d, intimate) == {BankItem(d, intimate, n) : n \in 1..(2 * DaySize + MaxSwitches)}

\* _replace_reported: a published question, or the first curated one this couple has not had
\* that day; the report is refused when the bank has none left.
ForReported(d, day, intimate) ==
    LET free == Candidates(d, day, intimate)
    IN  First(1, IF free # {} THEN free ELSE BankItems(d, intimate) \ bank)

\* _general_replacement, called n times: published questions, then the first curated ones
\* that are not in the day.
ForRevoked(d, day, n) ==
    LET free == First(n, Candidates(d, day, FALSE))
    IN  free \cup First(n - Cardinality(free), BankItems(d, FALSE) \ day.questions)

-----------------------------------------------------------------------------
(* The server's mutations of a day, each under the couple lock.            *)

\* Mutant: _require_day_revision is forgotten.
AnyRevision(day, c) == TRUE

RightRevision(day, c) == day.revision = c.expected

\* finish_day reveals when no member row is left without completed_at.
RevealedBy(done) == done = QuizMembers

\* _require_editable_member.
MayEdit(day, c) == ~day.revealed /\ Editable(c.date) /\ c.member \notin day.done
MayReopen(day, c) == ~day.revealed /\ Editable(c.date)

SavesDraft(day, c) ==
    LET mine == drafts[<<c.date, c.member>>]
    IN  /\ c.kind = "save" /\ MayEdit(day, c)
        /\ \A q \in c.about : /\ q \in day.questions
                             /\ (IF q \in DOMAIN mine THEN mine[q] ELSE 0) = c.expected

FinishesDay(day, c) ==
    /\ c.kind = "finish" /\ MayEdit(day, c) /\ RightRevision(day, c)
    /\ Cardinality(DOMAIN drafts[<<c.date, c.member>>]) = DaySize

ReopensDay(day, c) == c.kind = "reopen" /\ MayReopen(day, c) /\ RightRevision(day, c)

\* save_draft, finish_day and reopen_day on the day c names.
Saved(day, c) ==
    /\ days' = [days EXCEPT ![c.date] = [day EXCEPT !.revision = @ + 1]]
    /\ drafts' = [drafts EXCEPT ![<<c.date, c.member>>] =
                    [q \in DOMAIN @ \cup c.about |-> IF q \in c.about THEN c.expected + 1 ELSE @[q]]]
    /\ UNCHANGED signed

Finished(day, c) ==
    /\ days' = [days EXCEPT ![c.date] =
                  [day EXCEPT !.revision = @ + 1, !.done = @ \cup {c.member},
                              !.revealed = RevealedBy(day.done \cup {c.member})]]
    /\ signed' = [signed EXCEPT ![<<c.date, c.member>>] = c.seen]
    /\ UNCHANGED drafts

Reopened(day, c) ==
    /\ days' = [days EXCEPT ![c.date] = [day EXCEPT !.revision = @ + 1, !.done = @ \ {c.member}]]
    /\ UNCHANGED <<drafts, signed>>

\* What the answer is made of: the day as it was committed, the rows as they are read later.
ReplyFrom(d, day) == [date |-> d, revision |-> day.revision, revealed |-> day.revealed]

\* A request reaches the server. A completed operation changes nothing more; a request that is
\* refused rolls back, and a phone that still waits for it keeps its screen.
HandleQuiz(c) ==
    LET day == Materialized(c.date)
        takes == SavesDraft(day, c) \/ FinishesDay(day, c) \/ ReopensDay(day, c)
        waits == view[c.member].waits = c.op
    IN  /\ c \in wire /\ wire' = wire \ {c}
        /\ \/ /\ c.op \in performed \/ ~takes
              /\ UNCHANGED <<days, drafts, signed, performed>>
           \/ /\ c.op \notin performed /\ SavesDraft(day, c) /\ Saved(day, c)
              /\ performed' = performed \cup {c.op}
           \/ /\ c.op \notin performed /\ FinishesDay(day, c) /\ Finished(day, c)
              /\ performed' = performed \cup {c.op}
           \/ /\ c.op \notin performed /\ ReopensDay(day, c) /\ Reopened(day, c)
              /\ performed' = performed \cup {c.op}
        /\ reply' = IF waits /\ takes THEN [reply EXCEPT ![c.member] = ReplyFrom(c.date, days'[c.date])] ELSE reply
        /\ view' = IF waits /\ ~takes THEN [view EXCEPT ![c.member].waits = 0] ELSE view
        /\ UNCHANGED <<today, customs, bank, reported, consent, calls, switches>>

\* The rows are read after the commit and without the lock; the screen then shows the day.
Render(m) ==
    LET r == reply[m]
        day == days[r.date]
    IN  /\ r # NoReply
        /\ reply' = [reply EXCEPT ![m] = NoReply]
        /\ view' = [view EXCEPT ![m] =
              [date |-> r.date, revision |-> r.revision, revealed |-> r.revealed,
               finished |-> m \in day.done, questions |-> day.questions,
               mine |-> [q \in DOMAIN drafts[<<r.date, m>>] \cap day.questions |-> drafts[<<r.date, m>>][q]],
               waits |-> 0]]
        /\ UNCHANGED <<quizTables, today, wire, calls, switches>>

\* today_quiz and quiz_day: opening a day makes it. A phone asks for one thing at a time.
Open(m, d) ==
    /\ calls < MaxCalls /\ calls' = calls + 1
    /\ Available(d) /\ reply[m] = NoReply
    /\ view[m].waits = 0
    /\ days' = [days EXCEPT ![d] = Materialized(d)]
    /\ reply' = [reply EXCEPT ![m] = ReplyFrom(d, days'[d])]
    /\ UNCHANGED <<today, drafts, customs, bank, reported, consent, performed, signed, wire, view, switches>>

\* ensure_daily_quiz_notifications makes today's day before anyone opens it.
MakeToday ==
    /\ Available(today) /\ days[today] = NoDay
    /\ days' = [days EXCEPT ![today] = NewDay(today)]
    /\ UNCHANGED <<today, drafts, customs, bank, reported, consent, performed, signed, quizPhones, switches>>

-----------------------------------------------------------------------------
(* The phone: QuizViewModel over QuizScreenState.                          *)

Idle(m) == view[m].date # 0 /\ view[m].waits = 0 /\ reply[m] = NoReply
AllAnswered(v) == v.questions \subseteq DOMAIN v.mine

\* about: the question a save answers; seen: the answers a finish reviewed.
Call(m, kind, expected, about, seen) ==
    [op |-> calls + 1, member |-> m, kind |-> kind, date |-> view[m].date, expected |-> expected,
     about |-> about, seen |-> seen]

Send(m, c) ==
    /\ calls < MaxCalls /\ calls' = calls + 1
    /\ wire' = wire \cup {c}
    /\ view' = [view EXCEPT ![m].waits = c.op]
    /\ UNCHANGED <<quizTables, today, reply, switches>>

\* save: the answer on the screen, against the revision the screen shows.
Save(m, q) ==
    LET v == view[m]
    IN  /\ Idle(m) /\ ~v.revealed /\ ~v.finished /\ q \in v.questions
        /\ Send(m, Call(m, "save", IF q \in DOMAIN v.mine THEN v.mine[q] ELSE 0, {q}, NoDrafts))

\* finish, from the review of all answers.
Finish(m) ==
    /\ Idle(m) /\ ~view[m].revealed /\ ~view[m].finished /\ AllAnswered(view[m])
    /\ Send(m, Call(m, "finish", view[m].revision, {}, view[m].mine))

Reopen(m) ==
    /\ Idle(m) /\ ~view[m].revealed /\ view[m].finished
    /\ Send(m, Call(m, "reopen", view[m].revision, {}, NoDrafts))

Switch == switches < MaxSwitches /\ switches' = switches + 1

\* The request or its answer takes too long: the phone stops waiting and keeps its screen.
GiveUp(m) ==
    /\ Switch
    /\ view[m].waits # 0
    /\ view' = [view EXCEPT ![m].waits = 0]
    /\ reply' = [reply EXCEPT ![m] = NoReply]
    /\ UNCHANGED <<quizTables, today, wire, calls>>

-----------------------------------------------------------------------------
(* Reports, consent and the couple's own questions.                        *)

\* Mutant: a report also replaces a question whose answers have been shown.
ReplaceableAlways(day) == TRUE

Replaceable(day) == ~day.revealed

\* report_question: the latest day that asks it; only the first report replaces it.
Report(d, q) ==
    /\ Switch
    /\ days[d] # NoDay /\ q \in days[d].questions /\ q \notin reported
    /\ reported' = reported \cup {q}
    /\ IF Replaceable(days[d])
          THEN \E r \in ForReported(d, days[d], q.intimate /\ BothConsent) :
                   /\ days' = [days EXCEPT ![d] = Replaced(@, {q}, {r})]
                   /\ drafts' = WithoutDrafts(d, {q})
                   /\ bank' = bank \cup ({r} \cap BankItems(d, r.intimate))
          ELSE UNCHANGED <<days, drafts, bank>>
    /\ UNCHANGED <<today, customs, consent, performed, signed, quizPhones>>

\* revoke_unrevealed_intimacy works on every day that is not revealed yet.
RevokedDays == {d \in Dates : days[d] # NoDay /\ ~days[d].revealed}

Revoked(d) == {q \in days[d].questions : q.intimate}

Substitutes(d) == ForRevoked(d, days[d], Cardinality(Revoked(d)))

\* The day after its intimate questions have been replaced one by one, if it has any.
AfterRevoking(d) ==
    IF Revoked(d) = {} THEN days[d] ELSE Replaced(days[d], Revoked(d), Substitutes(d))

\* The request fails when too few are left, or when a curated question was already created
\* for this couple and date (uq_questions_scope_normalized_hash).
Creatable(d) ==
    /\ Cardinality(Substitutes(d)) = Cardinality(Revoked(d))
    /\ Substitutes(d) \cap bank = {}

\* update_preferences: withdrawing consent replaces intimate questions before it commits.
SetConsent(m, v) ==
    /\ Switch /\ consent[m] # v
    /\ consent' = [consent EXCEPT ![m] = v]
    /\ IF v THEN UNCHANGED <<days, drafts, bank>>
       ELSE /\ \A d \in RevokedDays : Creatable(d)
            /\ days' = [d \in Dates |-> IF d \in RevokedDays THEN AfterRevoking(d) ELSE days[d]]
            /\ drafts' = [k \in DOMAIN drafts |->
                  IF k[1] \in RevokedDays
                  THEN [p \in DOMAIN drafts[k] \ Revoked(k[1]) |-> drafts[k][p]] ELSE drafts[k]]
            /\ bank' = bank \cup UNION {days'[d].questions \cap BankItems(d, FALSE) : d \in RevokedDays}
    /\ UNCHANGED <<today, customs, reported, performed, signed, quizPhones>>

SlotFree(d, n) == \A q \in customs : q.date # d \/ q.n # n

\* create_custom: the earliest later date with a free slot (_next_slot).
CreateCustom(intimate) ==
    /\ Switch
    /\ \E d \in Dates, n \in 1..DaySize :
          /\ d > today /\ SlotFree(d, n)
          /\ \A e \in Dates, k \in 1..DaySize :
                (e > today /\ SlotFree(e, k)) => (d < e \/ (d = e /\ n <= k))
          /\ customs' = customs \cup {[from |-> "couple", date |-> d, intimate |-> intimate, n |-> n]}
    /\ UNCHANGED <<today, days, drafts, bank, reported, consent, performed, signed, quizPhones>>

\* _owned_pending: a question that has not been asked and whose date has not come.
OwnedPending(q) == q \in customs /\ q.date > today /\ q \notin Asked

\* update_custom and delete_custom.
ChangeCustom(q) ==
    /\ Switch /\ OwnedPending(q)
    /\ customs' \in {customs \ {q}, (customs \ {q}) \cup {[q EXCEPT !.intimate = ~@]}}
    /\ UNCHANGED <<today, days, drafts, bank, reported, consent, performed, signed, quizPhones>>

Tomorrow ==
    /\ today < LastDay /\ today' = today + 1
    /\ UNCHANGED <<quizTables, quizPhones, switches>>

-----------------------------------------------------------------------------
QuizNext ==
    \/ \E c \in wire : HandleQuiz(c)
    \/ \E m \in QuizMembers :
          \/ Render(m) \/ Finish(m) \/ Reopen(m) \/ GiveUp(m)
          \/ \E d \in Dates : Open(m, d)
          \/ \E q \in Asked : Save(m, q)
          \/ \E v \in BOOLEAN : SetConsent(m, v)
    \/ MakeToday \/ Tomorrow
    \/ \E d \in Dates : \E q \in Asked : Report(d, q)
    \/ \E b \in BOOLEAN : CreateCustom(b)
    \/ \E q \in customs : ChangeCustom(q)

QuizSpec == QuizInit /\ [][QuizNext]_quizVars

-----------------------------------------------------------------------------
(* A member is finished only with the very answers that member's phone     *)
(* showed when the finish was sent, one for every question the day asks    *)
(* now: no edit, late request, report or withdrawal comes in between.      *)
FinishMeansReviewed ==
    \A d \in Dates, m \in QuizMembers :
        days[d] # NoDay /\ m \in days[d].done =>
            /\ drafts[<<d, m>>] = signed[<<d, m>>]
            /\ DOMAIN drafts[<<d, m>>] = days[d].questions

(* Answers are shown to the partner only when both have finished, and a    *)
(* screen that shows them shows a finished day.                            *)
RevealNeedsBoth ==
    /\ \A d \in Dates : days[d] # NoDay /\ days[d].revealed => days[d].done = QuizMembers
    /\ \A m \in QuizMembers : view[m].revealed =>
          /\ days[view[m].date].revealed
          /\ view[m].questions = days[view[m].date].questions

(* No day that is still open asks an intimate question unless both members *)
(* agree to them now.                                                      *)
IntimacyNeedsBoth ==
    \A d \in Dates : days[d] # NoDay /\ ~days[d].revealed /\ ~BothConsent =>
        \A q \in days[d].questions : ~q.intimate

(* Finishing, reopening, replacing and withdrawing at the same time never  *)
(* show a partner what is not shared yet, nor either what both have not    *)
(* agreed to (quiz_v2_mutations.py, quiz_v2_service.py).                   *)
NothingUnsharedIsShown == RevealNeedsBoth /\ IntimacyNeedsBoth
=============================================================================
