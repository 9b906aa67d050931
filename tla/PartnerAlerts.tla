---------------------------- MODULE PartnerAlerts ----------------------------
(***************************************************************************)
(* Alerts for one account: notification_service.py and                     *)
(* routes/notifications.py create an event with a delivery for every       *)
(* active installation, the phone's PartnerNotificationWorker registers,   *)
(* reads the choices, fetches what is pending, posts it and acknowledges   *)
(* what it has posted.                                                     *)
(*                                                                         *)
(* Handlers that create events hold the couple lock, so one runs at a      *)
(* time; choices are read under the lock of the preferences row, and       *)
(* update_preferences takes only that lock. A worker's requests may fail   *)
(* at every step. An installation may run its periodic and its immediate   *)
(* work at the same time. Texts, names and the foreground socket, which    *)
(* only hurries the worker, are left out; master_enabled is the empty set  *)
(* of chosen kinds.                                                        *)
(***************************************************************************)
EXTENDS Integers, FiniteSets

CONSTANTS
    Devices,     \* installations of the account
    Slots,       \* unique works that may run on each: the periodic and the immediate one
    AlertKinds,  \* groups of kinds that a preference switches
    MaxEvents,   \* bound of the model: events created
    MaxChanges,  \* bound of the model: changes of the choices
    MaxFailures, \* bound of the model: failed requests
    TTL, Cooldown, AlertEnd  \* EVENT_TTL, NOTE_EDIT_COOLDOWN and a bound, in ticks

ASSUME AlertAssumption ==
    /\ {"note", "quiz"} \subseteq AlertKinds
    /\ {MaxEvents, TTL, Cooldown, AlertEnd} \subseteq Nat \ {0}
    /\ {MaxChanges, MaxFailures} \subseteq Nat

VARIABLES
    time,
    chosen,     \* NotificationPreference: kinds the account wants
    choosing,   \* the update_preferences transaction: kinds to be saved, or NoChange
    creating,   \* the transaction that creates an event: its kind and the choices it read
    prefOwner,  \* who holds the lock of the preferences row
    events,     \* NotificationEvent rows
    waiting,    \* NotificationDelivery rows, not displayed: <<event, device>>
    displayed,  \* NotificationDelivery rows with displayed_at
    device,     \* NotificationDevice rows: "absent", "on", "off" or "disabled"
    allowed,    \* the Android permission on each installation
    works,      \* PartnerNotificationWorker runs
    posted,     \* history: alerts shown, <<event, device>>
    used        \* bounded counters: events, changes, failures

alertVars == <<time, chosen, choosing, creating, prefOwner, events, waiting, displayed, device,
               allowed, works, posted, used>>
alertTables == <<events, waiting, displayed, device>>

NoChange == [on |-> FALSE]
NoCreation == [kind |-> "none"]
NoWork == [stage |-> "idle"]
AlertWorks == Devices \X Slots

EventRow == [id : 1..MaxEvents, kind : AlertKinds, at : 0..AlertEnd]

AlertsTypeOK ==
    /\ time \in 0..AlertEnd
    /\ chosen \subseteq AlertKinds
    /\ prefOwner \in {"none", "creating", "choosing"}
    /\ events \subseteq EventRow
    /\ waiting \cap displayed = {}
    /\ \A w \in waiting \cup displayed : \E e \in events : e.id = w[1]
    /\ device \in [Devices -> {"absent", "on", "off", "disabled"}]
    /\ allowed \in [Devices -> BOOLEAN]
    /\ DOMAIN works = AlertWorks

AlertsInit ==
    /\ time = 0
    /\ chosen = AlertKinds /\ choosing = NoChange /\ creating = NoCreation /\ prefOwner = "none"
    /\ events = {} /\ waiting = {} /\ displayed = {}
    /\ device = [d \in Devices |-> "absent"]
    /\ allowed = [d \in Devices |-> TRUE]
    /\ works = [w \in AlertWorks |-> NoWork]
    /\ posted = {}
    /\ used = [events |-> 0, changes |-> 0, failures |-> 0]

-----------------------------------------------------------------------------
(* Creating events.                                                         *)

\* Mutant: the choices are read without a lock.
PrefsAlwaysFree == TRUE
\* preferences_for locks the row until the transaction ends.
PrefsFree == prefOwner = "none"

\* The kinds of which an event is refused: a note edited within the cooldown, a quiz
\* transition that already has its event.
RepeatedNote == \E e \in events : e.kind = "note" /\ e.at > time - Cooldown
RepeatedQuiz == \E e \in events : e.kind = "quiz"
Repeated(kind) == (kind = "note" /\ RepeatedNote) \/ (kind = "quiz" /\ RepeatedQuiz)

\* A partner's handler reads the recipient's choices ...
BeginEvent(kind) ==
    /\ creating = NoCreation /\ PrefsFree
    /\ used.events < MaxEvents /\ ~Repeated(kind)
    /\ kind \in chosen
    /\ creating' = [kind |-> kind] /\ prefOwner' = "creating"
    /\ UNCHANGED <<time, chosen, choosing, alertTables, allowed, works, posted, used>>

\* create_active_deliveries and ensure_pending_deliveries
ActiveDevices == {d \in Devices : device[d] = "on"}
Backfill(d) ==
    {<<e.id, d>> : e \in {e \in events : e.at + TTL > time}} \ (waiting \cup displayed)

NewEvent(kind) == [id |-> used.events + 1, kind |-> kind, at |-> time]

\* ... and commits the event with its deliveries.
CommitEvent ==
    /\ creating # NoCreation
    /\ events' = events \cup {NewEvent(creating.kind)}
    /\ waiting' = waiting \cup ({used.events + 1} \X ActiveDevices)
    /\ used' = [used EXCEPT !.events = @ + 1]
    /\ creating' = NoCreation
    /\ prefOwner' = IF prefOwner = "creating" THEN "none" ELSE prefOwner
    /\ UNCHANGED <<time, chosen, choosing, displayed, device, allowed, works, posted>>

\* update_preferences takes the row ...
BeginChoice ==
    /\ choosing = NoChange /\ PrefsFree /\ used.changes < MaxChanges
    /\ \E c \in SUBSET AlertKinds : c # chosen /\ choosing' = [on |-> TRUE, kinds |-> c]
    /\ prefOwner' = "choosing"
    /\ used' = [used EXCEPT !.changes = @ + 1]
    /\ UNCHANGED <<time, chosen, creating, alertTables, allowed, works, posted>>

RowsWithout(rows, gone) == {r \in rows : \A e \in gone : r[1] # e.id}

\* ... and saves the choices with discard_disabled_events.
CommitChoice ==
    /\ choosing # NoChange
    /\ chosen' = choosing.kinds
    /\ LET gone == {e \in events : e.kind \notin choosing.kinds} IN
       /\ events' = events \ gone
       /\ waiting' = RowsWithout(waiting, gone)
       /\ displayed' = RowsWithout(displayed, gone)
    /\ choosing' = NoChange
    /\ prefOwner' = IF prefOwner = "choosing" THEN "none" ELSE prefOwner
    /\ UNCHANGED <<time, creating, device, allowed, works, posted, used>>

\* An event goes with its source (pending_events deletes what event_response cannot
\* resolve) or by age (purge_notification_state).
DropEvent(e) ==
    /\ e \in events
    /\ events' = events \ {e}
    /\ waiting' = RowsWithout(waiting, {e})
    /\ displayed' = RowsWithout(displayed, {e})
    /\ UNCHANGED <<time, chosen, choosing, creating, prefOwner, device, allowed, works, posted, used>>

-----------------------------------------------------------------------------
(* PartnerNotificationWorker.doWork, one request at a time.                 *)

WorkAt(w, stage) == works[w].stage = stage
SetWork(w, new) == works' = [works EXCEPT ![w] = new]

\* register, with register_device
RegisterDevice(w) ==
    LET d == w[1] IN
    /\ WorkAt(w, "idle")
    /\ device' = [device EXCEPT ![d] = IF allowed[d] THEN "on" ELSE "off"]
    /\ waiting' = waiting \cup (IF allowed[d] THEN Backfill(d) ELSE {})
    /\ SetWork(w, [stage |-> "registered", ok |-> allowed[d]])
    /\ UNCHANGED <<time, chosen, choosing, creating, prefOwner, events, displayed, allowed, posted,
                   used>>

\* get_preferences; without permission or choices the work is over.
ReadChoices(w) ==
    /\ WorkAt(w, "registered") /\ PrefsFree
    /\ SetWork(w, IF works[w].ok /\ chosen # {} THEN [stage |-> "chosen", kinds |-> chosen] ELSE NoWork)
    /\ UNCHANGED <<time, chosen, choosing, creating, prefOwner, alertTables, allowed, posted, used>>

\* pending_events: _ensure_quiz_alert may create today's alert first.
QuizAlert == PrefsFree /\ "quiz" \in chosen /\ ~RepeatedQuiz /\ used.events < MaxEvents
PendingFor(d) == {e \in events : <<e.id, d>> \in waiting \cup Backfill(d) /\ e.at + TTL > time}

FetchPending(w) ==
    LET d == w[1] IN
    /\ WorkAt(w, "chosen") /\ creating = NoCreation
    /\ IF device[d] \in {"absent", "disabled"}
       THEN SetWork(w, NoWork) /\ UNCHANGED <<events, waiting, used>>
       ELSE \E quiz \in {FALSE, QuizAlert} :
            LET new == IF quiz THEN {NewEvent("quiz")} ELSE {} IN
            /\ events' = events \cup new
            /\ waiting' = waiting \cup Backfill(d) \cup {<<e.id, d>> : e \in new}
            /\ used' = [used EXCEPT !.events = @ + Cardinality(new)]
            /\ SetWork(w, [stage |-> "fetched", kinds |-> works[w].kinds,
                        batch |-> PendingFor(d) \cup new, done |-> {}])
    /\ UNCHANGED <<time, chosen, choosing, creating, prefOwner, displayed, device, allowed, posted>>

\* Mutant: nothing is acknowledged.
DoneNever(w, e, shown) == works[w].done
\* deliver: only what was posted will be acknowledged.
DoneAfter(w, e, shown) == IF shown THEN works[w].done \cup {e.id} ELSE works[w].done

\* enabled and post: the permission may have gone since the work began.
PostAlert(w) ==
    LET d == w[1] IN
    /\ WorkAt(w, "fetched")
    /\ \E e \in works[w].batch :
          LET shown == e.kind \in works[w].kinds /\ allowed[d] IN
          /\ SetWork(w, [works[w] EXCEPT !.batch = @ \ {e}, !.done = DoneAfter(w, e, shown)])
          /\ posted' = IF shown THEN posted \cup {<<e.id, d>>} ELSE posted
    /\ UNCHANGED <<time, chosen, choosing, creating, prefOwner, alertTables, allowed, used>>

\* acknowledge_events
AckAlerts(w) ==
    LET d == w[1] IN
    /\ WorkAt(w, "fetched") /\ works[w].batch = {}
    /\ IF device[d] \in {"absent", "disabled"} THEN UNCHANGED <<waiting, displayed>>
       ELSE LET seen == waiting \cap (works[w].done \X {d})
            IN waiting' = waiting \ seen /\ displayed' = displayed \cup seen
    /\ SetWork(w, NoWork)
    /\ UNCHANGED <<time, chosen, choosing, creating, prefOwner, events, device, allowed, posted, used>>

\* A request fails, or the process dies: the work is tried again from its start.
FailWork(w) ==
    /\ ~WorkAt(w, "idle") /\ used.failures < MaxFailures
    /\ SetWork(w, NoWork)
    /\ used' = [used EXCEPT !.failures = @ + 1]
    /\ UNCHANGED <<time, chosen, choosing, creating, prefOwner, alertTables, allowed, posted>>

\* The user of an installation changes the permission, or signs out (disable_device).
TogglePermission(d) ==
    /\ used.changes < MaxChanges
    /\ allowed' = [allowed EXCEPT ![d] = ~@]
    /\ used' = [used EXCEPT !.changes = @ + 1]
    /\ UNCHANGED <<time, chosen, choosing, creating, prefOwner, alertTables, works, posted>>
DisableDevice(d) ==
    /\ device[d] \in {"on", "off"} /\ used.changes < MaxChanges
    /\ device' = [device EXCEPT ![d] = "disabled"]
    /\ used' = [used EXCEPT !.changes = @ + 1]
    /\ UNCHANGED <<time, chosen, choosing, creating, prefOwner, events, waiting, displayed, allowed,
                   works, posted>>

AlertTick ==
    /\ time < AlertEnd /\ time' = time + 1
    /\ UNCHANGED <<chosen, choosing, creating, prefOwner, alertTables, allowed, works, posted, used>>

WorkStep(w) ==
    RegisterDevice(w) \/ ReadChoices(w) \/ FetchPending(w) \/ PostAlert(w) \/ AckAlerts(w)

AlertsNext ==
    \/ \E k \in AlertKinds : BeginEvent(k)
    \/ CommitEvent \/ BeginChoice \/ CommitChoice \/ AlertTick
    \/ \E e \in events : DropEvent(e)
    \/ \E w \in AlertWorks : WorkStep(w) \/ FailWork(w)
    \/ \E d \in Devices : TogglePermission(d) \/ DisableDevice(d)

AlertsSpec == AlertsInit /\ [][AlertsNext]_alertVars

\* Transactions end, and the periodic work keeps running.
AlertsFairness ==
    /\ WF_alertVars(CommitEvent) /\ WF_alertVars(CommitChoice)
    /\ \A w \in AlertWorks : SF_alertVars(WorkStep(w))

AlertsFairSpec == AlertsSpec /\ AlertsFairness

-----------------------------------------------------------------------------

\* The account never has an event of a kind it has switched off, although events are
\* created and choices saved by concurrent transactions.
DisabledKindsStayQuiet == \A e \in events : e.kind \in chosen

\* A delivery marked as displayed was shown on that installation: a switched-off kind, a
\* lost permission or a failed run leaves it to be delivered later.
AcknowledgedWasShown == displayed \subseteq posted

\* An event that waits for an installation that may show it does not wait for ever: it
\* is displayed, or it expires, is discarded, or the installation may no longer show it.
Deliverable(i, d) ==
    /\ <<i, d>> \in waiting /\ device[d] = "on" /\ allowed[d]
    /\ \E e \in events : e.id = i /\ e.at + TTL > time
AlertsAreDealtWith ==
    \A i \in 1..MaxEvents, d \in Devices : Deliverable(i, d) ~> ~Deliverable(i, d)

\* The tables say what happened: no event of a kind that is switched off, and no
\* acknowledgement of an alert that was not shown (notification_service.py,
\* PartnerNotificationWorker).
AlertsAreHonest == DisabledKindsStayQuiet /\ AcknowledgedWasShown
=============================================================================
