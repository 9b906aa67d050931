------------------------------ MODULE NoteSync ------------------------------
(***************************************************************************)
(* One shared note, edited live by both partners: the server's             *)
(* apply_note_edit and note socket (note_edit_service.py, routes/notes.py, *)
(* notes_hub.py), the socket session of each phone (NoteSocketClient.java) *)
(* and the editor screen that drives it (NoteDocumentSession.java).        *)
(*                                                                         *)
(* The server transaction, the broadcast of its result, the handling of a  *)
(* message on the socket thread and the callback it posts to the UI thread *)
(* are separate steps. A connection may be lost at any moment and is       *)
(* opened again; a phone may leave the editor and come back. Each typed    *)
(* character is distinct, so that text can be followed through the system. *)
(***************************************************************************)
EXTENDS NoteEdits, FiniteSets

CONSTANTS
    Clients,      \* the editors of the two partners
    InitialBody,  \* the note as both loaded it, at revision 0
    MaxEdits,     \* bound of the model: edits by each user
    MaxRevision,  \* bound of the model: operations the server accepts
    MaxBreaks     \* bound of the model: lost connections and times a phone
                  \* leaves the editor, together

ASSUME SyncAssumption ==
    /\ IsFiniteSet(Clients)
    /\ InitialBody \in Seq({InitialBody[i] : i \in DOMAIN InitialBody})
    /\ MaxEdits \in Nat /\ MaxRevision \in Nat
    /\ MaxBreaks \in Nat

VARIABLES
    history,     \* history[r + 1]: Note.body at revision r; the last is current
    operations,  \* NoteOperation rows: [id, edit] by resulting_revision
    task,        \* what the server's socket task of each client is doing
    down,        \* messages on their way to each client
    phone,       \* the state of each client: screen, draft and socket session
    edited,      \* edits each user has made on the screen
    typed,       \* characters each user typed and neither deleted nor gave up
    erased,      \* characters some user deleted on the screen
    breaks       \* connections lost and editors left so far

serverVars == <<history, operations>>
userVars   == <<edited, typed, erased>>
vars == <<serverVars, task, down, phone, userVars, breaks>>

Chars(s)  == {s[i] : i \in 1..Len(s)}
Revision  == Len(operations)
Body      == history[Revision + 1]
NoDraft   == [saved |-> FALSE, body |-> <<>>, base |-> 0]
Draft(body, base) == [saved |-> TRUE, body |-> body, base |-> base]

\* EditorSession as its constructor leaves it.
FreshSocket(k, body, revision) ==
    [k EXCEPT !.server = body, !.desired = body, !.revision = revision,
              !.ready = FALSE, !.paused = FALSE, !.pending = <<>>]

\* Both phones have just selected the note: no draft, the socket connecting.
Selected ==
    [screen |-> InitialBody,     \* the text in the editor
     uiServer |-> InitialBody,   \* NoteDocumentSession.serverBody
     uiRevision |-> 0,           \* current.revision
     base |-> 0,                 \* localBaseRevision
     review |-> FALSE,           \* needsReview
     inFlight |-> FALSE,         \* bodyInFlight
     savePending |-> FALSE,
     timer |-> FALSE,            \* NoteAutosaveScheduler is armed
     away |-> FALSE,             \* paused, the editor connection closed
     draft |-> NoDraft,          \* NoteDraftStore
     events |-> <<>>,            \* callbacks posted to the UI thread
     server |-> InitialBody, desired |-> InitialBody, revision |-> 0,
     ready |-> FALSE, paused |-> FALSE,
     pending |-> <<>>,           \* operations of the current plan
     made |-> 0,                 \* operation ids used so far
     linked |-> FALSE,           \* the server's task serves this very socket
     up |-> <<>>]                \* messages on their way to the server

Init ==
    /\ history = <<InitialBody>>
    /\ operations = <<>>
    /\ task = [c \in Clients |-> [at |-> "closed"]]
    /\ down = [c \in Clients |-> <<>>]
    /\ phone = [c \in Clients |-> Selected]
    /\ edited = [c \in Clients |-> 0]
    /\ typed = [c \in Clients |-> {}]
    /\ erased = {}
    /\ breaks = 0

-----------------------------------------------------------------------------
(* Messages                                                                *)

Snapshot(body, revision) ==
    [type |-> "note.snapshot", body |-> body, revision |-> revision]

Ack(id, body, revision, duplicate) ==
    [type |-> "note.ack", id |-> id, body |-> body, revision |-> revision,
     duplicate |-> duplicate]

Conflict == [type |-> "note.conflict", body |-> Body, revision |-> Revision]
Error    == [type |-> "note.error"]

\* Callbacks of NoteSocketClient.Listener.
Event(name, k) == [name |-> name, body |-> k.server, revision |-> k.revision]
Failure == [name |-> "failure", body |-> <<>>, revision |-> 0]
Post(k, event) == [k EXCEPT !.events = Append(@, event)]

-----------------------------------------------------------------------------
(* NoteSocketClient: every operator maps the state of one phone to the next *)

CommonPrefix(s, t) ==
    CHOOSE n \in 0..Least(Len(s), Len(t)) :
        /\ Prefix(s, n) = Prefix(t, n)
        /\ n < Least(Len(s), Len(t)) => s[n + 1] # t[n + 1]

CommonSuffix(s, t, prefix) ==
    LET most == Least(Len(s), Len(t)) - prefix IN
    CHOOSE n \in 0..most :
        /\ Suffix(s, Len(s) - n) = Suffix(t, Len(t) - n)
        /\ n < most => s[Len(s) - n] # t[Len(t) - n]

\* editPlan: delete what differs, then insert what replaces it.
EditPlan(old, new) ==
    LET prefix == CommonPrefix(old, new)
        suffix == CommonSuffix(old, new, prefix)
        gone   == Len(old) - prefix - suffix
        added  == SubSeq(new, prefix + 1, Len(new) - suffix)
    IN (IF gone > 0 THEN <<Delete(prefix, gone)>> ELSE <<>>)
       \o (IF added # <<>> THEN <<Insert(prefix, added)>> ELSE <<>>)

\* sendCurrent: the head of the plan, at the revision last heard of.
SendCurrent(k) ==
    IF k.pending = <<>> THEN k
    ELSE [k EXCEPT !.up = Append(@, [id |-> Head(k.pending).id,
                                     base |-> k.revision,
                                     edit |-> Head(k.pending).edit])]

Drain(c, k) ==
    IF ~k.ready \/ k.paused \/ k.pending # <<>> \/ k.desired = k.server
    THEN k
    ELSE LET plan == EditPlan(k.server, k.desired) IN
         SendCurrent([k EXCEPT
             !.pending = [i \in 1..Len(plan) |->
                             [id |-> <<c, k.made + i>>, edit |-> plan[i]]],
             !.made = @ + Len(plan)])

Update(c, k, body) == Drain(c, [k EXCEPT !.desired = body])

KeepLocal(c, k, body) ==
    Drain(c, [k EXCEPT !.desired = body, !.paused = FALSE])

AcceptServer(k) ==
    [k EXCEPT !.desired = k.server, !.pending = <<>>, !.paused = FALSE]

HandleSnapshot(c, k, m) ==
    LET heard == [k EXCEPT !.server = m.body, !.revision = m.revision,
                           !.ready = TRUE]
    IN IF k.pending = <<>> THEN Drain(c, Post(heard, Event("remote", heard)))
                           ELSE SendCurrent(heard)

HandleAck(c, k, m) ==
    LET heard == [k EXCEPT !.server = m.body, !.revision = m.revision]
        done  == [heard EXCEPT !.pending = IF m.duplicate THEN <<>> ELSE Tail(@)]
    IN IF k.pending = <<>> THEN Post(heard, Event("remote", heard))
       ELSE IF Head(k.pending).id # m.id THEN heard
       ELSE IF done.pending = <<>> THEN Drain(c, Post(done, Event("saved", done)))
       ELSE SendCurrent(done)

HandleConflict(k, m) ==
    LET heard == [k EXCEPT !.server = m.body, !.revision = m.revision,
                           !.pending = <<>>, !.paused = TRUE]
    IN Post(heard, Event("conflict", heard))

Handle(c, k, m) ==
    CASE m.type = "note.snapshot" -> HandleSnapshot(c, k, m)
      [] m.type = "note.ack"      -> HandleAck(c, k, m)
      [] m.type = "note.conflict" -> HandleConflict(k, m)
      [] m.type = "note.error"    -> Post(k, Failure)

-----------------------------------------------------------------------------
(* NoteDocumentSession, on the UI thread                                   *)

StartBodySave(c, k) ==
    Update(c, [k EXCEPT !.draft = Draft(k.screen, k.base), !.inFlight = TRUE],
           k.screen)

DrainAutosave(c, k) ==
    IF ~k.savePending \/ k.inFlight THEN k
    ELSE IF k.screen # k.uiServer
         THEN StartBodySave(c, [k EXCEPT !.savePending = FALSE])
         ELSE [k EXCEPT !.savePending = FALSE]

RequestAutosave(c, k) ==
    IF k.review THEN k ELSE DrainAutosave(c, [k EXCEPT !.savePending = TRUE])

\* Mutant: a partner's version replaces whatever is on the screen.
ApplyRemoteAlways(k, e) ==
    [k EXCEPT !.uiServer = e.body, !.uiRevision = e.revision,
              !.screen = e.body, !.base = e.revision, !.draft = NoDraft,
              !.review = FALSE]

ApplyRemote(k, e) ==
    LET heard == [k EXCEPT !.uiServer = e.body, !.uiRevision = e.revision]
    IN IF k.screen = k.uiServer \/ k.screen = e.body
       THEN [heard EXCEPT !.screen = e.body, !.base = e.revision,
                          !.draft = NoDraft, !.review = FALSE]
       ELSE [heard EXCEPT !.review = TRUE]

ApplySaved(c, k, e) ==
    LET heard == [k EXCEPT !.inFlight = FALSE, !.uiServer = e.body,
                           !.uiRevision = e.revision, !.base = e.revision]
    IN DrainAutosave(c, IF k.screen = e.body
          THEN [heard EXCEPT !.draft = NoDraft, !.review = FALSE]
          ELSE [heard EXCEPT !.draft = Draft(k.screen, e.revision),
                             !.savePending = TRUE])

ApplyConflict(k, e) ==
    [k EXCEPT !.inFlight = FALSE, !.uiServer = e.body,
              !.uiRevision = e.revision, !.review = TRUE]

ApplyEvent(c, k, e) ==
    CASE e.name = "remote"   -> ApplyRemote(k, e)
      [] e.name = "saved"    -> ApplySaved(c, k, e)
      [] e.name = "conflict" -> ApplyConflict(k, e)
      [] e.name = "failure"  -> [k EXCEPT !.inFlight = FALSE]

UseServerVersion(k) ==
    [AcceptServer(k) EXCEPT !.review = FALSE, !.screen = k.uiServer,
                            !.base = k.uiRevision, !.draft = NoDraft]

FinishMerge(c, k) ==
    IF k.screen = k.uiServer THEN UseServerVersion(k)
    ELSE KeepLocal(c, [k EXCEPT !.review = FALSE, !.base = k.uiRevision,
                                !.inFlight = TRUE,
                                !.draft = Draft(k.screen, k.uiRevision)],
                   k.screen)

\* Mutant: the draft is cleared as soon as its text is submitted again.
ReconcileClears(c, k, body, revision) ==
    LET opened == FreshSocket([k EXCEPT !.uiServer = body,
                                        !.uiRevision = revision,
                                        !.draft = NoDraft,
                                        !.away = FALSE], body, revision)
    IN IF k.screen = k.uiServer
       THEN [opened EXCEPT !.screen = body, !.base = revision]
       ELSE IF k.base # revision THEN [opened EXCEPT !.review = TRUE]
       ELSE Update(c, opened, k.screen)

\* reconcileBody, with the note as the reload fetched it.
ReconcileBody(c, k, body, revision) ==
    LET opened == FreshSocket([k EXCEPT !.uiServer = body,
                                        !.uiRevision = revision,
                                        !.away = FALSE], body, revision)
    IN IF k.screen = k.uiServer
       THEN [opened EXCEPT !.screen = body, !.draft = NoDraft, !.base = revision]
       ELSE IF k.base # revision THEN [opened EXCEPT !.review = TRUE]
       ELSE Update(c, opened, k.screen)

-----------------------------------------------------------------------------
(* Users                                                                   *)

\* bindEditors: every change is drafted and arms the autosave, unless a
\* conflict is under review.
Change(c, text) ==
    phone' = [phone EXCEPT ![c] =
        IF phone[c].review THEN [@ EXCEPT !.screen = text]
        ELSE [@ EXCEPT !.screen = text, !.timer = TRUE,
                       !.draft = Draft(text, phone[c].base)]]

MayEdit(c) == edited[c] < MaxEdits /\ ~phone[c].away

TypeText(c) ==
    /\ MayEdit(c)
    /\ \E p \in 0..Len(phone[c].screen) :
          LET x == <<c, edited[c]>> IN
          /\ Change(c, Apply(phone[c].screen, Insert(p, <<x>>)))
          /\ typed' = [typed EXCEPT ![c] = @ \cup {x}]
    /\ edited' = [edited EXCEPT ![c] = @ + 1]
    /\ UNCHANGED <<serverVars, task, down, erased, breaks>>

EraseText(c) ==
    /\ MayEdit(c)
    /\ \E p \in 1..Len(phone[c].screen) :
          /\ Change(c, Apply(phone[c].screen, Delete(p - 1, 1)))
          /\ typed' = [d \in Clients |-> typed[d] \ {phone[c].screen[p]}]
          /\ erased' = erased \cup {phone[c].screen[p]}
    /\ edited' = [edited EXCEPT ![c] = @ + 1]
    /\ UNCHANGED <<serverVars, task, down, breaks>>

\* 800 ms without input, or five seconds of typing.
AutosaveFires(c) ==
    /\ phone[c].timer /\ ~phone[c].away
    /\ phone' = [phone EXCEPT ![c] = RequestAutosave(c, [@ EXCEPT !.timer = FALSE])]
    /\ UNCHANGED <<serverVars, task, down, userVars, breaks>>

\* "Use the shared version": the local text is given up on purpose.
ChooseServer(c) ==
    /\ phone[c].review /\ ~phone[c].away
    /\ phone' = [phone EXCEPT ![c] = UseServerVersion(@)]
    /\ typed' = [typed EXCEPT ![c] = {}]
    /\ UNCHANGED <<serverVars, task, down, edited, erased, breaks>>

ChooseMerge(c) ==
    /\ phone[c].review /\ ~phone[c].away
    /\ phone' = [phone EXCEPT ![c] = FinishMerge(c, @)]
    /\ UNCHANGED <<serverVars, task, down, userVars, breaks>>

\* pause: flush the autosave, draft what differs, close the editor. Messages
\* already handed to the socket still go out before its close frame.
LeaveEditor(c) ==
    /\ ~phone[c].away /\ breaks < MaxBreaks
    /\ breaks' = breaks + 1
    /\ LET k == IF phone[c].timer
                THEN RequestAutosave(c, [phone[c] EXCEPT !.timer = FALSE])
                ELSE phone[c]
       IN phone' = [phone EXCEPT ![c] =
             [k EXCEPT !.draft = IF k.screen # k.uiServer
                                 THEN Draft(k.screen, k.base) ELSE @,
                       !.inFlight = FALSE, !.ready = FALSE, !.away = TRUE,
                       !.linked = FALSE, !.events = <<>>]]
    /\ down' = [down EXCEPT ![c] = <<>>]
    /\ UNCHANGED <<serverVars, task, userVars>>

\* resume and reloadCurrent: list_notes, then reconcileBody.
ReturnToEditor(c) ==
    /\ phone[c].away
    /\ phone' = [phone EXCEPT ![c] = ReconcileBody(c, @, Body, Revision)]
    /\ UNCHANGED <<serverVars, task, down, userVars, breaks>>

-----------------------------------------------------------------------------
(* The server's note socket                                                *)

\* note_socket authorizes and registers the connection ...
JoinHub(c) ==
    /\ task[c].at = "closed" /\ ~phone[c].away
    /\ task' = [task EXCEPT ![c] = [at |-> "joined"]]
    /\ phone' = [phone EXCEPT ![c].linked = TRUE]
    /\ UNCHANGED <<serverVars, down, userVars, breaks>>

\* ... reads the live snapshot after that ...
ReadSnapshot(c) ==
    /\ task[c].at = "joined"
    /\ task' = [task EXCEPT ![c] = [at |-> "sending",
                                    message |-> Snapshot(Body, Revision)]]
    /\ UNCHANGED <<serverVars, down, phone, userVars, breaks>>

\* ... and sends it.
SendSnapshot(c) ==
    /\ task[c].at = "sending"
    /\ task' = [task EXCEPT ![c] = [at |-> "running"]]
    /\ down' = [down EXCEPT ![c] = IF phone[c].linked
                                   THEN Append(@, task[c].message) ELSE @]
    /\ UNCHANGED <<serverVars, phone, userVars, breaks>>

\* _transform_since: the edit after each operation it did not know; wins
\* holds those whose id is greater (uuid4: any set of them).
Transformed(m, wins) ==
    LET step[r \in m.base..Revision] ==
            IF r = m.base THEN m.edit
            ELSE Transform(step[r - 1], operations[r].edit, r \in wins)
    IN step[Revision]

Known(id) == \E r \in 1..Revision : operations[r].id = id

\* Mutant: a retried operation is acknowledged with its old revision.
RewindingAck(id) ==
    LET r == CHOOSE r \in 1..Revision : operations[r].id = id
    IN Ack(id, Body, r, TRUE)

DuplicateAck(id) == Ack(id, Body, Revision, TRUE)

\* apply_note_edit: one transaction under the couple's lock.
ApplyNoteEdit(c) ==
    /\ task[c].at = "running" /\ phone[c].up # <<>>
    /\ LET m == Head(phone[c].up) IN
       \/ /\ Known(m.id)
          /\ task' = [task EXCEPT ![c] = [at |-> "result",
                                          message |-> DuplicateAck(m.id)]]
          /\ UNCHANGED serverVars
       \/ /\ ~Known(m.id) /\ m.base <= Revision /\ Revision < MaxRevision
          /\ \E wins \in SUBSET ((m.base + 1)..Revision) :
               LET edit == Transformed(m, wins) IN
               IF Applicable(edit, Len(Body))
               THEN LET body == Apply(Body, edit) IN
                    /\ history' = Append(history, body)
                    /\ operations' = Append(operations, [id |-> m.id, edit |-> edit])
                    /\ task' = [task EXCEPT ![c] =
                          [at |-> "result",
                           message |-> Ack(m.id, body, Revision + 1, FALSE)]]
               ELSE /\ task' = [task EXCEPT ![c] = [at |-> "result",
                                                    message |-> Error]]
                    /\ UNCHANGED serverVars
    /\ phone' = [phone EXCEPT ![c].up = Tail(@)]
    /\ UNCHANGED <<down, userVars, breaks>>

\* hub.broadcast: the result goes to every editor of the note, its author
\* included.
Broadcast(c) ==
    /\ task[c].at = "result"
    /\ down' = [d \in Clients |-> IF phone[d].linked
                                  THEN Append(down[d], task[c].message)
                                  ELSE down[d]]
    /\ task' = [task EXCEPT ![c] = [at |-> "running"]]
    /\ UNCHANGED <<serverVars, phone, userVars, breaks>>

\* The server finds the connection closed, after the messages that came first.
HangUp(c) ==
    /\ task[c].at \in {"joined", "sending", "running"} /\ ~phone[c].linked
    /\ phone[c].up = <<>>
    /\ task' = [task EXCEPT ![c] = [at |-> "closed"]]
    /\ UNCHANGED <<serverVars, down, phone, userVars, breaks>>

-----------------------------------------------------------------------------
(* The phones' socket and UI threads, and the network                      *)

SocketMessage(c) ==
    /\ down[c] # <<>>
    /\ phone' = [phone EXCEPT ![c] = Handle(c, @, Head(down[c]))]
    /\ down' = [down EXCEPT ![c] = Tail(@)]
    /\ UNCHANGED <<serverVars, task, userVars, breaks>>

UiCallback(c) ==
    /\ phone[c].events # <<>>
    /\ phone' = [phone EXCEPT ![c] =
          ApplyEvent(c, [phone[c] EXCEPT !.events = Tail(@)],
                     Head(phone[c].events))]
    /\ UNCHANGED <<serverVars, task, down, userVars, breaks>>

\* The connection breaks: what is in transit is lost both ways, and onFailure
\* schedules a reconnection.
LoseConnection(c) ==
    /\ breaks < MaxBreaks /\ phone[c].linked
    /\ breaks' = breaks + 1
    /\ down' = [down EXCEPT ![c] = <<>>]
    /\ phone' = [phone EXCEPT ![c] =
          Post([@ EXCEPT !.linked = FALSE, !.ready = FALSE, !.up = <<>>],
               Failure)]
    /\ UNCHANGED <<serverVars, task, userVars>>

-----------------------------------------------------------------------------
Next == \E c \in Clients :
    \/ TypeText(c) \/ EraseText(c) \/ AutosaveFires(c)
    \/ ChooseServer(c) \/ ChooseMerge(c) \/ LeaveEditor(c) \/ ReturnToEditor(c)
    \/ JoinHub(c) \/ ReadSnapshot(c) \/ SendSnapshot(c)
    \/ ApplyNoteEdit(c) \/ Broadcast(c) \/ HangUp(c)
    \/ SocketMessage(c) \/ UiCallback(c) \/ LoseConnection(c)

Spec == Init /\ [][Next]_vars

-----------------------------------------------------------------------------
(* Properties                                                              *)

Written == UNION {Chars(history[r]) : r \in 1..Len(history)}

PhoneOK(k) ==
    /\ k.review \in BOOLEAN /\ k.inFlight \in BOOLEAN /\ k.ready \in BOOLEAN
    /\ k.uiRevision \in 0..Revision /\ k.base \in 0..Revision
    /\ k.revision \in 0..Revision /\ k.draft.base \in 0..Revision
    /\ Len(k.pending) <= 2

TypeOK ==
    /\ Len(history) = Revision + 1 /\ Revision <= MaxRevision
    /\ \A c \in Clients : PhoneOK(phone[c])
    /\ breaks <= MaxBreaks

\* What a phone takes for the note at a revision is what the server stored at
\* that revision, on the socket thread and on the UI thread alike, whatever
\* was retried, lost or overtaken: "a retried operation cannot rewind
\* observers to its historical revision".
VersionsAreReal ==
    \A c \in Clients :
        /\ phone[c].server = history[phone[c].revision + 1]
        /\ phone[c].uiServer = history[phone[c].uiRevision + 1]

\* Typed text is never lost on the way: until its author deletes it or gives
\* it up, it is on the author's screen or it has reached the shared note.
TypedTextSurvives ==
    \A c \in Clients : typed[c] \subseteq Chars(phone[c].screen) \cup Written

\* Encrypted drafts survive the death of the process: text the screen does not
\* share with the server is in the draft store, except while a conflict is
\* under review.
UnsavedTextIsDrafted ==
    \A c \in Clients :
        \/ phone[c].screen = phone[c].uiServer
        \/ phone[c].review
        \/ phone[c].draft.saved /\ phone[c].draft.body = phone[c].screen

\* "A newer server revision stops synchronization": an editor whose user has
\* not touched the note never changes it.
UntouchedEditorNeverWrites ==
    \A r \in 1..Revision : edited[operations[r].id[1]] > 0

\* "Offline work cannot silently overwrite a partner's newer revision": text
\* disappears from the note only if a user deleted it on a screen.
OnlyUsersDelete == Written \subseteq Chars(Body) \cup erased
=============================================================================
