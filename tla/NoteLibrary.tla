---------------------------- MODULE NoteLibrary ----------------------------
(***************************************************************************)
(* The note library: creating a note from a phone that may lose the answer *)
(* or its process (NoteCreationCoordinator, NoteDocumentSession), title,   *)
(* archive and restore requests, forks, the purge of archived notes and    *)
(* the operator's removal of exact duplicates (routes/notes.py,            *)
(* routes/note_forks.py, note_deduplication.py).                           *)
(*                                                                         *)
(* A text stands for a title and a body.  Live editing of a body is the    *)
(* subject of NoteSync: here a save is one step.  Attachments are the      *)
(* subject of Attachments: no note here has one.                           *)
(***************************************************************************)
EXTENDS Naturals, FiniteSets, FiniteSetsExt

CONSTANTS
    MaxShelf,        \* bound on notes
    MaxTexts,        \* bound on different texts
    MaxOperations,   \* bound on creation identities
    MaxHandling,     \* bound on renames, archivings, restores, edits, lost answers,
                     \* process deaths and runs of the duplicate removal
    RecoveryWindow,  \* CREATE_RECOVERY_WINDOW
    UndoWindow,      \* time between archive and purge
    LibraryEnd       \* bound on the clock

ASSUME LibraryAssumption ==
    /\ {MaxShelf, MaxTexts, MaxOperations, MaxHandling, LibraryEnd} \subseteq Nat
    /\ RecoveryWindow \in Nat /\ UndoWindow \in Nat \ {0}

VARIABLES
    libTime,     \* the present time
    shelf,       \* the notes ever stored
    desk,        \* the document on the phone's screen
    createCalls,       \* creation requests whose callback the phone still has
    late,        \* creation requests the phone gave up, perhaps not yet served
    sweep,       \* notes the duplicate removal has classified
    written, named, handled     \* counters for the bounds

libraryVars ==
    <<libTime, shelf, desk, createCalls, late, sweep, written, named, handled>>

ShelfSlots == 1..MaxShelf

Texts == 0..MaxTexts

\* Creation identities: a fresh one, or a fork's, derived from its content.
FreshIdentity(k) == <<"new", k, 0>>

ForkIdentity(n, t) == <<"fork", n, t>>

Identities ==
    {FreshIdentity(k) : k \in 0..MaxOperations} \union
    {ForkIdentity(n, t) : n \in ShelfSlots, t \in Texts}

\* "ever" remembers the texts the row has held.
Rows ==
    [op : Identities, text : Texts, rev : Nat, meta : Nat, archivedAt : 0..(LibraryEnd + 1),
     purgeAfter : Nat, life : {"empty", "stored", "purged"}, born : Nat, updated : Nat,
     ever : SUBSET Texts, purgedAt : Nat]

EmptyRow ==
    [op |-> FreshIdentity(0), text |-> 0, rev |-> 0, meta |-> 0, archivedAt |-> 0, purgeAfter |-> 0,
     life |-> "empty", born |-> 0, updated |-> 0, ever |-> {}, purgedAt |-> 0]

\* Times are stored plus one, so that zero stands for an absent one.
NewRow(op, t) ==
    [EmptyRow EXCEPT !.op = op, !.text = t, !.life = "stored", !.born = libTime,
                     !.updated = libTime, !.ever = {t}]

Closed == [open |-> FALSE, note |-> 0, op |-> 0, text |-> 0, saved |-> 0, kept |-> 0]

LibraryInit ==
    /\ libTime = 0
    /\ shelf = [n \in ShelfSlots |-> EmptyRow]
    /\ desk = Closed
    /\ createCalls = {} /\ late = {}
    /\ sweep = {}
    /\ written = 0 /\ named = 0 /\ handled = 0

Stored(n) == shelf[n].life = "stored"

LiveNote(n) == Stored(n) /\ shelf[n].archivedAt = 0

Free == {n \in ShelfSlots : shelf[n].life = "empty"}
-----------------------------------------------------------------------------
(* The server; each request holds the couple row's lock. *)

Prior(op) == {n \in ShelfSlots : Stored(n) /\ shelf[n].op = op}

\* A document saved within the window, for a phone that lost its identity.
RecentEquivalent(t) ==
    {n \in ShelfSlots : /\ LiveNote(n) /\ shelf[n].text = t
                   /\ shelf[n].updated + RecoveryWindow >= libTime}

\* The note a creation request answers with, stored now if there is none.
CreateNote(op, t, n) ==
    \/ n \in Prior(op) /\ UNCHANGED shelf
    \/ /\ Prior(op) = {}
       /\ n \in RecentEquivalent(t) /\ UNCHANGED shelf
    \/ /\ Prior(op) = {} /\ RecentEquivalent(t) = {}
       /\ Free # {} /\ n = Min(Free)
       /\ shelf' = [shelf EXCEPT ![n] = NewRow(op, t)]

\* A fork is recognised by its identity only, and needs a live source.
ForkNote(source, t, n) ==
    LET op == ForkIdentity(source, t)
    IN  \/ n \in Prior(op) /\ UNCHANGED shelf
        \/ /\ Prior(op) = {} /\ LiveNote(source)
           /\ Free # {} /\ n = Min(Free)
           /\ shelf' = [shelf EXCEPT ![n] = NewRow(op, t)]

\* _finish_metadata; a request that names another revision is refused.
FinishMetadata(n, row) ==
    /\ handled < MaxHandling
    /\ handled' = handled + 1
    /\ shelf' = [shelf EXCEPT ![n] = [row EXCEPT !.meta = @ + 1, !.updated = libTime]]
    /\ UNCHANGED <<libTime, desk, createCalls, late, sweep, written, named>>

RenameNote(n) == LiveNote(n) /\ FinishMetadata(n, shelf[n])

ArchiveNote(n) ==
    /\ LiveNote(n)
    /\ FinishMetadata(n, [shelf[n] EXCEPT !.archivedAt = libTime + 1,
                                          !.purgeAfter = libTime + UndoWindow + 1])

Restored(row) == [row EXCEPT !.archivedAt = 0, !.purgeAfter = 0]

RestoreNote(n) ==
    /\ Stored(n) /\ ~LiveNote(n)
    /\ shelf[n].purgeAfter > libTime + 1
    /\ FinishMetadata(n, Restored(shelf[n]))

\* The partner changes the body.
PartnerEditsNote(n) ==
    /\ LiveNote(n) /\ handled < MaxHandling /\ written < MaxTexts
    /\ handled' = handled + 1
    /\ written' = written + 1
    /\ shelf' = [shelf EXCEPT ![n].text = written + 1, ![n].rev = @ + 1,
                              ![n].ever = @ \union {written + 1}, ![n].updated = libTime]
    /\ UNCHANGED <<libTime, desk, createCalls, late, sweep, named>>

PurgeDue(n) == Stored(n) /\ shelf[n].purgeAfter > 0 /\ shelf[n].purgeAfter <= libTime + 1

PurgeNotes ==
    /\ \E n \in ShelfSlots : PurgeDue(n)
    /\ shelf' = [n \in ShelfSlots |->
            IF PurgeDue(n) THEN [shelf[n] EXCEPT !.life = "purged", !.purgedAt = libTime + 1]
            ELSE shelf[n]]
    /\ UNCHANGED <<libTime, desk, createCalls, late, sweep, written, named,
                   handled>>
-----------------------------------------------------------------------------
(* The operator's removal of duplicates. *)

Untouched(n) == shelf[n].rev = 0 /\ shelf[n].meta = 0

\* The copies of one text that may go, if a copy to keep can be told.
SafeDuplicates(group) ==
    LET edited == {n \in group : ~Untouched(n)}
        canonical == CHOOSE n \in (IF edited = {} THEN group ELSE edited) :
                        \A m \in group : edited = {} => n <= m
    IN  IF group = {} \/ Cardinality(edited) > 1 THEN {} ELSE group \ {canonical}

ClassifyDuplicates ==
    /\ sweep = {} /\ handled < MaxHandling
    /\ sweep' = UNION {SafeDuplicates({n \in ShelfSlots : LiveNote(n) /\ shelf[n].text = t})
                        : t \in 1..written}
    /\ sweep' # {}
    /\ handled' = handled + 1
    /\ UNCHANGED <<libTime, shelf, desk, createCalls, late, written, named>>

\* Each row is locked and read again, but the session keeps the attributes it
\* loaded when it classified the note: the second check sees the first reading,
\* and the new revision is computed from it.
ArchiveDuplicates ==
    /\ sweep # {}
    /\ shelf' = [n \in ShelfSlots |->
            IF n \in sweep /\ Stored(n)
            THEN [shelf[n] EXCEPT !.archivedAt = libTime + 1, !.meta = 1,
                                  !.purgeAfter = libTime + UndoWindow + 1, !.updated = libTime]
            ELSE shelf[n]]
    /\ sweep' = {}
    /\ UNCHANGED <<libTime, desk, createCalls, late, written, named, handled>>
-----------------------------------------------------------------------------
(* The phone. *)

\* An empty document with its own creation identity, persisted at once.
NewNote ==
    /\ ~desk.open \/ desk.note # 0
    /\ named < MaxOperations
    /\ named' = named + 1
    /\ desk' = [Closed EXCEPT !.open = TRUE, !.op = named + 1]
    /\ UNCHANGED <<libTime, shelf, createCalls, late, sweep, written, handled>>

\* A new text, or one typed before.
TypeNote(t) ==
    /\ desk.open /\ t # desk.text
    /\ t \in 1..(written + 1) /\ t <= MaxTexts
    /\ written' = IF t > written THEN t ELSE written
    /\ desk' = [desk EXCEPT !.text = t]
    /\ UNCHANGED <<libTime, shelf, createCalls, late, sweep, named, handled>>

\* create() persists the workspace and sends; one request at a time.  A document
\* that was opened meanwhile has forgotten the request in flight.
SubmitCreate ==
    /\ desk.open /\ desk.note = 0 /\ desk.text # 0
    /\ ~\E c \in createCalls : c.op = desk.op
    /\ createCalls' = createCalls \union {[op |-> desk.op, text |-> desk.text, answer |-> 0]}
    /\ desk' = [desk EXCEPT !.kept = desk.text]
    /\ UNCHANGED <<libTime, shelf, late, sweep, written, named, handled>>

ServeCreate(c) ==
    /\ c.answer = 0
    /\ \E n \in ShelfSlots :
          /\ CreateNote(FreshIdentity(c.op), c.text, n)
          /\ createCalls' = (createCalls \ {c}) \union {[c EXCEPT !.answer = n]}
    /\ UNCHANGED <<libTime, desk, late, sweep, written, named, handled>>

\* Mutant: what was sent is taken for what is stored.
AdoptedAsSent(d, c) ==
    [d EXCEPT !.open = TRUE, !.note = c.answer, !.op = 0, !.saved = c.text, !.kept = d.text]

\* The note in the answer becomes the document, whatever it holds and whatever
\* the inputs hold.
Adopted(d, c) ==
    [d EXCEPT !.open = TRUE, !.note = c.answer, !.op = 0,
              !.saved = shelf[c.answer].text, !.kept = d.text]

\* The callback does not ask which document the screen shows by now, or whether
\* it shows the library.
AdoptCreatedNote(c) ==
    /\ c.answer # 0
    /\ createCalls' = createCalls \ {c}
    /\ desk' = Adopted(desk, c)
    /\ UNCHANGED <<libTime, shelf, late, sweep, written, named, handled>>

\* The request fails on the phone; the server may or may not have served it.
LoseAnswer(c) ==
    /\ handled < MaxHandling
    /\ handled' = handled + 1
    /\ createCalls' = createCalls \ {c}
    /\ late' = IF c.answer = 0 THEN late \union {[op |-> c.op, text |-> c.text]} ELSE late
    /\ UNCHANGED <<libTime, shelf, desk, sweep, written, named>>

ServeLate(m) ==
    /\ late' = late \ {m}
    /\ \/ \E n \in ShelfSlots : CreateNote(FreshIdentity(m.op), m.text, n)
       \/ UNCHANGED shelf
    /\ UNCHANGED <<libTime, desk, createCalls, sweep, written, named, handled>>

\* The editor's save of a stored document, acknowledged.
SaveBody ==
    /\ desk.open /\ desk.note # 0 /\ desk.text # desk.saved
    /\ LiveNote(desk.note) /\ handled < MaxHandling
    /\ handled' = handled + 1
    /\ shelf' = [shelf EXCEPT ![desk.note].text = desk.text, ![desk.note].rev = @ + 1,
                              ![desk.note].ever = @ \union {desk.text},
                              ![desk.note].updated = libTime]
    /\ desk' = [desk EXCEPT !.saved = desk.text, !.kept = desk.text]
    /\ UNCHANGED <<libTime, createCalls, late, sweep, written, named>>

\* finishReturn: the library comes back only when everything is saved; a new
\* document without a text is given up.  The inputs keep their text.
ReturnToLibrary ==
    /\ desk.open
    /\ IF desk.note # 0 THEN desk.text = desk.saved ELSE desk.text = 0
    /\ desk' = [Closed EXCEPT !.text = desk.text]
    /\ UNCHANGED <<libTime, shelf, createCalls, late, sweep, written, named,
                   handled>>

Opened(n, t) ==
    [Closed EXCEPT !.open = TRUE, !.note = n, !.text = t, !.saved = t, !.kept = t]

\* Another document is chosen, a creation in flight or not.
SelectNote(n) ==
    /\ LiveNote(n) /\ desk.note # n
    /\ desk' = Opened(n, shelf[n].text)
    /\ UNCHANGED <<libTime, shelf, createCalls, late, sweep, written, named,
                   handled>>

\* The local text becomes a note of its own; a lost answer leaves the document.
KeepMyVersion ==
    /\ desk.open /\ desk.note # 0 /\ desk.text # desk.saved
    /\ \E n \in ShelfSlots :
          /\ ForkNote(desk.note, desk.text, n)
          /\ \/ /\ desk' = Opened(n, shelf'[n].text)
                /\ UNCHANGED handled
             \/ /\ handled < MaxHandling /\ handled' = handled + 1
                /\ UNCHANGED desk
    /\ UNCHANGED <<libTime, createCalls, late, sweep, written, named>>

\* The process dies with its callbacks.  A stored reference brings the persisted
\* workspace back, a stored document as the server has it now unless it was
\* changed; without the reference the document and its identity are gone.
Revived(t) ==
    IF desk.note = 0 THEN [desk EXCEPT !.text = t, !.kept = t]
    ELSE IF ~LiveNote(desk.note) THEN Closed
    ELSE [Opened(desk.note, shelf[desk.note].text) EXCEPT !.text = IF t = desk.saved THEN @ ELSE t]

ProcessDies ==
    /\ desk.open /\ handled < MaxHandling
    /\ handled' = handled + 1
    /\ createCalls' = {}
    /\ late' = late \union {[op |-> c.op, text |-> c.text]
                            : c \in {x \in createCalls : x.answer = 0}}
    /\ \/ \E t \in {desk.text, desk.kept} : desk' = Revived(t)
       \/ desk' = Closed
    /\ UNCHANGED <<libTime, shelf, sweep, written, named>>

\* Requests last seconds: none outlives a unit of time.
LibraryTick ==
    /\ libTime < LibraryEnd /\ createCalls = {} /\ late = {} /\ sweep = {}
    /\ libTime' = libTime + 1
    /\ UNCHANGED <<shelf, desk, createCalls, late, sweep, written, named, handled>>

LibraryNext ==
    \/ \E n \in ShelfSlots : \/ RenameNote(n) \/ ArchiveNote(n) \/ RestoreNote(n)
                        \/ PartnerEditsNote(n) \/ SelectNote(n)
    \/ \E c \in createCalls : ServeCreate(c) \/ AdoptCreatedNote(c) \/ LoseAnswer(c)
    \/ \E m \in late : ServeLate(m)
    \/ \E t \in Texts : TypeNote(t)
    \/ NewNote \/ SubmitCreate \/ SaveBody \/ ReturnToLibrary \/ KeepMyVersion
    \/ ProcessDies \/ PurgeNotes \/ ClassifyDuplicates \/ ArchiveDuplicates \/ LibraryTick

LibrarySpec == LibraryInit /\ [][LibraryNext]_libraryVars
-----------------------------------------------------------------------------
\* Every variable has its type.
LibraryTypeOK ==
    /\ libTime \in 0..LibraryEnd
    /\ \A n \in ShelfSlots : shelf[n] \in Rows
    /\ desk \in [open : BOOLEAN, note : 0..MaxShelf, op : 0..MaxOperations, text : Texts,
                 saved : Texts, kept : Texts]
    /\ createCalls \subseteq [op : 0..MaxOperations, text : Texts, answer : 0..MaxShelf]
    /\ late \subseteq [op : 0..MaxOperations, text : Texts]
    /\ sweep \subseteq ShelfSlots

\* Lost answers, retries with a changed text and process deaths store a document
\* once: no two notes answer to one identity (create_note, fork_note).
OneNotePerIdentity ==
    \A n, m \in ShelfSlots :
        Stored(n) /\ Stored(m) /\ shelf[n].op = shelf[m].op => n = m

\* A phone that lost its identity and sends the same text again within the
\* recovery window finds the note it already made (_recent_equivalent).
NoTwinNotes ==
    \A n, m \in ShelfSlots :
        /\ n < m /\ LiveNote(n) /\ LiveNote(m)
        /\ Untouched(n) /\ Untouched(m)
        /\ shelf[n].op[1] = "new" /\ shelf[m].op[1] = "new"
        /\ shelf[n].text = shelf[m].text
        => shelf[m].born > shelf[n].born + RecoveryWindow

\* What the phone takes for saved has been stored: a creation answered with an
\* earlier or an equivalent note never passes the newer text off as saved, so
\* leaving the document loses nothing (adoptCreatedNote, finishReturn).
SavedMeansStored ==
    desk.open /\ desk.note # 0 => desk.saved \in shelf[desk.note].ever

\* A note disappears only when it has been archived for the whole undo window
\* and has not been restored since (archive_note, restore_note, the purge).
NothingPurgedEarly ==
    \A n \in ShelfSlots :
        shelf[n].life = "purged" =>
            shelf[n].archivedAt > 0 /\ shelf[n].purgedAt >= shelf[n].archivedAt + UndoWindow

\* Retries, lost answers, process deaths and the daily maintenance leave one note
\* per document, with the text the phone takes for saved, for as long as it may be
\* restored (routes/notes.py, note_deduplication.py, the notes screen).
NotesAreKeptOnce ==
    OneNotePerIdentity /\ NoTwinNotes /\ SavedMeansStored /\ NothingPurgedEarly
=============================================================================
