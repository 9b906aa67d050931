---------------------------- MODULE NoteProofs -----------------------------
(***************************************************************************)
(* Proofs about shared notes: attachments (Attachments), the library       *)
(* (NoteLibrary) and live editing (NoteSync).                              *)
(*                                                                         *)
(* The attachments have three invariants.  LifeInv is about rows, requests *)
(* and workers; with it every step is one of AttachmentLife.  BytesInv adds*)
(* the files: they are removed only once an outcome is final, and the      *)
(* orphan pass leaves alone what has been created since its commit.        *)
(* AccountInv adds the counter, which every step on a row must follow.     *)
(*                                                                         *)
(* In the library every step is one of three kinds: notes are worked on or *)
(* purged where they stand (RowsMove), a note is added above all others    *)
(* (NewRowKeeps), or only the phone moves (DeskMoved).                     *)
(*                                                                         *)
(* In live editing a version is a body with the revision the server stored *)
(* it at.  Every message, callback and phone carries a version (SyncInv),  *)
(* and every operator of the phone is proved once, for any set of          *)
(* versions, to keep that (HandleGood, EventGood, ReconcileGood ...).      *)
(***************************************************************************)
EXTENDS NoteEdits, Attachments, NoteLibrary, NoteSync, FiniteSetTheorems, SequenceTheorems,
        WellFoundedInduction, TLAPS

-----------------------------------------------------------------------------
(* Attachments: the life cycle a client relies on.                          *)

\* What a request has read, and what a worker has in its hands.
Reading == [pc : {"append", "delete", "wipe"}, file : Files, status : Statuses, size : Nat,
            uploaded : Nat]
Handling == [pc : {"read", "scan", "sanitize", "replace", "mark", "retry", "reject", "unlink", "wipe"},
             file : Files, size : Nat]

RowsTyped ==
    /\ att \in [Files -> AttachmentRow]
    /\ job \in [Files -> JobRow]
    /\ requests \in [Requests -> Reading \cup [pc : {"idle"}]]
    /\ media \in [MediaWorkers -> Handling \cup [pc : {"idle"}]]

\* The steps of an attempt before it is decided.
Deciding == {"read", "scan", "sanitize", "replace", "mark", "retry", "reject"}

\* An undecided attempt has the lease of its file to itself, and the row is as
\* the claim left it, unless it has been deleted.
AttemptsAreLeased ==
    /\ \A w \in MediaWorkers : media[w].pc \in Deciding =>
          LET f == media[w].file IN
          /\ job[f].status = "leased" /\ ~job[f].due /\ att[f].genuine
          /\ att[f].status = IF att[f].deleted THEN "deleted" ELSE "scanning"
    /\ \A v, w \in MediaWorkers : /\ media[v].pc \in Deciding /\ media[w].pc \in Deciding
                                  /\ media[v].file = media[w].file
                                  => v = w

\* Only genuine bytes get past the upload, and those that did have a job.
PastUpload(f) == ~att[f].deleted /\ att[f].status \notin {"absent", "uploading", "purged"}
JobsFollowUploads ==
    \A f \in Files : PastUpload(f) =>
        /\ att[f].genuine => job[f].status # "none"
        /\ att[f].status # "rejected" => att[f].genuine

\* A request has read a row that exists.
RequestsRefer ==
    \A r \in Requests : requests[r].pc # "idle" => att[requests[r].file].status # "absent"

\* A row that does not exist has not been deleted, one with that status has.
DeletedRows ==
    \A f \in Files : /\ att[f].status = "absent" => ~att[f].deleted
                     /\ att[f].status = "deleted" => att[f].deleted

LifeInv == RowsTyped /\ AttemptsAreLeased /\ JobsFollowUploads /\ RequestsRefer /\ DeletedRows

\* The numbers of the constants.
LEMMA AttachmentNumbers ==
    /\ Sizes \subseteq Nat /\ FinalSizes \subseteq Nat /\ MaxAttempts \in Nat
BY AttachmentAssumption

\* The names and types of the fields of a row.
LEMMA RowNames ==
    /\ Statuses = {"uploading", "pending_scan", "scanning", "available", "absent", "rejected",
                   "deleted", "purged"}
    /\ \A row \in AttachmentRow : /\ row.status \in Statuses /\ row.deleted \in BOOLEAN /\ row.size \in Nat
                                  /\ row.uploaded \in Nat /\ row.genuine \in BOOLEAN /\ row.old \in BOOLEAN
BY DEF Statuses, Counted, AttachmentRow

\* The invariant holds at first.
LEMMA LifeInitInv == AttachmentsInit => LifeInv
<1> SUFFICES ASSUME AttachmentsInit PROVE LifeInv
  OBVIOUS
<1>1. RowsTyped
  <2>1. NoJob \in JobRow
    BY AttachmentNumbers DEF NoJob, JobRow
  <2>2. [status |-> "absent", deleted |-> FALSE, size |-> 0, uploaded |-> 0,
         genuine |-> TRUE, old |-> FALSE] \in AttachmentRow
    BY RowNames DEF AttachmentRow
  <2> QED
    BY <2>1, <2>2 DEF AttachmentsInit, RowsTyped
<1>2. AttemptsAreLeased
  BY DEF AttachmentsInit, AttemptsAreLeased, Deciding
<1>3. JobsFollowUploads /\ RequestsRefer /\ DeletedRows
  BY DEF AttachmentsInit, JobsFollowUploads, PastUpload, RequestsRefer, DeletedRows
<1> QED
  BY <1>1, <1>2, <1>3 DEF LifeInv

\* A row of which a field is replaced.
LEMMA RowFields ==
    ASSUME NEW row \in AttachmentRow
    PROVE  /\ \A s \in Statuses : /\ [row EXCEPT !.status = s] \in AttachmentRow
                                  /\ [row EXCEPT !.status = s].status = s
                                  /\ [row EXCEPT !.status = s].deleted = row.deleted
                                  /\ [row EXCEPT !.status = s].genuine = row.genuine
           /\ \A b \in BOOLEAN : /\ [row EXCEPT !.old = b] \in AttachmentRow
                                 /\ [row EXCEPT !.old = b].status = row.status
                                 /\ [row EXCEPT !.old = b].deleted = row.deleted
                                 /\ [row EXCEPT !.old = b].genuine = row.genuine
           /\ \A n \in Nat : /\ [row EXCEPT !.uploaded = n] \in AttachmentRow
                             /\ [row EXCEPT !.uploaded = n].status = row.status
                             /\ [row EXCEPT !.uploaded = n].deleted = row.deleted
                             /\ [row EXCEPT !.uploaded = n].genuine = row.genuine
           /\ \A n \in Nat : /\ [row EXCEPT !.size = n] \in AttachmentRow
                             /\ [row EXCEPT !.size = n].status = row.status
                             /\ [row EXCEPT !.size = n].deleted = row.deleted
                             /\ [row EXCEPT !.size = n].genuine = row.genuine
           /\ \A b \in BOOLEAN : /\ [row EXCEPT !.deleted = b] \in AttachmentRow
                                 /\ [row EXCEPT !.deleted = b].status = row.status
                                 /\ [row EXCEPT !.deleted = b].deleted = b
                                 /\ [row EXCEPT !.deleted = b].genuine = row.genuine
BY DEF AttachmentRow
\* A job of which a field is replaced.
LEMMA JobFields ==
    ASSUME NEW row \in JobRow
    PROVE  /\ \A s \in {"none", "pending", "leased", "completed", "rejected"} :
                 /\ [row EXCEPT !.status = s] \in JobRow
                 /\ [row EXCEPT !.status = s].status = s
           /\ \A b \in BOOLEAN : /\ [row EXCEPT !.due = b] \in JobRow
                                 /\ [row EXCEPT !.due = b].status = row.status
                                 /\ [row EXCEPT !.due = b].due = b
BY DEF JobRow

\* The life of every file, as the abstract specification sees it.
Lives == [f \in Files |-> Outcome(f)]
LifeStep == [Life!Next]_Lives

\* The moves of one file.
Moved(from, to) ==
    \/ to = from
    \/ from = "none" /\ to = "pending"
    \/ from = "pending" /\ to \in {"available", "rejected"}
    \/ from \in {"pending", "available", "rejected"} /\ to = "removed"

\* A step that moves one file by one of its moves is a step of AttachmentLife.
LEMMA OneLifeMoves ==
    ASSUME NEW f \in Files, Moved(Outcome(f), Outcome(f)'),
           \A g \in Files \ {f} : att'[g] = att[g]
    PROVE  LifeStep
<1> DEFINE L1 == Lives
           L2 == Lives'
<1>1. \A g \in Files : L1[g] = Outcome(g) /\ L2[g] = Outcome(g)'
  BY DEF Lives
<1>2. \A g \in Files \ {f} : L2[g] = L1[g]
  BY <1>1 DEF Outcome
<1>3. L2 = [L1 EXCEPT ![f] = Outcome(f)']
  BY <1>2 DEF Lives
<1>4. CASE Outcome(f)' = Outcome(f)
  BY <1>1, <1>3, <1>4 DEF LifeStep, Lives
<1>5. CASE Outcome(f) = "none" /\ Outcome(f)' = "pending"
  <2>1. Life!Begin(f)
    BY <1>1, <1>3, <1>5 DEF Life!Begin, Life!Move, Lives
  <2> QED
    BY <2>1 DEF LifeStep, Life!Next
<1>6. CASE Outcome(f) = "pending" /\ Outcome(f)' \in {"available", "rejected"}
  <2>1. Life!Publish(f) \/ Life!Refuse(f)
    BY <1>1, <1>3, <1>6 DEF Life!Publish, Life!Refuse, Life!Move, Lives
  <2> QED
    BY <2>1 DEF LifeStep, Life!Next
<1>7. CASE Outcome(f) \in {"pending", "available", "rejected"} /\ Outcome(f)' = "removed"
  <2>1. Life!Remove({f})
    BY <1>1, <1>3, <1>7 DEF Life!Remove, Lives
  <2> QED
    BY <2>1 DEF LifeStep, Life!Next
<1> QED
  BY <1>4, <1>5, <1>6, <1>7 DEF Moved

\* Steps that leave the rows alone.
LEMMA RowsStay ==
    ASSUME LifeInv, UNCHANGED <<att, job>>, RowsTyped',
           \A w \in MediaWorkers : media'[w].pc \in Deciding =>
              media[w].pc \in Deciding /\ media'[w].file = media[w].file,
           \A r \in Requests : requests'[r].pc # "idle" => att[requests'[r].file].status # "absent"
    PROVE  LifeInv' /\ LifeStep
<1>1. AttemptsAreLeased'
  BY DEF LifeInv, AttemptsAreLeased
<1>2. JobsFollowUploads' /\ DeletedRows' /\ RequestsRefer'
  BY DEF LifeInv, JobsFollowUploads, PastUpload, DeletedRows, RequestsRefer
<1>3. UNCHANGED Lives
  BY DEF Lives, Outcome
<1> QED
  BY <1>1, <1>2, <1>3 DEF LifeInv, LifeStep

\* What a step leaves of the requests: those it does not end go on with their file.
RequestsGoOn ==
    /\ requests' \in [Requests -> Reading \cup [pc : {"idle"}]]
    /\ \A r \in Requests : requests'[r].pc # "idle" =>
           requests[r].pc # "idle" /\ requests'[r].file = requests[r].file

\* A row and its job that a step may leave.
RowFits(row, j) ==
    /\ row.status # "absent"
    /\ row.status = "deleted" => row.deleted
    /\ ~row.deleted /\ row.status \notin {"uploading", "purged"} =>
          /\ row.genuine => j.status # "none"
          /\ row.status # "rejected" => row.genuine

\* An attempt may work on with this row and job.
Workable(row, j) ==
    /\ j.status = "leased" /\ ~j.due /\ row.genuine
    /\ row.status = IF row.deleted THEN "deleted" ELSE "scanning"

\* Attempts go on, or a first one begins on a file nobody works on.
AttemptsGoOn(f, row, j) ==
    /\ media' \in [MediaWorkers -> Handling \cup [pc : {"idle"}]]
    /\ \A w \in MediaWorkers : media'[w].pc \in Deciding =>
          \/ media[w].pc \in Deciding /\ media'[w].file = media[w].file
          \/ /\ media[w].pc \notin Deciding /\ media'[w].file = f
             /\ \A v \in MediaWorkers : media[v].pc \in Deciding => media[v].file # f
    /\ \A w \in MediaWorkers :
          media'[w].pc \in Deciding /\ media'[w].file = f => Workable(row, j)
    /\ \A v, w \in MediaWorkers : /\ media'[v].pc \in Deciding /\ media[v].pc \notin Deciding
                                  /\ media'[w].pc \in Deciding /\ media[w].pc \notin Deciding
                                  => v = w

\* Steps that change one row and its job.
LEMMA OneRowChanges ==
    ASSUME LifeInv, NEW f \in Files, NEW row \in AttachmentRow, NEW j \in JobRow,
           att' = [att EXCEPT ![f] = row], job' = [job EXCEPT ![f] = j],
           RequestsGoOn, AttemptsGoOn(f, row, j), RowFits(row, j), Moved(Outcome(f), Outcome(f)')
    PROVE  LifeInv' /\ LifeStep
<1> USE DEF RequestsGoOn, AttemptsGoOn, RowFits, Workable
<1>1. /\ att'[f] = row /\ job'[f] = j
      /\ \A g \in Files \ {f} : att'[g] = att[g] /\ job'[g] = job[g]
  BY DEF LifeInv, RowsTyped
<1>2. RowsTyped'
  BY DEF LifeInv, RowsTyped
<1>3. \A w \in MediaWorkers : media'[w].pc \in Deciding => media'[w].file \in Files
  BY DEF Deciding, Handling
<1>4. AttemptsAreLeased'
  <2>1. ASSUME NEW w \in MediaWorkers, media'[w].pc \in Deciding
        PROVE  LET g == media'[w].file IN
               /\ job'[g].status = "leased" /\ ~job'[g].due /\ att'[g].genuine
               /\ att'[g].status = IF att'[g].deleted THEN "deleted" ELSE "scanning"
    <3>1. CASE media'[w].file = f
      BY <1>1, <2>1, <3>1
    <3>2. CASE media'[w].file # f
      BY <1>1, <1>3, <2>1, <3>2 DEF LifeInv, AttemptsAreLeased
    <3> QED
      BY <3>1, <3>2
  <2>2. \A v, w \in MediaWorkers : /\ media'[v].pc \in Deciding /\ media'[w].pc \in Deciding
                                   /\ media'[v].file = media'[w].file
                                   => v = w
    <3> SUFFICES ASSUME NEW v \in MediaWorkers, NEW w \in MediaWorkers, media'[v].pc \in Deciding,
                        media'[w].pc \in Deciding, media'[v].file = media'[w].file
                 PROVE  v = w
      OBVIOUS
    <3>1. CASE media[v].pc \in Deciding /\ media[w].pc \in Deciding
      <4>1. media'[v].file = media[v].file /\ media'[w].file = media[w].file
        BY <3>1
      <4> QED
        BY <3>1, <4>1 DEF LifeInv, AttemptsAreLeased
    <3>2. CASE media[v].pc \in Deciding /\ media[w].pc \notin Deciding
      BY <3>2
    <3>3. CASE media[v].pc \notin Deciding /\ media[w].pc \in Deciding
      BY <3>3
    <3>4. CASE media[v].pc \notin Deciding /\ media[w].pc \notin Deciding
      BY <3>4
    <3> QED
      BY <3>1, <3>2, <3>3, <3>4
  <2> QED
    BY <2>1, <2>2 DEF AttemptsAreLeased
<1>5. JobsFollowUploads'
  BY <1>1 DEF LifeInv, JobsFollowUploads, PastUpload
<1>6. DeletedRows'
  BY <1>1 DEF LifeInv, DeletedRows
<1>7. RequestsRefer'
  <2>1. \A r \in Requests : requests[r].pc # "idle" => requests[r].file \in Files
    BY DEF LifeInv, RowsTyped, Reading
  <2> QED
    BY <1>1, <2>1 DEF LifeInv, RequestsRefer
<1>8. LifeStep
  BY <1>1, OneLifeMoves
<1> QED
  BY <1>2, <1>4, <1>5, <1>6, <1>7, <1>8 DEF LifeInv

\* Steps that change one row and its job, no worker.
LEMMA QuietRow ==
    ASSUME LifeInv, NEW f \in Files, NEW row \in AttachmentRow, NEW j \in JobRow,
           att' = [att EXCEPT ![f] = row], job' = [job EXCEPT ![f] = j], media' = media, RequestsGoOn,
           \A w \in MediaWorkers : media[w].pc \in Deciding /\ media[w].file = f => Workable(row, j),
           RowFits(row, j), Moved(Outcome(f), Outcome(f)')
    PROVE  LifeInv' /\ LifeStep
<1>1. AttemptsGoOn(f, row, j)
  BY DEF LifeInv, RowsTyped, AttemptsGoOn
<1> QED
  BY <1>1, OneRowChanges

\* The decision of an attempt changes the row and the job of its file.
LEMMA WorkerRow ==
    ASSUME LifeInv, NEW w \in MediaWorkers, NEW f \in Files, media[w].file = f,
           media[w].pc \in Deciding, NEW row \in AttachmentRow, NEW j \in JobRow,
           att' = [att EXCEPT ![f] = row], job' = [job EXCEPT ![f] = j], requests' = requests,
           media' \in [MediaWorkers -> Handling \cup [pc : {"idle"}]],
           \A v \in MediaWorkers \ {w} : media'[v] = media[v], media'[w].pc \notin Deciding,
           RowFits(row, j), Moved(Outcome(f), Outcome(f)')
    PROVE  LifeInv' /\ LifeStep
<1>1. RequestsGoOn
  BY DEF LifeInv, RowsTyped, RequestsGoOn
<1>2. \A v \in MediaWorkers : media'[v].pc \in Deciding => v # w /\ media'[v] = media[v]
  OBVIOUS
<1>3. \A v \in MediaWorkers : ~(media'[v].pc \in Deciding /\ media'[v].file = f)
  BY <1>2 DEF LifeInv, AttemptsAreLeased
<1>4. AttemptsGoOn(f, row, j)
  BY <1>2, <1>3 DEF AttemptsGoOn
<1> QED
  BY <1>1, <1>4, OneRowChanges

\* A row with a new status, touched now.
Touched(row, status) == [row EXCEPT !.status = status, !.old = FALSE]

\* Its fields.
LEMMA TouchedRow ==
    ASSUME NEW row \in AttachmentRow, NEW s \in Statuses
    PROVE  /\ Touched(row, s) \in AttachmentRow /\ Touched(row, s).status = s
           /\ Touched(row, s).deleted = row.deleted /\ Touched(row, s).genuine = row.genuine
BY DEF AttachmentRow, Touched

\* Requests and workers that a step leaves alone.
LEMMA OthersStay ==
    ASSUME LifeInv
    PROVE  /\ requests' = requests => requests' \in [Requests -> Reading \cup [pc : {"idle"}]]
           /\ media' = media => media' \in [MediaWorkers -> Handling \cup [pc : {"idle"}]]
BY DEF LifeInv, RowsTyped

\* A worker that moves on with its file, or rests.
LEMMA WorkerMoves ==
    ASSUME LifeInv, NEW w \in MediaWorkers, media[w].pc # "idle",
           Rest(w) \/ \E next \in {"scan", "sanitize", "replace", "mark", "retry", "reject", "unlink", "wipe"} :
                         Goto(w, next)
    PROVE  /\ media' \in [MediaWorkers -> Handling \cup [pc : {"idle"}]]
           /\ \A v \in MediaWorkers \ {w} : media'[v] = media[v]
           /\ Rest(w) => media'[w].pc = "idle"
           /\ \A next \in {"scan", "sanitize", "replace", "mark", "retry", "reject", "unlink", "wipe"} :
                 Goto(w, next) => media'[w].pc = next /\ media'[w].file = media[w].file
           /\ media[w].file \in Files
<1>1. media[w] \in Handling /\ media \in [MediaWorkers -> Handling \cup [pc : {"idle"}]]
  BY DEF LifeInv, RowsTyped
<1>2. CASE Rest(w)
  BY <1>1, <1>2 DEF Rest, Goto, Handling
<1>3. ASSUME NEW next \in {"scan", "sanitize", "replace", "mark", "retry", "reject", "unlink", "wipe"},
             Goto(w, next)
      PROVE  /\ media' \in [MediaWorkers -> Handling \cup [pc : {"idle"}]]
             /\ \A v \in MediaWorkers \ {w} : media'[v] = media[v]
             /\ media'[w].pc = next /\ media'[w].file = media[w].file
  <2>1. [media[w] EXCEPT !.pc = next] \in Handling
    BY <1>1 DEF Handling
  <2>2. media' = [media EXCEPT ![w] = [media[w] EXCEPT !.pc = next]]
    BY <1>3 DEF Goto
  <2> QED
    BY <1>1, <2>1, <2>2 DEF Handling
<1>4. media[w].file \in Files
  BY <1>1 DEF Handling
<1>5. Rest(w) => \A next \in {"scan", "sanitize", "replace", "mark", "retry", "reject", "unlink", "wipe"} :
                    ~Goto(w, next)
  <2>1. Rest(w) => media'[w] = [pc |-> "idle"]
    BY <1>1 DEF Rest
  <2>2. \A next \in {"scan", "sanitize", "replace", "mark", "retry", "reject", "unlink", "wipe"} :
           Goto(w, next) => media'[w].pc = next
    BY <1>3
  <2> QED
    BY <2>1, <2>2
<1> QED
  BY <1>2, <1>3, <1>4, <1>5

\* An upload is created.
LEMMA CreateAttachmentLives ==
    ASSUME LifeInv, NEW f \in Files, NEW n \in Sizes, NEW g \in BOOLEAN, CreateAttachment(f, n, g)
    PROVE  LifeInv' /\ LifeStep
<1> DEFINE row == [status |-> "uploading", deleted |-> FALSE, size |-> n, uploaded |-> 0,
                   genuine |-> g, old |-> FALSE]
<1>1. /\ att' = [att EXCEPT ![f] = row] /\ job' = job /\ requests' = requests /\ media' = media
      /\ att[f].status = "absent"
  BY DEF CreateAttachment
<1>2. row \in AttachmentRow
  BY AttachmentNumbers, RowNames DEF AttachmentRow
<1>3. job[f] \in JobRow /\ job' = [job EXCEPT ![f] = job[f]] /\ att'[f] = row
  BY <1>1 DEF LifeInv, RowsTyped
<1>4. Moved(Outcome(f), Outcome(f)')
  BY <1>1, <1>3 DEF Moved, Outcome
<1>5. \A w \in MediaWorkers : media[w].pc \in Deciding => media[w].file # f
  BY <1>1 DEF LifeInv, AttemptsAreLeased
<1>6. row.status = "uploading" /\ ~row.deleted
  OBVIOUS
<1>7. RequestsGoOn
  BY <1>1 DEF LifeInv, RowsTyped, RequestsGoOn
<1> HIDE DEF row
<1>8. \A w \in MediaWorkers : media[w].pc \in Deciding /\ media[w].file = f => Workable(row, job[f])
  BY <1>5
<1>9. RowFits(row, job[f])
  BY <1>6 DEF RowFits
<1> QED
  BY <1>1, <1>2, <1>3, <1>4, <1>7, <1>8, <1>9, QuietRow

\* A row after a chunk.
Grown(row, n, s) == [row EXCEPT !.uploaded = n, !.old = FALSE, !.status = s]
\* Its fields.
LEMMA ChunkRow ==
    ASSUME NEW row \in AttachmentRow, NEW n \in Nat, NEW s \in Statuses
    PROVE  /\ Grown(row, n, s) \in AttachmentRow /\ Grown(row, n, s).status = s
           /\ Grown(row, n, s).deleted = row.deleted /\ Grown(row, n, s).genuine = row.genuine
BY DEF AttachmentRow, Grown

\* The job of a complete upload.
Queued == [NoJob EXCEPT !.status = "pending", !.due = TRUE]
\* Its fields.
LEMMA QueuedJob == Queued \in JobRow /\ Queued.status = "pending"
<1>1. NoJob \in JobRow
  BY AttachmentNumbers DEF NoJob, JobRow
<1> QED
  BY <1>1, JobFields DEF Queued, JobRow

\* A chunk is committed, as the request read the row.
LEMMA CommitChunkLives ==
    ASSUME LifeInv, NEW r \in Requests, CommitChunk(r)
    PROVE  LifeInv' /\ LifeStep
<1>0. PICK seen \in Reading, f \in Files : seen = requests[r] /\ f = seen.file
  BY DEF CommitChunk, LifeInv, RowsTyped, Reading
<1> DEFINE last == LastChunk(seen)
           bad  == FailsDigest(seen)
           next == IF bad THEN "rejected" ELSE IF last THEN "pending_scan" ELSE att[f].status
           row  == Grown(att[f], seen.uploaded + 1, next)
           j    == IF last /\ ~bad THEN Queued ELSE job[f]
<1>1. /\ seen.pc = "append" /\ att[f].status # "purged"
      /\ last /\ ~bad => job[f].status = "none"
      /\ bad => ~att[f].genuine
      /\ last /\ ~bad => att[f].genuine
      /\ bad => last
      /\ media' = media /\ Done(r)
  BY <1>0 DEF CommitChunk, FailsDigest, LastChunk
<1>2. seen \in Reading /\ f \in Files /\ seen.uploaded \in Nat
  BY <1>0 DEF Reading
<1>3. att[f] \in AttachmentRow /\ job[f] \in JobRow /\ att[f].status # "absent" /\ att[f].status \in Statuses
  BY <1>0, <1>1, <1>2, RowNames DEF LifeInv, RowsTyped, RequestsRefer
<1>4. att' = [att EXCEPT ![f] = row]
  BY <1>0, <1>2, <1>3 DEF CommitChunk, LifeInv, RowsTyped, AttachmentRow, Grown
<1>5. job' = [job EXCEPT ![f] = j]
  BY <1>0, <1>2, <1>3 DEF CommitChunk, LifeInv, RowsTyped, Queued
<1>6. /\ bad => next = "rejected"
      /\ last /\ ~bad => next = "pending_scan"
      /\ ~last => next = att[f].status
      /\ next \in Statuses
  BY <1>1, <1>3, RowNames
<1>7. Queued \in JobRow /\ Queued.status = "pending"
  BY QueuedJob
<1>8. j \in JobRow /\ (last /\ ~bad => j.status = "pending") /\ (~last \/ bad => j = job[f])
  BY <1>3, <1>7
<1>9. RequestsGoOn
  BY <1>1 DEF Done, LifeInv, RowsTyped, RequestsGoOn
<1> HIDE DEF j, next
<1>10. row \in AttachmentRow /\ row.status = next /\ row.deleted = att[f].deleted
      /\ row.genuine = att[f].genuine
  <2>1. seen.uploaded + 1 \in Nat
    BY <1>2
  <2> QED
    BY <1>3, <1>6, <2>1, ChunkRow
<1> HIDE DEF row, last, bad
<1>11. att'[f] = row
  BY <1>2, <1>4 DEF LifeInv, RowsTyped
<1>12. \A w \in MediaWorkers : media[w].pc \in Deciding /\ media[w].file = f =>
          /\ job[f].status = "leased" /\ ~job[f].due /\ att[f].genuine
          /\ att[f].status = IF att[f].deleted THEN "deleted" ELSE "scanning"
  BY <1>2 DEF LifeInv, AttemptsAreLeased
<1>13. \A w \in MediaWorkers : media[w].pc \in Deciding /\ media[w].file = f => Workable(row, j)
  BY <1>1, <1>6, <1>8, <1>10, <1>12 DEF Workable
<1>14. /\ PastUpload(f) => /\ att[f].genuine => job[f].status # "none"
                           /\ att[f].status # "rejected" => att[f].genuine
       /\ att[f].status = "deleted" => att[f].deleted
  BY <1>2 DEF LifeInv, JobsFollowUploads, DeletedRows
<1>15. Moved(Outcome(f), Outcome(f)')
  <2>1. CASE att[f].deleted
    BY <1>3, <1>6, <1>10, <1>11, <1>1, <2>1 DEF Moved, Outcome
  <2>2. CASE ~att[f].deleted /\ ~last
    BY <1>6, <1>10, <1>11, <1>1, <2>2 DEF Moved, Outcome
  <2>3. CASE ~att[f].deleted /\ last
    <3>1. att[f].status \in {"uploading", "rejected"}
      BY <1>1, <1>3, <1>14, <2>3, RowNames DEF PastUpload
    <3>2. att[f].status = "rejected" => bad
      BY <1>1, <1>14, <2>3 DEF PastUpload
    <3> QED
      BY <1>1, <1>6, <1>10, <1>11, <2>3, <3>1, <3>2 DEF Moved, Outcome
  <2> QED
    BY <2>1, <2>2, <2>3
<1>16. RowFits(row, j)
  BY <1>1, <1>3, <1>6, <1>8, <1>10, <1>14 DEF PastUpload, RowFits
<1>17. row \in AttachmentRow /\ j \in JobRow /\ media' = media
  BY <1>1, <1>8, <1>10
<1> QED
  BY <1>4, <1>5, <1>9, <1>13, <1>15, <1>16, <1>17, QuietRow

\* A row that is deleted.
LEMMA HiddenRow ==
    ASSUME NEW row \in AttachmentRow,
           NEW new, new = [row EXCEPT !.status = "deleted", !.deleted = TRUE, !.old = FALSE]
    PROVE  /\ new \in AttachmentRow /\ new.status = "deleted"
           /\ new.deleted = TRUE /\ new.genuine = row.genuine
BY RowNames DEF AttachmentRow

\* A request that ends, or a deletion that goes on to its files.
LEMMA RequestEnds ==
    ASSUME LifeInv, NEW r \in Requests,
           Done(r) \/ (requests[r].pc = "delete" /\ requests' = [requests EXCEPT ![r].pc = "wipe"])
    PROVE  RequestsGoOn
<1>1. CASE Done(r)
  BY <1>1 DEF Done, LifeInv, RowsTyped, RequestsGoOn
<1>2. CASE requests[r].pc = "delete" /\ requests' = [requests EXCEPT ![r].pc = "wipe"]
  <2>1. requests[r] \in Reading
    BY <1>2 DEF LifeInv, RowsTyped
  <2>2. /\ [requests[r] EXCEPT !.pc = "wipe"] \in Reading
        /\ [requests[r] EXCEPT !.pc = "wipe"].file = requests[r].file
    BY <2>1 DEF Reading
  <2> QED
    BY <1>2, <2>2 DEF LifeInv, RowsTyped, RequestsGoOn
<1> QED
  BY <1>1, <1>2

\* A step that ends a request and leaves rows and workers alone.
LEMMA RequestOnly ==
    ASSUME LifeInv, NEW r \in Requests, Done(r), att' = att, job' = job, media' = media
    PROVE  LifeInv' /\ LifeStep
<1>1. RowsTyped'
  BY RequestEnds DEF LifeInv, RowsTyped, RequestsGoOn
<1>2. \A d \in Requests : requests'[d].pc # "idle" => att[requests'[d].file].status # "absent"
  BY RequestEnds DEF LifeInv, RequestsRefer, RequestsGoOn
<1>3. \A w \in MediaWorkers : media'[w].pc \in Deciding =>
              media[w].pc \in Deciding /\ media'[w].file = media[w].file
  OBVIOUS
<1> QED
  BY <1>1, <1>2, <1>3, RowsStay

\* A deletion is committed.
LEMMA CommitDeleteLives ==
    ASSUME LifeInv, NEW r \in Requests, CommitDelete(r)
    PROVE  LifeInv' /\ LifeStep
<1>0. PICK f \in Files : f = requests[r].file
  BY DEF CommitDelete, LifeInv, RowsTyped, Reading
<1> DEFINE row == [att[f] EXCEPT !.status = "deleted", !.deleted = TRUE, !.old = FALSE]
<1>1. /\ requests[r].pc = "delete" /\ job' = job /\ media' = media
      /\ \/ /\ att[f].status # "purged"
            /\ att' = [att EXCEPT ![f].status = "deleted", ![f].deleted = TRUE, ![f].old = FALSE]
            /\ requests' = [requests EXCEPT ![r].pc = "wipe"]
         \/ Done(r) /\ att' = att
  BY <1>0 DEF CommitDelete
<1>2. CASE Done(r) /\ att' = att
  BY <1>1, <1>2, RequestOnly
<1>3. CASE /\ att' = [att EXCEPT ![f].status = "deleted", ![f].deleted = TRUE, ![f].old = FALSE]
           /\ requests' = [requests EXCEPT ![r].pc = "wipe"]
  <2>1. f \in Files /\ att[f] \in AttachmentRow /\ job[f] \in JobRow /\ att[f].status # "absent"
    BY <1>0, <1>1 DEF LifeInv, RowsTyped, RequestsRefer, Reading
  <2>2. att' = [att EXCEPT ![f] = row]
    BY <1>3, <2>1 DEF LifeInv, RowsTyped
  <2>3. row \in AttachmentRow /\ row.status = "deleted" /\ row.deleted /\ row.genuine = att[f].genuine
    BY <2>1, HiddenRow
  <2>4. RequestsGoOn
    BY <1>1, <1>3, RequestEnds
  <2>5. job' = [job EXCEPT ![f] = job[f]]
    BY <1>1 DEF LifeInv, RowsTyped
  <2> HIDE DEF row
  <2>6. \A w \in MediaWorkers : media[w].pc \in Deciding /\ media[w].file = f =>
                                    Workable(row, job[f])
    BY <2>1, <2>3 DEF LifeInv, AttemptsAreLeased, Workable
  <2>7. att'[f] = row
    BY <2>1, <2>2 DEF LifeInv, RowsTyped
  <2>8. Moved(Outcome(f), Outcome(f)')
    BY <2>1, <2>3, <2>7 DEF Moved, Outcome
  <2>9. RowFits(row, job[f])
    BY <2>3 DEF RowFits
  <2> QED
    BY <1>1, <2>1, <2>2, <2>3, <2>4, <2>5, <2>6, <2>8, <2>9, QuietRow
<1> QED
  BY <1>1, <1>2, <1>3

\* A worker claims a file.
LEMMA ClaimLives ==
    ASSUME LifeInv, NEW w \in MediaWorkers, NEW f \in Files, ClaimReady(w, f)
    PROVE  LifeInv' /\ LifeStep
<1> DEFINE row == Touched(att[f], "scanning")
           j   == [status |-> "leased", attempts |-> job[f].attempts + 1, due |-> FALSE]
           m   == [pc |-> "read", file |-> f, size |-> 0]
<1>1. /\ att[f] \in AttachmentRow /\ job[f] \in JobRow /\ media[w].pc = "idle"
      /\ job[f].due /\ job[f].attempts < MaxAttempts
      /\ att[f].status \in {"pending_scan", "scanning"} /\ ~att[f].deleted
  BY DEF ClaimReady, Ready, At, LifeInv, RowsTyped
<1>2. att' = [att EXCEPT ![f] = row] /\ job' = [job EXCEPT ![f] = j] /\ media' = [media EXCEPT ![w] = m]
  BY <1>1 DEF ClaimReady, Touched, LifeInv, RowsTyped
<1>3. row \in AttachmentRow /\ row.status = "scanning" /\ ~row.deleted /\ row.genuine = att[f].genuine
  BY <1>1, TouchedRow, RowNames
<1>4. j \in JobRow /\ j.status = "leased" /\ ~j.due
  BY <1>1, AttachmentNumbers DEF JobRow
<1>5. m \in Handling /\ m.pc = "read" /\ m.file = f
  BY DEF Handling
<1>6. att[f].genuine
  BY <1>1 DEF LifeInv, JobsFollowUploads, PastUpload
<1> HIDE DEF row, j, m
<1>7. \A v \in MediaWorkers : media[v].pc \in Deciding => media[v].file # f
  BY <1>1 DEF LifeInv, AttemptsAreLeased
<1>8. /\ media' \in [MediaWorkers -> Handling \cup [pc : {"idle"}]] /\ media'[w] = m
      /\ \A v \in MediaWorkers \ {w} : media'[v] = media[v]
  BY <1>2, <1>5 DEF LifeInv, RowsTyped
<1>9. media[w].pc \notin Deciding
  BY <1>1 DEF Deciding
<1>10. Workable(row, j)
  BY <1>3, <1>4, <1>6 DEF Workable
<1>11. AttemptsGoOn(f, row, j)
  BY <1>5, <1>7, <1>8, <1>9, <1>10 DEF AttemptsGoOn
<1>12. RowFits(row, j)
  BY <1>3, <1>4, <1>6 DEF RowFits
<1>13. RequestsGoOn
  BY DEF ClaimReady, LifeInv, RowsTyped, RequestsGoOn
<1>14. att'[f] = row
  BY <1>2 DEF LifeInv, RowsTyped
<1>15. Moved(Outcome(f), Outcome(f)')
  BY <1>1, <1>3, <1>14 DEF Moved, Outcome
<1> QED
  BY <1>2, <1>3, <1>4, <1>11, <1>12, <1>13, <1>15, OneRowChanges

\* What an attempt that has not been decided knows of its file.
LEMMA AttemptFile ==
    ASSUME LifeInv, NEW w \in MediaWorkers, media[w].pc \in Deciding
    PROVE  \E f \in Files :
              /\ media[w].file = f /\ media[w].size \in Nat
              /\ att[f] \in AttachmentRow /\ job[f] \in JobRow /\ att[f].genuine
              /\ job[f].status = "leased"
              /\ att[f].status = IF att[f].deleted THEN "deleted" ELSE "scanning"
BY DEF LifeInv, RowsTyped, AttemptsAreLeased, Handling, Deciding

\* A step of a worker that leaves the rows alone.
LEMMA WorkerOnly ==
    ASSUME LifeInv, NEW w \in MediaWorkers, att' = att, job' = job, requests' = requests,
           media' \in [MediaWorkers -> Handling \cup [pc : {"idle"}]],
           \A v \in MediaWorkers \ {w} : media'[v] = media[v],
           media'[w].pc \in Deciding => media[w].pc \in Deciding /\ media'[w].file = media[w].file
    PROVE  LifeInv' /\ LifeStep
<1>1. RowsTyped'
  BY DEF LifeInv, RowsTyped
<1>2. \A v \in MediaWorkers : media'[v].pc \in Deciding =>
              media[v].pc \in Deciding /\ media'[v].file = media[v].file
  OBVIOUS
<1>3. \A r \in Requests : requests'[r].pc # "idle" => att[requests'[r].file].status # "absent"
  BY DEF LifeInv, RequestsRefer
<1> QED
  BY <1>1, <1>2, <1>3, RowsStay

\* An attempt that goes on to another step, or rests.
LEMMA AttemptMoves ==
    ASSUME LifeInv, NEW w \in MediaWorkers, media[w].pc # "idle",
           att' = att, job' = job, requests' = requests,
           \/ Rest(w) \/ Goto(w, "unlink") \/ Goto(w, "wipe")
           \/ /\ media[w].pc \in Deciding
              /\ \E next \in {"scan", "sanitize", "replace", "mark", "retry", "reject"} : Goto(w, next)
    PROVE  LifeInv' /\ LifeStep
<1>1. /\ media' \in [MediaWorkers -> Handling \cup [pc : {"idle"}]]
      /\ \A v \in MediaWorkers \ {w} : media'[v] = media[v]
  BY WorkerMoves
<1>2. media'[w].pc \in Deciding => media[w].pc \in Deciding /\ media'[w].file = media[w].file
  BY WorkerMoves DEF Deciding
<1> QED
  BY <1>1, <1>2, WorkerOnly

\* The row of a published file.
Published(row, n) == [row EXCEPT !.status = "available", !.size = n, !.uploaded = n, !.old = FALSE]
\* Its fields.
LEMMA PublishedRow ==
    ASSUME NEW row \in AttachmentRow, NEW n \in Nat
    PROVE  /\ Published(row, n) \in AttachmentRow /\ Published(row, n).status = "available"
           /\ Published(row, n).size = n
           /\ Published(row, n).deleted = row.deleted /\ Published(row, n).genuine = row.genuine
BY RowNames DEF AttachmentRow, Published

\* The job of an attempt that is decided.
Decided(row, status) == [row EXCEPT !.status = status, !.due = FALSE]
\* Its fields.
LEMMA DecidedJob ==
    ASSUME NEW row \in JobRow, NEW s \in {"pending", "completed", "rejected"}
    PROVE  Decided(row, s) \in JobRow /\ Decided(row, s).status = s
BY DEF JobRow, Decided

\* A file is published, rejected or tried again.
LEMMA MarkLives ==
    ASSUME LifeInv, NEW w \in MediaWorkers, MarkAvailable(w)
    PROVE  LifeInv' /\ LifeStep
<1>0. media[w].pc = "mark" /\ media[w].pc \in Deciding
  BY DEF MarkAvailable, At, Deciding
<1>1. PICK f \in Files :
              /\ media[w].file = f /\ media[w].size \in Nat
              /\ att[f] \in AttachmentRow /\ job[f] \in JobRow /\ att[f].genuine
              /\ job[f].status = "leased"
              /\ att[f].status = IF att[f].deleted THEN "deleted" ELSE "scanning"
  BY <1>0, AttemptFile
<1>2. CASE att' = att /\ job' = job /\ (Goto(w, "reject") \/ Goto(w, "retry"))
  BY <1>0, <1>2, AttemptMoves DEF MarkAvailable
<1>3. CASE Goto(w, "unlink") /\ Markable(w)
           /\ att' = [att EXCEPT ![f].status = "available", ![f].size = media[w].size,
                                 ![f].uploaded = media[w].size, ![f].old = FALSE]
           /\ job' = [job EXCEPT ![f].status = "completed", ![f].due = FALSE]
  <2> DEFINE n == media[w].size
             row == Published(att[f], n)
             j   == Decided(job[f], "completed")
  <2>1. att' = [att EXCEPT ![f] = row] /\ job' = [job EXCEPT ![f] = j]
    BY <1>1, <1>3 DEF Published, Decided, LifeInv, RowsTyped
  <2>2. row \in AttachmentRow /\ row.status = "available" /\ row.deleted = att[f].deleted /\ row.genuine
    BY <1>1, PublishedRow
  <2>3. j \in JobRow /\ j.status = "completed"
    BY <1>1, DecidedJob
  <2> HIDE DEF row, j
  <2>4. att[f].status = "scanning" /\ ~att[f].deleted
    BY <1>1, <1>3 DEF Markable
  <2>5. RowFits(row, j)
    BY <2>2, <2>3 DEF RowFits
  <2>6. att'[f] = row
    BY <2>1 DEF LifeInv, RowsTyped
  <2>7. Moved(Outcome(f), Outcome(f)')
    BY <2>2, <2>4, <2>6 DEF Moved, Outcome
  <2>8. /\ media' \in [MediaWorkers -> Handling \cup [pc : {"idle"}]]
        /\ \A v \in MediaWorkers \ {w} : media'[v] = media[v]
        /\ media'[w].pc = "unlink"
    BY <1>0, <1>3, WorkerMoves
  <2>9. media'[w].pc \notin Deciding
    BY <2>8 DEF Deciding
  <2>10. requests' = requests
    BY DEF MarkAvailable
  <2> QED
    BY <1>0, <1>1, <2>1, <2>2, <2>3, <2>5, <2>7, <2>8, <2>9, <2>10, WorkerRow
<1> QED
  BY <1>1, <1>2, <1>3 DEF MarkAvailable

\* A failed attempt is put back, or goes on to its rejection.
LEMMA RetryLives ==
    ASSUME LifeInv, NEW w \in MediaWorkers, RetryOrReject(w)
    PROVE  LifeInv' /\ LifeStep
<1>0. media[w].pc = "retry" /\ media[w].pc \in Deciding
  BY DEF RetryOrReject, At, Deciding
<1>1. PICK f \in Files :
              /\ media[w].file = f /\ media[w].size \in Nat
              /\ att[f] \in AttachmentRow /\ job[f] \in JobRow /\ att[f].genuine
              /\ job[f].status = "leased"
              /\ att[f].status = IF att[f].deleted THEN "deleted" ELSE "scanning"
  BY <1>0, AttemptFile
<1>2. CASE att' = att /\ job' = job /\ (Goto(w, "reject") \/ Rest(w))
  BY <1>0, <1>2, AttemptMoves DEF RetryOrReject
<1>3. CASE Rest(w)
           /\ att' = [att EXCEPT ![f].status = "pending_scan", ![f].old = FALSE]
           /\ job' = [job EXCEPT ![f].status = "pending", ![f].due = FALSE]
  <2> DEFINE row == Touched(att[f], "pending_scan")
             j   == Decided(job[f], "pending")
  <2>1. att' = [att EXCEPT ![f] = row] /\ job' = [job EXCEPT ![f] = j]
    BY <1>1, <1>3 DEF Touched, Decided, LifeInv, RowsTyped
  <2>2. row \in AttachmentRow /\ row.status = "pending_scan" /\ row.deleted = att[f].deleted /\ row.genuine
    BY <1>1, TouchedRow, RowNames
  <2>3. j \in JobRow /\ j.status = "pending"
    BY <1>1, DecidedJob
  <2> HIDE DEF row, j
  <2>5. RowFits(row, j)
    BY <2>2, <2>3 DEF RowFits
  <2>6. att'[f] = row
    BY <2>1 DEF LifeInv, RowsTyped
  <2>7. Moved(Outcome(f), Outcome(f)')
    BY <1>1, <2>2, <2>6 DEF Moved, Outcome
  <2>8. /\ media' \in [MediaWorkers -> Handling \cup [pc : {"idle"}]]
        /\ \A v \in MediaWorkers \ {w} : media'[v] = media[v]
        /\ media'[w].pc = "idle"
    BY <1>0, <1>3, WorkerMoves
  <2>9. media'[w].pc \notin Deciding
    BY <2>8 DEF Deciding
  <2>10. requests' = requests
    BY DEF RetryOrReject
  <2> QED
    BY <1>0, <1>1, <2>1, <2>2, <2>3, <2>5, <2>7, <2>8, <2>9, <2>10, WorkerRow
<1> QED
  BY <1>1, <1>2, <1>3 DEF RetryOrReject

\* A file is rejected.
LEMMA RejectLives ==
    ASSUME LifeInv, NEW w \in MediaWorkers, Reject(w)
    PROVE  LifeInv' /\ LifeStep
<1>0. media[w].pc = "reject" /\ media[w].pc \in Deciding
  BY DEF Reject, At, Deciding
<1>1. PICK f \in Files :
              /\ media[w].file = f /\ media[w].size \in Nat
              /\ att[f] \in AttachmentRow /\ job[f] \in JobRow /\ att[f].genuine
              /\ job[f].status = "leased"
              /\ att[f].status = IF att[f].deleted THEN "deleted" ELSE "scanning"
  BY <1>0, AttemptFile
<1>2. CASE att' = att /\ job' = job /\ Rest(w)
  BY <1>0, <1>2, AttemptMoves DEF Reject
<1>3. CASE Goto(w, "wipe")
           /\ att' = [att EXCEPT ![f].status = "rejected", ![f].old = FALSE]
           /\ job' = [job EXCEPT ![f].status = "rejected", ![f].due = FALSE]
  <2> DEFINE row == Touched(att[f], "rejected")
             j   == Decided(job[f], "rejected")
  <2>1. att' = [att EXCEPT ![f] = row] /\ job' = [job EXCEPT ![f] = j]
    BY <1>1, <1>3 DEF Touched, Decided, LifeInv, RowsTyped
  <2>2. row \in AttachmentRow /\ row.status = "rejected" /\ row.deleted = att[f].deleted /\ row.genuine
    BY <1>1, TouchedRow, RowNames
  <2>3. j \in JobRow /\ j.status = "rejected"
    BY <1>1, DecidedJob
  <2> HIDE DEF row, j
  <2>5. RowFits(row, j)
    BY <2>2, <2>3 DEF RowFits
  <2>6. att'[f] = row
    BY <2>1 DEF LifeInv, RowsTyped
  <2>7. Moved(Outcome(f), Outcome(f)')
    BY <1>1, <2>2, <2>6 DEF Moved, Outcome
  <2>8. /\ media' \in [MediaWorkers -> Handling \cup [pc : {"idle"}]]
        /\ \A v \in MediaWorkers \ {w} : media'[v] = media[v]
        /\ media'[w].pc = "wipe"
    BY <1>0, <1>3, WorkerMoves
  <2>9. media'[w].pc \notin Deciding
    BY <2>8 DEF Deciding
  <2>10. requests' = requests
    BY DEF Reject
  <2> QED
    BY <1>0, <1>1, <2>1, <2>2, <2>3, <2>5, <2>7, <2>8, <2>9, <2>10, WorkerRow
<1> QED
  BY <1>1, <1>2, <1>3 DEF Reject

\* The steps of a worker on the bytes.
LEMMA BytesLive ==
    ASSUME LifeInv, NEW w \in MediaWorkers,
           ReadClaimed(w) \/ ScanFile(w) \/ Sanitize(w) \/ Replace(w) \/ UnlinkSource(w)
           \/ WipeRejected(w) \/ DieScanning(w)
    PROVE  LifeInv' /\ LifeStep
<1>1. att' = att /\ job' = job /\ requests' = requests /\ media[w].pc # "idle"
  BY DEF ReadClaimed, ScanFile, Sanitize, Replace, UnlinkSource, WipeRejected, DieScanning, At, mediaOnly
<1>2. CASE ReadClaimed(w) \/ ScanFile(w) \/ Replace(w)
  <2>1. media[w].pc \in Deciding
    BY <1>2 DEF ReadClaimed, ScanFile, Replace, At, Deciding
  <2>2. Rest(w) \/ \E next \in {"scan", "sanitize", "replace", "mark", "retry", "reject"} : Goto(w, next)
    BY <1>2 DEF ReadClaimed, ScanFile, Replace
  <2> QED
    BY <1>1, <2>1, <2>2, AttemptMoves
<1>3. CASE Sanitize(w)
  <2>1. media[w].pc \in Deciding
    BY <1>3 DEF Sanitize, At, Deciding
  <2>2. CASE \E next \in {"reject", "retry"} : Goto(w, next)
    BY <1>1, <2>1, <2>2, AttemptMoves
  <2>3. ASSUME NEW n \in FinalSizes, media' = [media EXCEPT ![w].pc = "replace", ![w].size = n]
        PROVE  LifeInv' /\ LifeStep
    <3> DEFINE m == [media[w] EXCEPT !.pc = "replace", !.size = n]
    <3>1. media[w] \in Handling /\ n \in Nat
      BY <1>1, AttachmentNumbers DEF LifeInv, RowsTyped
    <3>2. m \in Handling /\ m.file = media[w].file
      BY <3>1 DEF Handling
    <3>3. media' = [media EXCEPT ![w] = m]
      BY <2>3 DEF LifeInv, RowsTyped
    <3> HIDE DEF m
    <3>4. /\ media' \in [MediaWorkers -> Handling \cup [pc : {"idle"}]] /\ media'[w] = m
          /\ \A v \in MediaWorkers \ {w} : media'[v] = media[v]
      BY <3>2, <3>3 DEF LifeInv, RowsTyped
    <3> QED
      BY <1>1, <2>1, <3>2, <3>4, WorkerOnly
  <2> QED
    BY <1>3, <2>2, <2>3 DEF Sanitize
<1>4. CASE UnlinkSource(w) \/ WipeRejected(w) \/ DieScanning(w)
  <2>1. Rest(w)
    BY <1>4 DEF UnlinkSource, WipeRejected, DieScanning
  <2> QED
    BY <1>1, <2>1, AttemptMoves
<1> QED
  BY <1>2, <1>3, <1>4

\* The steps of requests that leave the rows alone.
LEMMA RequestsLive ==
    ASSUME LifeInv, NEW r \in Requests,
           \/ \E f \in Files, kind \in {"append", "delete"} : ReadForRequest(r, f, kind)
           \/ LoseChunk(r) \/ RefuseChunk(r) \/ WipeDeleted(r) \/ DieDeleting(r)
    PROVE  LifeInv' /\ LifeStep
<1>1. CASE LoseChunk(r) \/ RefuseChunk(r) \/ WipeDeleted(r) \/ DieDeleting(r)
  <2>1. Done(r) /\ att' = att /\ job' = job /\ media' = media
    BY <1>1 DEF LoseChunk, RefuseChunk, WipeDeleted, DieDeleting
  <2> QED
    BY <2>1, RequestOnly
<1>2. ASSUME NEW f \in Files, NEW kind \in {"append", "delete"}, ReadForRequest(r, f, kind)
      PROVE  LifeInv' /\ LifeStep
  <2> DEFINE m == [pc |-> kind, file |-> f, status |-> att[f].status, size |-> att[f].size,
                   uploaded |-> att[f].uploaded]
  <2>1. att[f] \in AttachmentRow /\ att[f].status # "absent"
    BY <1>2 DEF ReadForRequest, LifeInv, RowsTyped
  <2>2. m \in Reading /\ m.file = f
    BY <2>1, RowNames DEF Reading
  <2>3. requests' = [requests EXCEPT ![r] = m] /\ att' = att /\ job' = job /\ media' = media
    BY <1>2 DEF ReadForRequest
  <2> HIDE DEF m
  <2>4. RowsTyped'
    BY <2>2, <2>3 DEF LifeInv, RowsTyped
  <2>5. \A d \in Requests : requests'[d].pc # "idle" => att[requests'[d].file].status # "absent"
    BY <2>1, <2>2, <2>3 DEF LifeInv, RequestsRefer, RowsTyped
  <2>6. \A w \in MediaWorkers : media'[w].pc \in Deciding =>
              media[w].pc \in Deciding /\ media'[w].file = media[w].file
    BY <2>3
  <2> QED
    BY <2>3, <2>4, <2>5, <2>6, RowsStay
<1> QED
  BY <1>1, <1>2

\* The clocks.
LEMMA AttemptDueLives ==
    ASSUME LifeInv, NEW f \in Files, AttemptDue(f) PROVE LifeInv' /\ LifeStep
<1> DEFINE j == [job[f] EXCEPT !.due = TRUE]
<1>1. job[f] \in JobRow /\ att' = att /\ media' = media /\ requests' = requests /\ f \notin Busy
  BY DEF AttemptDue, LifeInv, RowsTyped
<1>2. job' = [job EXCEPT ![f] = j]
  BY DEF AttemptDue, LifeInv, RowsTyped
<1>3. j \in JobRow /\ j.status = job[f].status
  BY <1>1, JobFields
<1> HIDE DEF j
<1>4. \A w \in MediaWorkers : media[w].pc \in Deciding => media[w].file # f
  BY <1>1 DEF Busy, At, Deciding
<1>5. job'[f] = j /\ \A g \in Files \ {f} : job'[g] = job[g]
  BY <1>2 DEF LifeInv, RowsTyped
<1>6. RowsTyped'
  BY <1>1, <1>2, <1>3 DEF LifeInv, RowsTyped
<1>7. \A w \in MediaWorkers : media[w].pc \in Deciding => media[w].file \in Files \ {f}
  BY <1>4, AttemptFile
<1>8. AttemptsAreLeased'
  BY <1>1, <1>5, <1>7 DEF LifeInv, AttemptsAreLeased
<1>9. JobsFollowUploads' /\ DeletedRows' /\ RequestsRefer'
  BY <1>1, <1>3, <1>5 DEF LifeInv, JobsFollowUploads, PastUpload, DeletedRows, RequestsRefer
<1>10. UNCHANGED Lives
  BY <1>1 DEF Lives, Outcome
<1> QED
  BY <1>6, <1>8, <1>9, <1>10 DEF LifeInv, LifeStep

\* A row that ages keeps its life.
LEMMA RowGrowsOldLives ==
    ASSUME LifeInv, NEW f \in Files, RowGrowsOld(f) PROVE LifeInv' /\ LifeStep
<1> DEFINE row == [att[f] EXCEPT !.old = TRUE]
<1>1. /\ att[f] \in AttachmentRow /\ job[f] \in JobRow /\ job' = job /\ media' = media
      /\ requests' = requests /\ att[f].status \in {"uploading", "rejected"}
  BY DEF RowGrowsOld, LifeInv, RowsTyped
<1>2. att' = [att EXCEPT ![f] = row] /\ job' = [job EXCEPT ![f] = job[f]]
  BY <1>1 DEF RowGrowsOld, LifeInv, RowsTyped
<1>3. row \in AttachmentRow /\ row.status = att[f].status /\ row.deleted = att[f].deleted
      /\ row.genuine = att[f].genuine
  BY <1>1, RowFields
<1> HIDE DEF row
<1>4. \A w \in MediaWorkers : media[w].pc \in Deciding /\ media[w].file = f => Workable(row, job[f])
  BY <1>1 DEF LifeInv, AttemptsAreLeased
<1>5. RowFits(row, job[f])
  BY <1>1, <1>3 DEF RowFits, LifeInv, JobsFollowUploads, PastUpload, DeletedRows
<1>6. RequestsGoOn
  BY <1>1 DEF LifeInv, RowsTyped, RequestsGoOn
<1>7. att'[f] = row
  BY <1>2 DEF LifeInv, RowsTyped
<1>8. Moved(Outcome(f), Outcome(f)')
  BY <1>3, <1>7 DEF Moved, Outcome
<1> QED
  BY <1>1, <1>2, <1>3, <1>4, <1>5, <1>6, <1>8, QuietRow

\* The clean-up pass removes many rows at once.
LEMMA CleanupLives ==
    ASSUME LifeInv, CommitCleanup PROVE LifeInv' /\ LifeStep
<1>1. CASE att' = att /\ job' = job
  BY <1>1, RowsStay DEF CommitCleanup, LifeInv, RowsTyped, RequestsRefer
<1>2. CASE /\ att' = [f \in Files |-> IF Expired(f) THEN [att[f] EXCEPT !.status = "purged"] ELSE att[f]]
           /\ job' = [f \in Files |-> IF Expired(f) THEN NoJob ELSE job[f]]
  <2>1. /\ media' = media /\ requests' = requests
        /\ \A f \in Files : att[f] \in AttachmentRow /\ job[f] \in JobRow /\ NoJob \in JobRow
    BY AttachmentNumbers DEF CommitCleanup, LifeInv, RowsTyped, NoJob, JobRow
  <2>2. \A f \in Files : Expired(f) => /\ att'[f] \in AttachmentRow /\ att'[f].status = "purged"
                                       /\ att'[f].deleted = att[f].deleted
                                       /\ att[f].status \in {"uploading", "rejected"}
    BY <1>2, <2>1, RowFields, RowNames DEF Expired
  <2>3. \A f \in Files : ~Expired(f) => att'[f] = att[f] /\ job'[f] = job[f]
    BY <1>2
  <2>4. RowsTyped'
    BY <1>2, <2>1, <2>2, <2>3 DEF LifeInv, RowsTyped
  <2>5. \A w \in MediaWorkers : media[w].pc \in Deciding => media[w].file \in Files /\ ~Expired(media[w].file)
    BY AttemptFile DEF Expired
  <2>6. AttemptsAreLeased'
    BY <2>1, <2>3, <2>5 DEF LifeInv, AttemptsAreLeased
  <2>7. JobsFollowUploads'
    BY <2>2, <2>3 DEF LifeInv, JobsFollowUploads, PastUpload
  <2>8. DeletedRows'
    BY <2>2, <2>3 DEF LifeInv, DeletedRows
  <2>9. \A r \in Requests : requests[r].pc # "idle" => requests[r].file \in Files
    BY DEF LifeInv, RowsTyped, Reading
  <2>10. RequestsRefer'
    BY <2>1, <2>2, <2>3, <2>9 DEF LifeInv, RequestsRefer
  <2>11. LifeStep
    <3> DEFINE S == {f \in Files : Expired(f) /\ ~att[f].deleted}
               L1 == Lives
               L2 == Lives'
    <3>1. \A f \in Files : L1[f] = Outcome(f) /\ L2[f] = Outcome(f)'
      BY DEF Lives
    <3>2. \A f \in S : Outcome(f) \in {"pending", "rejected"} /\ Outcome(f)' = "removed"
      BY <2>2 DEF Outcome
    <3>3. \A f \in Files \ S : Outcome(f)' = Outcome(f)
      <4>1. \A f \in Files : Expired(f) /\ att[f].deleted => Outcome(f)' = "removed" /\ Outcome(f) = "removed"
        BY <2>2 DEF Outcome
      <4>2. \A f \in Files : ~Expired(f) => Outcome(f)' = Outcome(f)
        BY <2>3 DEF Outcome
      <4> QED
        BY <4>1, <4>2
    <3>4. L2 = [f \in Files |-> IF f \in S THEN "removed" ELSE L1[f]]
      BY <3>1, <3>2, <3>3 DEF Lives
    <3>5. CASE S = {}
      <4>1. L2 = L1
        BY <3>4, <3>5 DEF Lives
      <4> QED
        BY <4>1 DEF LifeStep
    <3>6. CASE S # {}
      <4>1. Life!Remove(S)
        BY <3>1, <3>2, <3>4, <3>6 DEF Life!Remove, Lives
      <4>2. S \in SUBSET Files
        OBVIOUS
      <4> QED
        BY <4>1, <4>2 DEF LifeStep, Life!Next
    <3> QED
      BY <3>5, <3>6
  <2> QED
    BY <2>4, <2>6, <2>7, <2>8, <2>10, <2>11 DEF LifeInv
<1> QED
  BY <1>1, <1>2 DEF CommitCleanup

\* Steps that leave rows, requests and workers alone.
LEMMA PassLives ==
    ASSUME LifeInv, UNCHANGED <<att, job, requests, media>> PROVE LifeInv' /\ LifeStep
BY RowsStay DEF LifeInv, RowsTyped, RequestsRefer

\* Every step keeps the invariant and moves lives as AttachmentLife allows.
LEMMA LifeNext == ASSUME LifeInv, [AttachmentsNext]_attVars PROVE LifeInv' /\ LifeStep
<1>1. CASE UNCHANGED attVars
  BY <1>1, PassLives DEF attVars
<1>2. CASE \E f \in Files : \/ \E n \in Sizes, g \in BOOLEAN : CreateAttachment(f, n, g)
                            \/ AttemptDue(f) \/ RowGrowsOld(f)
  BY <1>2, CreateAttachmentLives, AttemptDueLives, RowGrowsOldLives
<1>3. CASE \E p \in Files \X Directories : FileGrowsOld(p)
  BY <1>3, PassLives DEF FileGrowsOld
<1>4. CASE \E r \in Requests :
          \/ \E f \in Files, kind \in {"append", "delete"} : ReadForRequest(r, f, kind)
          \/ CommitChunk(r) \/ LoseChunk(r) \/ RefuseChunk(r)
          \/ CommitDelete(r) \/ WipeDeleted(r) \/ DieDeleting(r)
  BY <1>4, RequestsLive, CommitChunkLives, CommitDeleteLives
<1>5. CASE \E w \in MediaWorkers : WorkerStep(w) \/ DieScanning(w)
  BY <1>5, ClaimLives, BytesLive, MarkLives, RetryLives, RejectLives DEF WorkerStep
<1>6. CASE UpkeepStep \/ DieCleaning
  BY <1>6, CleanupLives, PassLives
     DEF UpkeepStep, SelectExpired, RemoveExpiredFiles, RemoveOrphans, DieCleaning
<1> QED
  BY <1>1, <1>2, <1>3, <1>4, <1>5, <1>6 DEF AttachmentsNext

\* Requests, workers, deaths and the clean-up pass together implement the life of an
\* attachment (AttachmentLife): pending, then available or rejected for good, until it is
\* removed (attachment_media.py, routes/attachments.py).
THEOREM AttachmentsLive == AttachmentsSpec => ImplementsLife
<1>1. AttachmentsInit => Life!Init
  BY DEF AttachmentsInit, Life!Init, Outcome
<1>2. LifeStep => [Life!Next]_[f \in Files |-> Outcome(f)]
  BY DEF LifeStep, Lives
<1>3. LifeInv /\ [AttachmentsNext]_attVars => LifeInv' /\ [Life!Next]_[f \in Files |-> Outcome(f)]
  BY <1>2, LifeNext
<1> QED
  BY <1>1, <1>3, LifeInitInv, PTL DEF AttachmentsSpec, ImplementsLife, Life!Spec

-----------------------------------------------------------------------------
(* Attachments: what is available has its bytes.                            *)

\* What lies on the disk, and what the clean-up pass carries along.
FilesTyped ==
    /\ published \in [Files -> Nat]
    /\ disk \subseteq Files \X Directories
    /\ upkeep \in [pc : {"idle"}] \cup [pc : {"delete"}, keys : SUBSET Files]
                  \cup [pc : {"files", "orphans"}, keys : SUBSET Files, known : SUBSET Files]

\* Nobody will publish a file of these outcomes any more.
Final == {"rejected", "removed"}

\* All files of an attachment are removed only once its outcome is final.
WipesAreFinal ==
    /\ \A r \in Requests : requests[r].pc = "wipe" => Outcome(requests[r].file) \in Final
    /\ \A w \in MediaWorkers : media[w].pc = "wipe" => Outcome(media[w].file) \in Final

\* Nothing is stored before there is a row.
NewHasNoFiles == \A f \in Files, d \in Directories : att[f].status = "absent" => <<f, d>> \notin disk

\* The orphan pass spares the files of attachments created after its commit.
OrphansSpareNew ==
    upkeep.pc \in {"files", "orphans"} =>
        \A f \in Files \ upkeep.known :
            Outcome(f) \in Final \/ \A d \in Directories : <<f, d>> \in disk => <<f, d>> \in young

\* What a worker is about to mark has been published.
MarkedIsPublished ==
    \A w \in MediaWorkers :
        media[w].pc = "mark" /\ media[w].file \notin swept /\ Outcome(media[w].file) = "pending" =>
            <<media[w].file, "available">> \in disk /\ published[media[w].file] = media[w].size

BytesInv ==
    /\ LifeInv /\ FilesTyped /\ WipesAreFinal /\ NewHasNoFiles /\ OrphansSpareNew
    /\ MarkedIsPublished /\ AvailableHasItsBytes

\* The invariant of the bytes holds at first.
LEMMA BytesInitInv == AttachmentsInit => BytesInv
<1> SUFFICES ASSUME AttachmentsInit PROVE BytesInv
  OBVIOUS
<1>1. FilesTyped /\ WipesAreFinal /\ NewHasNoFiles /\ OrphansSpareNew /\ MarkedIsPublished
  BY DEF AttachmentsInit, FilesTyped, WipesAreFinal, NewHasNoFiles, OrphansSpareNew, MarkedIsPublished
<1>2. AvailableHasItsBytes
  BY DEF AttachmentsInit, AvailableHasItsBytes
<1> QED
  BY <1>1, <1>2, LifeInitInv DEF BytesInv

\* An abstract step moves each file by one of its moves.
LEMMA EveryFileMoves == ASSUME LifeStep, NEW f \in Files PROVE Moved(Outcome(f), Outcome(f)')
<1> DEFINE L1 == Lives
           L2 == Lives'
<1>1. L1[f] = Outcome(f) /\ L2[f] = Outcome(f)' /\ DOMAIN L1 = Files
  BY DEF Lives
<1>2. CASE L2 = L1
  BY <1>1, <1>2 DEF Moved
<1>3. CASE \E i \in Files : Life!Begin(i) \/ Life!Publish(i) \/ Life!Refuse(i)
  BY <1>1, <1>3 DEF Moved, Life!Begin, Life!Publish, Life!Refuse, Life!Move, Lives
<1>4. CASE \E S \in SUBSET Files : Life!Remove(S)
  BY <1>1, <1>4 DEF Moved, Life!Remove, Lives
<1> QED
  BY <1>2, <1>3, <1>4 DEF LifeStep, Life!Next, Lives

\* A final outcome stays final, and no row ceases to exist.
LEMMA FinalStays ==
    ASSUME LifeStep, NEW f \in Files
    PROVE  /\ Outcome(f) \in Final => Outcome(f)' \in Final
           /\ att'[f].status = "absent" => att[f].status = "absent"
           /\ Outcome(f)' = "available" => Outcome(f) \in {"pending", "available"}
           /\ Outcome(f)' = "pending" => Outcome(f) \in {"none", "pending"}
<1>1. Moved(Outcome(f), Outcome(f)')
  BY EveryFileMoves
<1>2. /\ Outcome(f) \in Final => Outcome(f)' \in Final
      /\ Outcome(f)' = "available" => Outcome(f) \in {"pending", "available"}
      /\ Outcome(f)' = "pending" => Outcome(f) \in {"none", "pending"}
  BY <1>1 DEF Moved, Final
<1>3. att'[f].status = "absent" => Outcome(f)' = "none"
  BY DEF Outcome
<1>4. Outcome(f) = "none" => att[f].status = "absent"
  BY DEF Outcome
<1> QED
  BY <1>1, <1>2, <1>3, <1>4 DEF Moved

\* Bytes that may still be served stay where they are.
Spares ==
    /\ swept \subseteq swept'
    /\ \A f \in Files \ swept' : Outcome(f)' \notin Final /\ <<f, "available">> \in disk =>
          <<f, "available">> \in disk' /\ published'[f] = published[f]

\* New files are young and belong to a row, and the orphan pass goes on as it began.
WritesForRows ==
    /\ \A f \in Files, d \in Directories : <<f, d>> \in disk' \ disk =>
          att[f].status # "absent" /\ <<f, d>> \in young'
    /\ upkeep'.pc \in {"files", "orphans"} =>
          /\ upkeep.pc \in {"files", "orphans"} /\ upkeep'.known = upkeep.known
          /\ \A p \in young : p \in disk' => p \in young'

\* New files stay young during an orphan pass.
LEMMA FilesStayYoung ==
    ASSUME BytesInv, LifeStep, WritesForRows PROVE NewHasNoFiles' /\ OrphansSpareNew'
<1>1. NewHasNoFiles'
  BY FinalStays DEF BytesInv, NewHasNoFiles, WritesForRows
<1>2. OrphansSpareNew'
  <2> SUFFICES ASSUME upkeep'.pc \in {"files", "orphans"}, NEW f \in Files \ upkeep'.known,
                      Outcome(f)' \notin Final, NEW d \in Directories, <<f, d>> \in disk'
               PROVE  <<f, d>> \in young'
    BY DEF OrphansSpareNew
  <2>1. Outcome(f) \notin Final /\ upkeep.pc \in {"files", "orphans"} /\ f \notin upkeep.known
    BY FinalStays DEF WritesForRows
  <2>2. CASE <<f, d>> \in disk
    BY <2>1, <2>2 DEF BytesInv, OrphansSpareNew, WritesForRows
  <2>3. CASE <<f, d>> \notin disk
    BY <2>3 DEF WritesForRows
  <2> QED
    BY <2>2, <2>3
<1> QED
  BY <1>1, <1>2

\* Steps that publish nothing and mark nothing.
LEMMA BytesStay ==
    ASSUME BytesInv, LifeInv', LifeStep, Spares,
           \A f \in Files : Outcome(f)' = "available" =>
              Outcome(f) = "available" /\ att'[f].size = att[f].size,
           \A w \in MediaWorkers : media'[w].pc = "mark" => media'[w] = media[w]
    PROVE  MarkedIsPublished' /\ AvailableHasItsBytes'
<1>1. MarkedIsPublished'
  <2> SUFFICES ASSUME NEW w \in MediaWorkers, media'[w].pc = "mark", media'[w].file \notin swept',
                      (Outcome(media[w].file) = "pending")'
               PROVE  <<media'[w].file, "available">> \in disk' /\ published'[media'[w].file] = media'[w].size
    BY DEF MarkedIsPublished
  <2>1. media'[w] = media[w] /\ media[w].pc \in Deciding
    BY DEF Deciding
  <2>2. PICK f \in Files : /\ media[w].file = f
                           /\ att[f].status = IF att[f].deleted THEN "deleted" ELSE "scanning"
    BY <2>1, AttemptFile DEF BytesInv
  <2>3. Outcome(f)' = "pending"
    BY <2>1, <2>2
  <2>4. Outcome(f) = "pending"
    BY <2>2, <2>3, FinalStays DEF Outcome
  <2>5. <<f, "available">> \in disk /\ published[f] = media[w].size
    BY <2>1, <2>2, <2>4 DEF BytesInv, MarkedIsPublished, Spares
  <2> QED
    BY <2>1, <2>2, <2>3, <2>5 DEF Spares, Final
<1>2. AvailableHasItsBytes'
  <2> SUFFICES ASSUME NEW f \in Files \ swept', att'[f].status = "available", ~att'[f].deleted
               PROVE  <<f, "available">> \in disk' /\ published'[f] = att'[f].size
    BY DEF AvailableHasItsBytes
  <2>1. Outcome(f)' = "available"
    BY DEF Outcome
  <2>2. Outcome(f) = "available" /\ att'[f].size = att[f].size
    BY <2>1
  <2>3. att[f].status = "available" /\ ~att[f].deleted
    BY <2>2 DEF Outcome
  <2>4. <<f, "available">> \in disk /\ published[f] = att[f].size
    BY <2>3 DEF BytesInv, AvailableHasItsBytes, Spares
  <2> QED
    BY <2>1, <2>2, <2>4 DEF Spares, Final
<1> QED
  BY <1>1, <1>2

\* Only a worker makes a file available, and nobody changes the size of one that is.
AvailableStays ==
    \A f \in Files : Outcome(f)' = "available" => Outcome(f) = "available" /\ att'[f].size = att[f].size

\* Every step but MarkAvailable keeps AvailableStays.
LEMMA SizesStay ==
    ASSUME LifeInv,
           \/ att' = att
           \/ \E f \in Files : \/ \E n \in Sizes, g \in BOOLEAN : CreateAttachment(f, n, g)
                               \/ RowGrowsOld(f)
           \/ \E r \in Requests : CommitChunk(r) \/ CommitDelete(r)
           \/ \E w \in MediaWorkers : \/ \E f \in Files : ClaimReady(w, f)
                                      \/ RetryOrReject(w) \/ Reject(w)
           \/ CommitCleanup
    PROVE  AvailableStays
<1> DEFINE Kept == \A f \in Files : att'[f].status = "available" /\ ~att'[f].deleted =>
                        att[f].status = "available" /\ ~att[f].deleted /\ att'[f].size = att[f].size
<1>1. Kept => AvailableStays
  BY DEF AvailableStays, Outcome
<1>2. CASE att' = att
  BY <1>1, <1>2
<1>3. att \in [Files -> AttachmentRow]
  BY DEF LifeInv, RowsTyped
<1>4. ASSUME NEW f \in Files, NEW n \in Sizes, NEW g \in BOOLEAN, CreateAttachment(f, n, g) PROVE Kept
  BY <1>3, <1>4 DEF CreateAttachment
<1>5. ASSUME NEW f \in Files, RowGrowsOld(f) PROVE Kept
  BY <1>3, <1>5 DEF RowGrowsOld, AttachmentRow
<1>6. ASSUME NEW r \in Requests, CommitChunk(r) PROVE Kept
  <2> DEFINE seen == requests[r]
             next == IF FailsDigest(seen) THEN "rejected"
                     ELSE IF LastChunk(seen) THEN "pending_scan" ELSE att[seen.file].status
             row  == Grown(att[seen.file], seen.uploaded + 1, next)
  <2>1. seen \in Reading
    BY <1>6 DEF CommitChunk, LifeInv, RowsTyped
  <2>2. seen.file \in Files /\ att[seen.file] \in AttachmentRow
    BY <1>3, <2>1 DEF Reading
  <2>3. att' = [att EXCEPT ![seen.file] = row]
    BY <1>3, <1>6, <2>2 DEF CommitChunk, AttachmentRow, Grown
  <2>4. row.status = next /\ row.deleted = att[seen.file].deleted /\ row.size = att[seen.file].size
    BY <2>2 DEF AttachmentRow, Grown
  <2>5. next = "available" => att[seen.file].status = "available"
    OBVIOUS
  <2> HIDE DEF row, next, seen
  <2> QED
    BY <1>3, <2>2, <2>3, <2>4, <2>5
<1>7. ASSUME NEW r \in Requests, CommitDelete(r) PROVE Kept
  <2>1. PICK f \in Files : requests[r].file = f
    BY <1>7 DEF CommitDelete, LifeInv, RowsTyped, Reading
  <2>2. att' = att \/ att' = [att EXCEPT ![f] = [att[f] EXCEPT !.status = "deleted", !.deleted = TRUE,
                                                              !.old = FALSE]]
    BY <1>3, <1>7, <2>1 DEF CommitDelete
  <2>3. [att[f] EXCEPT !.status = "deleted", !.deleted = TRUE, !.old = FALSE].status = "deleted"
    BY <1>3, HiddenRow
  <2> QED
    BY <1>3, <2>2, <2>3
<1>8. ASSUME NEW w \in MediaWorkers, NEW f \in Files, ClaimReady(w, f) PROVE Kept
  BY <1>3, <1>8 DEF ClaimReady, AttachmentRow
<1>9. ASSUME NEW w \in MediaWorkers, RetryOrReject(w) PROVE Kept
  <2>1. PICK f \in Files : media[w].file = f
    BY <1>9 DEF RetryOrReject, At, LifeInv, RowsTyped, Handling
  <2>2. att' = att \/ att' = [att EXCEPT ![f] = Touched(att[f], "pending_scan")]
    BY <1>3, <1>9, <2>1 DEF RetryOrReject, Touched
  <2>3. Touched(att[f], "pending_scan").status = "pending_scan"
    BY <1>3, TouchedRow, RowNames
  <2> QED
    BY <1>3, <2>2, <2>3
<1>10. ASSUME NEW w \in MediaWorkers, Reject(w) PROVE Kept
  <2>1. PICK f \in Files : media[w].file = f
    BY <1>10 DEF Reject, At, LifeInv, RowsTyped, Handling
  <2>2. att' = att \/ att' = [att EXCEPT ![f] = Touched(att[f], "rejected")]
    BY <1>3, <1>10, <2>1 DEF Reject, Touched
  <2>3. Touched(att[f], "rejected").status = "rejected"
    BY <1>3, TouchedRow, RowNames
  <2> QED
    BY <1>3, <2>2, <2>3
<1>11. ASSUME CommitCleanup PROVE Kept
  BY <1>3, <1>11 DEF CommitCleanup, AttachmentRow
<1> HIDE DEF Kept
<1> QED
  BY <1>1, <1>2, <1>4, <1>5, <1>6, <1>7, <1>8, <1>9, <1>10, <1>11

\* Whoever is about to remove all files of an attachment was so before, or its
\* outcome has become final.
WipesGoOn ==
    /\ \A r \in Requests : requests'[r].pc = "wipe" =>
          \E f \in Files : /\ requests'[r].file = f
                           /\ \/ requests[r].pc = "wipe" /\ requests[r].file = f
                              \/ Outcome(f)' \in Final
    /\ \A w \in MediaWorkers : media'[w].pc = "wipe" =>
          \E f \in Files : /\ media'[w].file = f
                           /\ \/ media[w].pc = "wipe" /\ media[w].file = f
                              \/ Outcome(f)' \in Final

\* The outcome of what is being removed stays final.
LEMMA WipesStayFinal == ASSUME BytesInv, LifeStep, WipesGoOn PROVE WipesAreFinal'
<1>1. ASSUME NEW r \in Requests, requests'[r].pc = "wipe" PROVE (Outcome(requests[r].file) \in Final)'
  <2>1. PICK f \in Files : /\ requests'[r].file = f
                           /\ \/ requests[r].pc = "wipe" /\ requests[r].file = f
                              \/ Outcome(f)' \in Final
    BY <1>1 DEF WipesGoOn
  <2>2. Outcome(f)' \in Final
    BY <2>1, FinalStays DEF BytesInv, WipesAreFinal
  <2> QED
    BY <2>1, <2>2 DEF Final
<1>2. ASSUME NEW w \in MediaWorkers, media'[w].pc = "wipe" PROVE (Outcome(media[w].file) \in Final)'
  <2>1. PICK f \in Files : /\ media'[w].file = f
                           /\ \/ media[w].pc = "wipe" /\ media[w].file = f
                              \/ Outcome(f)' \in Final
    BY <1>2 DEF WipesGoOn
  <2>2. Outcome(f)' \in Final
    BY <2>1, FinalStays DEF BytesInv, WipesAreFinal
  <2> QED
    BY <2>1, <2>2 DEF Final
<1> QED
  BY <1>1, <1>2 DEF WipesAreFinal

\* Files of requests and workers.
LEMMA FilesNamed ==
    ASSUME LifeInv
    PROVE  /\ \A r \in Requests : requests[r].pc # "idle" => requests[r].file \in Files
           /\ \A w \in MediaWorkers : media[w].pc # "idle" => media[w].file \in Files
BY DEF LifeInv, RowsTyped, Reading, Handling

\* Requests and workers that a step leaves alone go on.
LEMMA WipesUndisturbed ==
    ASSUME LifeInv, requests' = requests, media' = media PROVE WipesGoOn
BY FilesNamed DEF WipesGoOn

\* Two moves of one worker to a step that is not the removal.
LEMMA WipesOfOneWorker ==
    ASSUME LifeInv, NEW w \in MediaWorkers, requests' = requests,
           \A v \in MediaWorkers \ {w} : media'[v] = media[v], media'[w].pc # "wipe"
    PROVE  WipesGoOn
BY FilesNamed DEF WipesGoOn

\* The same for a request.
LEMMA WipesOfOneRequest ==
    ASSUME LifeInv, NEW r \in Requests, media' = media,
           \A d \in Requests \ {r} : requests'[d] = requests[d], requests'[r].pc # "wipe"
    PROVE  WipesGoOn
BY FilesNamed DEF WipesGoOn

\* Every step keeps that removals are final.
LEMMA WipesStep == ASSUME BytesInv, LifeInv', LifeStep, [AttachmentsNext]_attVars PROVE WipesAreFinal'
<1> SUFFICES WipesGoOn
  BY WipesStayFinal
<1>0. LifeInv
  BY DEF BytesInv
<1>1. CASE UNCHANGED attVars \/ UpkeepStep \/ DieCleaning
  BY <1>0, <1>1, WipesUndisturbed
     DEF attVars, UpkeepStep, DieCleaning, SelectExpired, CommitCleanup, RemoveExpiredFiles, RemoveOrphans
<1>2. CASE \E f \in Files : \/ \E n \in Sizes, g \in BOOLEAN : CreateAttachment(f, n, g)
                            \/ AttemptDue(f) \/ RowGrowsOld(f)
  BY <1>0, <1>2, WipesUndisturbed DEF CreateAttachment, AttemptDue, RowGrowsOld
<1>3. CASE \E p \in Files \X Directories : FileGrowsOld(p)
  BY <1>0, <1>3, WipesUndisturbed DEF FileGrowsOld
<1>4. ASSUME NEW r \in Requests,
          \/ \E f \in Files, kind \in {"append", "delete"} : ReadForRequest(r, f, kind)
          \/ CommitChunk(r) \/ LoseChunk(r) \/ RefuseChunk(r) \/ WipeDeleted(r) \/ DieDeleting(r)
      PROVE  WipesGoOn
  <2>1. /\ media' = media /\ requests'[r].pc # "wipe"
        /\ \A d \in Requests \ {r} : requests'[d] = requests[d]
    BY <1>0, <1>4 DEF ReadForRequest, CommitChunk, LoseChunk, RefuseChunk, WipeDeleted, DieDeleting, Done,
                      LifeInv, RowsTyped
  <2> QED
    BY <1>0, <2>1, WipesOfOneRequest
<1>5. ASSUME NEW r \in Requests, CommitDelete(r) PROVE WipesGoOn
  <2>1. CASE Done(r)
    <3>1. /\ media' = media /\ requests'[r].pc # "wipe"
          /\ \A d \in Requests \ {r} : requests'[d] = requests[d]
      BY <1>0, <1>5, <2>1 DEF CommitDelete, Done, LifeInv, RowsTyped
    <3> QED
      BY <1>0, <3>1, WipesOfOneRequest
  <2>2. CASE /\ att' = [att EXCEPT ![requests[r].file].status = "deleted",
                                   ![requests[r].file].deleted = TRUE, ![requests[r].file].old = FALSE]
             /\ requests' = [requests EXCEPT ![r].pc = "wipe"]
    <3>1. PICK f \in Files : requests[r].file = f /\ requests[r] \in Reading
      BY <1>5 DEF CommitDelete, BytesInv, LifeInv, RowsTyped, Reading
    <3>2. att[f] \in AttachmentRow /\ att[f].status # "absent"
      BY <1>5, <3>1 DEF CommitDelete, BytesInv, LifeInv, RowsTyped, RequestsRefer
    <3>3. att'[f].status = "deleted" /\ att'[f].deleted
      BY <2>2, <3>1, <3>2 DEF BytesInv, LifeInv, RowsTyped, AttachmentRow
    <3>4. Outcome(f)' \in Final
      BY <3>3 DEF Outcome, Final
    <3>5. requests'[r].file = f /\ \A d \in Requests \ {r} : requests'[d] = requests[d]
      BY <2>2, <3>1 DEF BytesInv, LifeInv, RowsTyped, Reading
    <3>6. media' = media
      BY <1>5 DEF CommitDelete
    <3> QED
      BY <1>0, <3>4, <3>5, <3>6, FilesNamed DEF WipesGoOn
  <2> QED
    BY <1>5, <2>1, <2>2 DEF CommitDelete
<1>6. ASSUME NEW w \in MediaWorkers, NEW f \in Files, ClaimReady(w, f) PROVE WipesGoOn
  <2>1. requests' = requests /\ media'[w].pc # "wipe" /\ \A v \in MediaWorkers \ {w} : media'[v] = media[v]
    BY <1>0, <1>6 DEF ClaimReady, LifeInv, RowsTyped
  <2> QED
    BY <1>0, <2>1, WipesOfOneWorker
<1>7. ASSUME NEW w \in MediaWorkers,
             ReadClaimed(w) \/ ScanFile(w) \/ Sanitize(w) \/ Replace(w) \/ MarkAvailable(w)
             \/ UnlinkSource(w) \/ RetryOrReject(w) \/ WipeRejected(w) \/ DieScanning(w)
      PROVE  WipesGoOn
  <2>1. media[w] \in Handling /\ requests' = requests
    BY <1>0, <1>7 DEF ReadClaimed, ScanFile, Sanitize, Replace, MarkAvailable, UnlinkSource, RetryOrReject,
                      WipeRejected, DieScanning, At, mediaOnly, LifeInv, RowsTyped
  <2>2. \/ \E next \in {"scan", "sanitize", "replace", "mark", "retry", "reject", "unlink"} : Goto(w, next)
        \/ Rest(w)
        \/ \E n \in FinalSizes : media' = [media EXCEPT ![w].pc = "replace", ![w].size = n]
    BY <1>7 DEF ReadClaimed, ScanFile, Sanitize, Replace, MarkAvailable, UnlinkSource, RetryOrReject,
                WipeRejected, DieScanning
  <2>3. media'[w].pc # "wipe" /\ \A v \in MediaWorkers \ {w} : media'[v] = media[v]
    BY <1>0, <2>1, <2>2 DEF Goto, Rest, LifeInv, RowsTyped, Handling
  <2> QED
    BY <1>0, <2>1, <2>3, WipesOfOneWorker
<1>8. ASSUME NEW w \in MediaWorkers, Reject(w) PROVE WipesGoOn
  <2>1. CASE Rest(w)
    <3>1. requests' = requests /\ media'[w].pc # "wipe" /\ \A v \in MediaWorkers \ {w} : media'[v] = media[v]
      BY <1>0, <1>8, <2>1 DEF Reject, Rest, LifeInv, RowsTyped
    <3> QED
      BY <1>0, <3>1, WipesOfOneWorker
  <2>2. CASE Goto(w, "wipe") /\ att' = [att EXCEPT ![media[w].file].status = "rejected", ![media[w].file].old = FALSE]
    <3>1. media[w].pc \in Deciding /\ media[w].pc # "idle"
      BY <1>8 DEF Reject, At, Deciding
    <3>2. PICK f \in Files : media[w].file = f /\ att[f] \in AttachmentRow
      BY <1>0, <3>1, AttemptFile
    <3>3. att'[f].status = "rejected"
      BY <2>2, <3>2 DEF BytesInv, LifeInv, RowsTyped, AttachmentRow
    <3>4. Outcome(f)' \in Final
      BY <3>3 DEF Outcome, Final
    <3>5. media'[w].file = f /\ \A v \in MediaWorkers \ {w} : media'[v] = media[v]
      BY <1>0, <2>2, <3>1, <3>2, WorkerMoves
    <3>6. requests' = requests
      BY <1>8 DEF Reject
    <3> QED
      BY <1>0, <3>4, <3>5, <3>6, FilesNamed DEF WipesGoOn
  <2> QED
    BY <1>8, <2>1, <2>2 DEF Reject
<1> QED
  BY <1>1, <1>2, <1>3, <1>4, <1>5, <1>6, <1>7, <1>8 DEF AttachmentsNext, WorkerStep

\* A worker about to mark was about to do so before.
MarksGoOn == \A w \in MediaWorkers : media'[w].pc = "mark" => media'[w] = media[w]

BytesKept ==
    FilesTyped' /\ NewHasNoFiles' /\ OrphansSpareNew' /\ MarkedIsPublished' /\ AvailableHasItsBytes'

\* What a removal leaves.
LEMMA UnlinkSpares ==
    ASSUME BytesInv, NEW gone, Unlink(gone), swept \subseteq swept',
           \A f \in Files \ swept' : <<f, "available">> \in gone => Outcome(f)' \in Final
    PROVE  /\ Spares /\ published' \in [Files -> Nat] /\ disk' \subseteq disk
           /\ \A p \in young : p \in disk' => p \in young'
<1>1. /\ disk' = disk \ gone /\ young' = young \ gone
      /\ published' = [f \in Files |-> IF <<f, "available">> \in gone THEN 0 ELSE published[f]]
  BY DEF Unlink
<1>2. published' \in [Files -> Nat]
  BY <1>1 DEF BytesInv, FilesTyped
<1>3. Spares
  BY <1>1 DEF Spares
<1> QED
  BY <1>1, <1>2, <1>3

\* Steps that leave the files alone.
LEMMA QuietBytes ==
    ASSUME BytesInv, LifeInv', LifeStep, disk' = disk, published' = published, young' = young,
           swept' = swept, upkeep' = upkeep, AvailableStays, MarksGoOn
    PROVE  BytesKept
<1>1. FilesTyped'
  BY DEF BytesInv, FilesTyped
<1>2. WritesForRows /\ Spares
  BY DEF WritesForRows, Spares
<1> QED
  BY <1>1, <1>2, FilesStayYoung, BytesStay DEF BytesKept, AvailableStays, MarksGoOn

\* Steps that remove files.
LEMMA UnlinkBytes ==
    ASSUME BytesInv, LifeInv', LifeStep, NEW gone, Unlink(gone), swept \subseteq swept',
           \A f \in Files \ swept' : <<f, "available">> \in gone => Outcome(f)' \in Final,
           \/ upkeep' = upkeep \/ upkeep' = [pc |-> "idle"]
           \/ upkeep.pc = "files" /\ upkeep' = [upkeep EXCEPT !.pc = "orphans"],
           AvailableStays, MarksGoOn
    PROVE  BytesKept
<1>1. /\ Spares /\ published' \in [Files -> Nat] /\ disk' \subseteq disk
      /\ \A p \in young : p \in disk' => p \in young'
  BY UnlinkSpares
<1>2. /\ upkeep' \in [pc : {"idle"}] \cup [pc : {"delete"}, keys : SUBSET Files]
                     \cup [pc : {"files", "orphans"}, keys : SUBSET Files, known : SUBSET Files]
      /\ upkeep'.pc \in {"files", "orphans"} =>
            upkeep.pc \in {"files", "orphans"} /\ upkeep'.known = upkeep.known
  BY DEF BytesInv, FilesTyped
<1>3. FilesTyped'
  BY <1>1, <1>2 DEF BytesInv, FilesTyped
<1>4. WritesForRows
  BY <1>1, <1>2 DEF WritesForRows
<1> QED
  BY <1>1, <1>3, <1>4, FilesStayYoung, BytesStay DEF BytesKept, AvailableStays, MarksGoOn

\* Steps that write a file that is not published.
LEMMA WriteBytes ==
    ASSUME BytesInv, LifeInv', LifeStep, NEW f \in Files, NEW d \in Directories, Write(f, d),
           att[f].status # "absent", published' = published, swept' = swept, upkeep' = upkeep,
           AvailableStays, MarksGoOn
    PROVE  BytesKept
<1>1. /\ disk' = disk \cup {<<f, d>>} /\ young' = young \cup {<<f, d>>}
  BY DEF Write
<1>2. FilesTyped'
  BY <1>1 DEF BytesInv, FilesTyped
<1>3. WritesForRows /\ Spares
  BY <1>1 DEF WritesForRows, Spares
<1> QED
  BY <1>2, <1>3, FilesStayYoung, BytesStay DEF BytesKept, AvailableStays, MarksGoOn

\* Steps of the clocks and of the clean-up pass that leave the files alone and begin no
\* orphan pass.
LEMMA PassBytes ==
    ASSUME BytesInv, LifeInv', LifeStep, disk' = disk, published' = published, swept' = swept,
           att' = att, media' = media,
           \/ upkeep' = upkeep /\ upkeep.pc = "idle"
           \/ upkeep' = [pc |-> "delete", keys |-> {f \in Files : Expired(f)}]
           \/ upkeep' = [pc |-> "idle"]
    PROVE  BytesKept
<1>1. FilesTyped' /\ upkeep'.pc \notin {"files", "orphans"}
  BY DEF BytesInv, FilesTyped
<1>2. WritesForRows /\ Spares
  BY <1>1 DEF WritesForRows, Spares
<1>3. AvailableStays /\ MarksGoOn
  BY SizesStay DEF BytesInv, MarksGoOn
<1> QED
  BY <1>1, <1>2, <1>3, FilesStayYoung, BytesStay DEF BytesKept, AvailableStays, MarksGoOn

\* A removed file had a final outcome.
LEMMA WipeBytes ==
    ASSUME BytesInv, LifeInv', LifeStep, NEW f \in Files, Outcome(f) \in Final, Wipe(f),
           swept' = swept, upkeep' = upkeep, AvailableStays, MarksGoOn
    PROVE  BytesKept
<1>1. Outcome(f)' \in Final
  BY FinalStays
<1> QED
  BY <1>1, UnlinkBytes DEF Wipe

\* The steps of the requests.
LEMMA RequestBytes ==
    ASSUME BytesInv, LifeInv', LifeStep, NEW r \in Requests,
           \/ \E f \in Files, kind \in {"append", "delete"} : ReadForRequest(r, f, kind)
           \/ CommitChunk(r) \/ LoseChunk(r) \/ RefuseChunk(r)
           \/ CommitDelete(r) \/ WipeDeleted(r) \/ DieDeleting(r)
    PROVE  BytesKept
<1>0. LifeInv
  BY DEF BytesInv
<1>1. media' = media /\ swept' = swept /\ upkeep' = upkeep
  BY DEF ReadForRequest, CommitChunk, LoseChunk, RefuseChunk, CommitDelete, WipeDeleted, DieDeleting
<1>2. MarksGoOn
  BY <1>1 DEF MarksGoOn
<1>3. AvailableStays
  <2>1. att' = att \/ CommitChunk(r) \/ CommitDelete(r)
    BY DEF ReadForRequest, LoseChunk, RefuseChunk, WipeDeleted, DieDeleting
  <2> QED
    BY <1>0, <2>1, SizesStay
<1>4. CASE \/ \E f \in Files, kind \in {"append", "delete"} : ReadForRequest(r, f, kind)
           \/ RefuseChunk(r) \/ CommitDelete(r) \/ DieDeleting(r)
  <2>1. disk' = disk /\ published' = published /\ young' = young
    BY <1>4 DEF ReadForRequest, RefuseChunk, CommitDelete, DieDeleting
  <2> QED
    BY <1>1, <1>2, <1>3, <2>1, QuietBytes
<1>5. CASE CommitChunk(r) \/ LoseChunk(r)
  <2>1. PICK f \in Files : requests[r].file = f /\ att[f].status # "absent"
    BY <1>5 DEF CommitChunk, LoseChunk, BytesInv, LifeInv, RowsTyped, Reading, RequestsRefer
  <2>2. Unlink({<<f, "staging">>}) \/ Stage(f, requests[r].uploaded + 1)
    BY <1>5, <2>1 DEF CommitChunk, LoseChunk, AppendToFile
  <2>3. CASE Unlink({<<f, "staging">>})
    BY <1>1, <1>2, <1>3, <2>3, UnlinkBytes
  <2>4. CASE Stage(f, requests[r].uploaded + 1)
    <3>1. Write(f, "staging") /\ published' = published
      BY <2>4 DEF Stage
    <3> QED
      BY <1>1, <1>2, <1>3, <2>1, <3>1, WriteBytes DEF Directories
  <2> QED
    BY <2>2, <2>3, <2>4
<1>6. CASE WipeDeleted(r)
  <2>1. PICK f \in Files : requests[r].file = f
    BY <1>0, <1>6, FilesNamed DEF WipeDeleted
  <2>2. Wipe(f) /\ Outcome(f) \in Final
    BY <1>6, <2>1 DEF WipeDeleted, BytesInv, WipesAreFinal
  <2> QED
    BY <1>1, <1>2, <1>3, <2>2, WipeBytes
<1> QED
  BY <1>4, <1>5, <1>6

\* A file is published under its name.
LEMMA ReplaceBytes ==
    ASSUME BytesInv, LifeInv', LifeStep, NEW w \in MediaWorkers, Replace(w) PROVE BytesKept
<1>0. media[w].pc = "replace" /\ media[w].pc \in Deciding /\ LifeInv
  BY DEF Replace, At, Deciding, BytesInv
<1>1. PICK f \in Files :
              /\ media[w].file = f /\ media[w].size \in Nat /\ media[w] \in Handling
              /\ att[f].status = IF att[f].deleted THEN "deleted" ELSE "scanning"
  BY <1>0, AttemptFile DEF LifeInv, RowsTyped
<1>2. att' = att /\ swept' = swept /\ upkeep' = upkeep
  BY DEF Replace
<1>3. AvailableStays
  BY <1>0, <1>2, SizesStay
<1>4. ASSUME Goto(w, "reject") \/ Goto(w, "retry") PROVE MarksGoOn
  <2>1. media'[w].pc # "mark" /\ \A v \in MediaWorkers \ {w} : media'[v] = media[v]
    BY <1>0, <1>1, <1>4 DEF Goto, LifeInv, RowsTyped, Handling
  <2> QED
    BY <2>1 DEF MarksGoOn
<1>5. CASE Goto(w, "reject") /\ Unlink({<<f, "processing">>})
  BY <1>2, <1>3, <1>4, <1>5, UnlinkBytes
<1>6. CASE Goto(w, "retry") /\ UNCHANGED <<disk, young, staged, published>>
  BY <1>2, <1>3, <1>4, <1>6, QuietBytes
<1>7. CASE /\ Goto(w, "mark")
           /\ disk' = (disk \ {<<f, "processing">>}) \cup {<<f, "available">>}
           /\ young' = (young \ {<<f, "processing">>}) \cup {<<f, "available">>}
           /\ published' = [published EXCEPT ![f] = media[w].size]
  <2>1. FilesTyped'
    BY <1>1, <1>2, <1>7 DEF BytesInv, FilesTyped, Directories
  <2>2. WritesForRows
    BY <1>1, <1>2, <1>7 DEF WritesForRows
  <2>3. /\ media'[w].pc = "mark" /\ media'[w].file = f /\ media'[w].size = media[w].size
        /\ \A v \in MediaWorkers \ {w} : media'[v] = media[v]
    BY <1>0, <1>1, <1>7 DEF Goto, LifeInv, RowsTyped, Handling
  <2>4. /\ published'[f] = media[w].size /\ <<f, "available">> \in disk'
        /\ \A g \in Files \ {f} : /\ published'[g] = published[g]
                                  /\ <<g, "available">> \in disk => <<g, "available">> \in disk'
    BY <1>7 DEF BytesInv, FilesTyped
  <2>5. \A v \in MediaWorkers \ {w} : media[v].pc = "mark" => media[v].file \in Files \ {f}
    BY <1>0, <1>1, AttemptFile DEF LifeInv, AttemptsAreLeased, Deciding
  <2>6. ASSUME NEW v \in MediaWorkers, media'[v].pc = "mark", media'[v].file \notin swept,
               (Outcome(media[v].file) = "pending")'
        PROVE  <<media'[v].file, "available">> \in disk' /\ published'[media'[v].file] = media'[v].size
    <3>1. CASE v = w
      BY <2>3, <2>4, <3>1
    <3>2. CASE v # w
      <4>1. media'[v] = media[v]
        BY <2>3, <3>2
      <4>2. PICK g \in Files \ {f} : media[v].file = g
        BY <2>5, <2>6, <3>2, <4>1
      <4>3. Outcome(g) = "pending"
        BY <1>2, <2>6, <4>1, <4>2 DEF Outcome
      <4>4. <<g, "available">> \in disk /\ published[g] = media[v].size
        BY <2>6, <4>1, <4>2, <4>3 DEF BytesInv, MarkedIsPublished
      <4> QED
        BY <2>4, <4>1, <4>2, <4>4
    <3> QED
      BY <3>1, <3>2
  <2>7. MarkedIsPublished'
    BY <1>2, <2>6 DEF MarkedIsPublished
  <2>8. AvailableHasItsBytes'
    BY <1>1, <1>2, <2>4 DEF BytesInv, AvailableHasItsBytes
  <2> QED
    BY <2>1, <2>2, <2>7, <2>8, FilesStayYoung DEF BytesKept
<1> QED
  BY <1>1, <1>5, <1>6, <1>7 DEF Replace

\* A published file is marked.
LEMMA MarkBytes ==
    ASSUME BytesInv, LifeInv', LifeStep, NEW w \in MediaWorkers, MarkAvailable(w) PROVE BytesKept
<1>0. media[w].pc = "mark" /\ media[w].pc \in Deciding /\ LifeInv /\ media[w].pc # "idle"
  BY DEF MarkAvailable, At, Deciding, BytesInv
<1>1. PICK f \in Files :
              /\ media[w].file = f /\ media[w].size \in Nat /\ att[f] \in AttachmentRow
              /\ att[f].status = IF att[f].deleted THEN "deleted" ELSE "scanning"
  BY <1>0, AttemptFile
<1>2. swept' = swept /\ upkeep' = upkeep /\ disk' = disk /\ published' = published /\ young' = young
  BY DEF MarkAvailable
<1>3. media'[w].pc # "mark" /\ \A v \in MediaWorkers \ {w} : media'[v] = media[v]
  BY <1>0, WorkerMoves DEF MarkAvailable
<1>4. MarksGoOn
  BY <1>3 DEF MarksGoOn
<1>5. CASE att' = att
  BY <1>0, <1>2, <1>4, <1>5, SizesStay, QuietBytes
<1>6. CASE /\ Markable(w)
           /\ att' = [att EXCEPT ![f].status = "available", ![f].size = media[w].size,
                                 ![f].uploaded = media[w].size, ![f].old = FALSE]
  <2>1. att' = [att EXCEPT ![f] = Published(att[f], media[w].size)]
    BY <1>1, <1>6 DEF Published, BytesInv, LifeInv, RowsTyped
  <2>2. att'[f].size = media[w].size /\ \A g \in Files \ {f} : att'[g] = att[g]
    BY <1>1, <2>1, PublishedRow DEF BytesInv, LifeInv, RowsTyped
  <2>3. att[f].status = "scanning" /\ ~att[f].deleted
    BY <1>1, <1>6 DEF Markable
  <2>4. f \notin swept => <<f, "available">> \in disk /\ published[f] = media[w].size
    BY <1>0, <1>1, <2>3 DEF BytesInv, MarkedIsPublished, Outcome
  <2>5. AvailableHasItsBytes'
    <3>1. ASSUME NEW g \in Files \ swept, att'[g].status = "available", ~att'[g].deleted
          PROVE  <<g, "available">> \in disk /\ published[g] = att'[g].size
      BY <2>2, <2>4, <3>1 DEF BytesInv, AvailableHasItsBytes
    <3> QED
      BY <1>2, <3>1 DEF AvailableHasItsBytes
  <2>6. MarkedIsPublished'
    <3>1. ASSUME NEW v \in MediaWorkers, media'[v].pc = "mark", media'[v].file \notin swept,
                 (Outcome(media[v].file) = "pending")'
          PROVE  <<media'[v].file, "available">> \in disk /\ published[media'[v].file] = media'[v].size
      <4>1. v # w /\ media'[v] = media[v] /\ media[v].pc \in Deciding
        BY <1>3, <3>1 DEF Deciding
      <4>2. PICK g \in Files \ {f} : media[v].file = g
        BY <1>0, <1>1, <4>1, AttemptFile DEF LifeInv, AttemptsAreLeased
      <4>3. Outcome(g) = "pending"
        BY <2>2, <3>1, <4>1, <4>2 DEF Outcome
      <4> QED
        BY <3>1, <4>1, <4>2, <4>3 DEF BytesInv, MarkedIsPublished
    <3> QED
      BY <1>2, <3>1 DEF MarkedIsPublished
  <2>7. FilesTyped' /\ WritesForRows
    BY <1>2 DEF BytesInv, FilesTyped, WritesForRows
  <2> QED
    BY <2>5, <2>6, <2>7, FilesStayYoung DEF BytesKept
<1> QED
  BY <1>1, <1>5, <1>6 DEF MarkAvailable

\* The other steps of a worker.
LEMMA WorkerBytes ==
    ASSUME BytesInv, LifeInv', LifeStep, NEW w \in MediaWorkers,
           \/ \E f \in Files : ClaimReady(w, f)
           \/ ReadClaimed(w) \/ ScanFile(w) \/ Sanitize(w) \/ UnlinkSource(w) \/ RetryOrReject(w)
           \/ Reject(w) \/ WipeRejected(w) \/ DieScanning(w)
    PROVE  BytesKept
<1>0. LifeInv
  BY DEF BytesInv
<1>1. swept' = swept /\ upkeep' = upkeep
  BY DEF ClaimReady, ReadClaimed, ScanFile, Sanitize, UnlinkSource, RetryOrReject, Reject, WipeRejected,
         DieScanning, mediaOnly
<1>2. media'[w].pc # "mark" /\ \A v \in MediaWorkers \ {w} : media'[v] = media[v]
  <2>1. CASE \E f \in Files : ClaimReady(w, f)
    BY <1>0, <2>1 DEF ClaimReady, LifeInv, RowsTyped
  <2>2. CASE ReadClaimed(w) \/ ScanFile(w) \/ Sanitize(w) \/ UnlinkSource(w) \/ RetryOrReject(w)
             \/ Reject(w) \/ WipeRejected(w) \/ DieScanning(w)
    <3>1. media[w] \in Handling
      BY <1>0, <2>2 DEF ReadClaimed, ScanFile, Sanitize, UnlinkSource, RetryOrReject, Reject,
                        WipeRejected, DieScanning, At, LifeInv, RowsTyped
    <3>2. \/ \E next \in {"scan", "sanitize", "retry", "reject", "wipe"} : Goto(w, next)
          \/ Rest(w)
          \/ \E n \in FinalSizes : media' = [media EXCEPT ![w].pc = "replace", ![w].size = n]
      BY <2>2 DEF ReadClaimed, ScanFile, Sanitize, UnlinkSource, RetryOrReject, Reject,
                  WipeRejected, DieScanning
    <3> QED
      BY <1>0, <3>1, <3>2 DEF Goto, Rest, LifeInv, RowsTyped, Handling
  <2> QED
    BY <2>1, <2>2
<1>3. MarksGoOn
  BY <1>2 DEF MarksGoOn
<1>4. AvailableStays
  <2>1. att' = att \/ (\E f \in Files : ClaimReady(w, f)) \/ RetryOrReject(w) \/ Reject(w)
    BY DEF ReadClaimed, ScanFile, Sanitize, UnlinkSource, WipeRejected, DieScanning, mediaOnly
  <2> QED
    BY <1>0, <2>1, SizesStay
<1>5. CASE \/ \E f \in Files : ClaimReady(w, f)
           \/ ReadClaimed(w) \/ ScanFile(w) \/ RetryOrReject(w) \/ Reject(w) \/ DieScanning(w)
  <2>1. disk' = disk /\ published' = published /\ young' = young
    BY <1>5 DEF ClaimReady, ReadClaimed, ScanFile, RetryOrReject, Reject, DieScanning, mediaOnly
  <2> QED
    BY <1>1, <1>3, <1>4, <2>1, QuietBytes
<1>6. CASE Sanitize(w)
  <2>1. media[w].pc \in Deciding
    BY <1>6 DEF Sanitize, At, Deciding
  <2>2. PICK f \in Files : /\ media[w].file = f
                           /\ att[f].status = IF att[f].deleted THEN "deleted" ELSE "scanning"
    BY <1>0, <2>1, AttemptFile
  <2>3. CASE Write(f, "processing") /\ published' = published
    BY <1>1, <1>3, <1>4, <2>2, <2>3, WriteBytes DEF Directories
  <2>4. CASE Unlink({<<f, "processing">>})
    BY <1>1, <1>3, <1>4, <2>4, UnlinkBytes
  <2> QED
    BY <1>6, <2>2, <2>3, <2>4 DEF Sanitize
<1>7. CASE UnlinkSource(w)
  <2>1. Unlink({<<media[w].file, "staging">>})
    BY <1>7 DEF UnlinkSource
  <2> QED
    BY <1>1, <1>3, <1>4, <2>1, UnlinkBytes
<1>8. CASE WipeRejected(w)
  <2>1. PICK f \in Files : media[w].file = f
    BY <1>0, <1>8, FilesNamed DEF WipeRejected, At
  <2>2. Wipe(f) /\ Outcome(f) \in Final
    BY <1>8, <2>1 DEF WipeRejected, At, BytesInv, WipesAreFinal
  <2> QED
    BY <1>1, <1>3, <1>4, <2>2, WipeBytes
<1> QED
  BY <1>5, <1>6, <1>7, <1>8

\* The clean-up pass commits: what it does not know has no files yet, or no future.
LEMMA CommitBytes ==
    ASSUME BytesInv, LifeInv', LifeStep, CommitCleanup PROVE BytesKept
<1>0. LifeInv
  BY DEF BytesInv
<1>1. disk' = disk /\ published' = published /\ swept' = swept /\ young' = young /\ media' = media
      /\ upkeep.pc = "delete"
  BY DEF CommitCleanup
<1>2. AvailableStays /\ MarksGoOn /\ Spares
  BY <1>0, <1>1, SizesStay DEF MarksGoOn, Spares
<1>3. NewHasNoFiles'
  BY <1>1, FinalStays DEF BytesInv, NewHasNoFiles
<1>4. CASE upkeep' = [pc |-> "idle"]
  BY <1>1, <1>2, <1>3, <1>4, BytesStay
     DEF BytesKept, BytesInv, FilesTyped, OrphansSpareNew, AvailableStays, MarksGoOn
<1>5. CASE /\ att' = [f \in Files |-> IF Expired(f) THEN [att[f] EXCEPT !.status = "purged"] ELSE att[f]]
           /\ upkeep' = [pc |-> "files", keys |-> upkeep.keys, known |-> {f \in LiveFiles : ~Expired(f)}]
  <2>1. FilesTyped'
    BY <1>1, <1>5 DEF BytesInv, FilesTyped, LiveFiles
  <2>2. ASSUME NEW f \in Files, f \notin upkeep'.known, NEW d \in Directories, <<f, d>> \in disk
        PROVE  Outcome(f)' \in Final
    <3>1. att[f] \in AttachmentRow /\ att[f].status # "absent"
      BY <2>2 DEF BytesInv, NewHasNoFiles, LifeInv, RowsTyped
    <3>2. CASE Expired(f)
      <4>1. att'[f].status = "purged"
        BY <1>5, <3>1, <3>2, RowFields, RowNames
      <4> QED
        BY <4>1 DEF Outcome, Final
    <3>3. CASE ~Expired(f)
      <4>1. att'[f] = att[f]
        BY <1>5, <3>3
      <4>2. ~Live(f)
        BY <1>5, <2>2, <3>3 DEF LiveFiles
      <4>3. att[f].deleted \/ att[f].status \in {"rejected", "deleted", "purged"}
        BY <3>1, <4>2, RowNames DEF Live, Counted
      <4>4. att[f].status = "deleted" => att[f].deleted
        BY DEF BytesInv, LifeInv, DeletedRows
      <4> QED
        BY <3>1, <4>1, <4>3, <4>4 DEF Outcome, Final
    <3> QED
      BY <3>2, <3>3
  <2>3. OrphansSpareNew'
    BY <1>1, <2>2 DEF OrphansSpareNew
  <2> QED
    BY <1>2, <1>3, <2>1, <2>3, BytesStay DEF BytesKept, AvailableStays, MarksGoOn
<1> QED
  BY <1>4, <1>5 DEF CommitCleanup

\* The clean-up pass and its files.
LEMMA PassKeepsBytes ==
    ASSUME BytesInv, LifeInv', LifeStep, RemoveExpiredFiles \/ RemoveOrphans PROVE BytesKept
<1>1. att' = att /\ media' = media /\ AvailableStays /\ MarksGoOn
  BY SizesStay DEF RemoveExpiredFiles, RemoveOrphans, BytesInv, MarksGoOn
<1>2. CASE RemoveExpiredFiles
  <2>1. /\ upkeep.pc = "files" /\ upkeep' = [upkeep EXCEPT !.pc = "orphans"]
        /\ Unlink(upkeep.keys \X Directories)
        /\ swept' = swept \cup {f \in upkeep.keys : att[f].status # "purged"}
    BY <1>2 DEF RemoveExpiredFiles
  <2>2. ASSUME NEW f \in Files \ swept', <<f, "available">> \in upkeep.keys \X Directories
        PROVE  Outcome(f)' \in Final
    <3>1. att[f].status = "purged"
      BY <2>1, <2>2
    <3> QED
      BY <1>1, <3>1 DEF Outcome, Final
  <2> QED
    BY <1>1, <2>1, <2>2, UnlinkBytes
<1>3. CASE RemoveOrphans
  <2>1. /\ upkeep.pc = "orphans" /\ upkeep' = [pc |-> "idle"] /\ swept' = swept
        /\ Unlink(Orphans(upkeep.known))
    BY <1>3 DEF RemoveOrphans
  <2>2. ASSUME NEW f \in Files \ swept', <<f, "available">> \in Orphans(upkeep.known)
        PROVE  Outcome(f)' \in Final
    <3>1. /\ <<f, "available">> \in disk /\ <<f, "available">> \notin young /\ f \notin upkeep.known
      BY <2>2 DEF Orphans
    <3>2. "available" \in Directories
      BY DEF Directories
    <3>3. Outcome(f) \in Final
      BY <2>1, <3>1, <3>2 DEF BytesInv, OrphansSpareNew
    <3> QED
      BY <3>3, FinalStays
  <2> QED
    BY <1>1, <2>1, <2>2, UnlinkBytes
<1> QED
  BY <1>2, <1>3

\* Every step keeps the invariant of the bytes.
LEMMA BytesNext == ASSUME BytesInv, [AttachmentsNext]_attVars PROVE BytesInv'
<1>0. LifeInv
  BY DEF BytesInv
<1>1. LifeInv' /\ LifeStep
  BY <1>0, LifeNext
<1>2. WipesAreFinal'
  BY <1>1, WipesStep
<1>3. BytesKept
  <2>1. CASE UNCHANGED attVars
    BY <1>0, <1>1, <2>1, SizesStay, QuietBytes DEF attVars, MarksGoOn
  <2>2. CASE \E f \in Files : \/ \E n \in Sizes, g \in BOOLEAN : CreateAttachment(f, n, g)
                              \/ AttemptDue(f) \/ RowGrowsOld(f)
    <3>1. /\ disk' = disk /\ published' = published /\ young' = young /\ swept' = swept
          /\ upkeep' = upkeep /\ media' = media
      BY <2>2 DEF CreateAttachment, AttemptDue, RowGrowsOld
    <3>2. AvailableStays /\ MarksGoOn
      BY <1>0, <2>2, <3>1, SizesStay DEF AttemptDue, MarksGoOn
    <3> QED
      BY <1>1, <3>1, <3>2, QuietBytes
  <2>3. CASE \E p \in Files \X Directories : FileGrowsOld(p)
    <3>1. /\ disk' = disk /\ published' = published /\ swept' = swept /\ att' = att /\ media' = media
          /\ upkeep' = upkeep /\ upkeep.pc = "idle"
      BY <2>3 DEF FileGrowsOld
    <3> QED
      BY <1>1, <3>1, PassBytes
  <2>4. CASE \E r \in Requests :
          \/ \E f \in Files, kind \in {"append", "delete"} : ReadForRequest(r, f, kind)
          \/ CommitChunk(r) \/ LoseChunk(r) \/ RefuseChunk(r)
          \/ CommitDelete(r) \/ WipeDeleted(r) \/ DieDeleting(r)
    BY <1>1, <2>4, RequestBytes
  <2>5. CASE \E w \in MediaWorkers : WorkerStep(w) \/ DieScanning(w)
    BY <1>1, <2>5, WorkerBytes, ReplaceBytes, MarkBytes DEF WorkerStep
  <2>6. CASE SelectExpired \/ DieCleaning
    <3>1. /\ disk' = disk /\ published' = published /\ swept' = swept /\ att' = att /\ media' = media
          /\ \/ upkeep' = [pc |-> "delete", keys |-> {f \in Files : Expired(f)}]
             \/ upkeep' = [pc |-> "idle"]
      BY <2>6 DEF SelectExpired, DieCleaning
    <3> QED
      BY <1>1, <3>1, PassBytes
  <2>7. CASE CommitCleanup \/ RemoveExpiredFiles \/ RemoveOrphans
    BY <1>1, <2>7, CommitBytes, PassKeepsBytes
  <2> QED
    BY <2>1, <2>2, <2>3, <2>4, <2>5, <2>6, <2>7 DEF AttachmentsNext, UpkeepStep
<1> QED
  BY <1>1, <1>2, <1>3 DEF BytesInv, BytesKept

\* What download_attachment serves is on the disk with its recorded size, although files
\* are written, renamed and removed outside the transactions and every actor may die in
\* between: the bytes of an attachment are removed only once its outcome is final.
THEOREM BytesAreServed == AttachmentsSpec => []AvailableHasItsBytes
<1>1. AttachmentsSpec => []BytesInv
  BY BytesInitInv, BytesNext, PTL DEF AttachmentsSpec
<1>2. BytesInv => AvailableHasItsBytes
  BY DEF BytesInv
<1> QED
  BY <1>1, <1>2, PTL

-----------------------------------------------------------------------------
(* Attachments: the counter of reserved bytes.                              *)

\* What a row counts for.
RowBytes(row) == IF row.status \in Counted /\ ~row.deleted THEN row.size ELSE 0

AccountInv ==
    /\ LifeInv /\ IsFiniteSet(Bytes(LiveFiles))
    /\ reserved \in Int /\ AccountingIsExact

LEMMA KeptIsRowBytes == \A f : KeptBytes(f) = RowBytes(att[f])
BY DEF KeptBytes, Live, RowBytes

LEMMA BytesOfOne ==
    ASSUME NEW f, NEW n \in Nat
    PROVE  IsFiniteSet({f} \X (1..n)) /\ Cardinality({f} \X (1..n)) = n
<1>1. IsFiniteSet({f}) /\ Cardinality({f}) = 1
  BY FS_Singleton
<1>2. IsFiniteSet(1..n) /\ Cardinality(1..n) = n
  BY FS_Interval
<1>3. Cardinality({f} \X (1..n)) = Cardinality({f}) * Cardinality(1..n) /\ IsFiniteSet({f} \X (1..n))
  BY <1>1, <1>2, FS_Product
<1> QED BY <1>1, <1>2, <1>3

\* When one row changes, the bytes that are kept change by what it counts for.
LEMMA OneRowCounted ==
    ASSUME RowsTyped, RowsTyped', NEW f \in Files, \A g \in Files \ {f} : att'[g] = att[g],
           IsFiniteSet(Bytes(LiveFiles))
    PROVE  /\ IsFiniteSet(Bytes(LiveFiles)')
           /\ Total(LiveFiles) \in Nat
           /\ Total(LiveFiles)' = Total(LiveFiles) - RowBytes(att[f]) + RowBytes(att'[f])
<1> DEFINE Others == Bytes(LiveFiles \ {f})
           Own  == {f} \X (1..RowBytes(att[f]))
           New  == {f} \X (1..RowBytes(att'[f]))
<1>1. att[f].size \in Nat /\ att'[f].size \in Nat
  BY DEF RowsTyped, AttachmentRow
<1>2. RowBytes(att[f]) \in Nat /\ RowBytes(att'[f]) \in Nat
  BY <1>1 DEF RowBytes
<1>3. Bytes(LiveFiles) = Others \cup Own
  <2>1. CASE Live(f)
    <3>1. RowBytes(att[f]) = att[f].size
      BY <2>1 DEF Live, RowBytes
    <3>2. LiveFiles = (LiveFiles \ {f}) \cup {f}
      BY <2>1 DEF LiveFiles
    <3> QED BY <3>1, <3>2 DEF Bytes
  <2>2. CASE ~Live(f)
    <3>1. RowBytes(att[f]) = 0
      BY <2>2 DEF Live, RowBytes
    <3>2. LiveFiles = LiveFiles \ {f}
      BY <2>2 DEF LiveFiles
    <3>3. Own = {}
      BY <3>1
    <3> HIDE DEF Own
    <3> QED BY <3>2, <3>3
  <2> QED BY <2>1, <2>2
<1>4. Bytes(LiveFiles)' = Others \cup New
  <2>0. \A g \in Files \ {f} : Live(g)' = Live(g)
    BY DEF Live
  <2>1. LiveFiles' \ {f} = LiveFiles \ {f}
    BY <2>0 DEF LiveFiles
  <2>2. UNION {{g} \X (1..att'[g].size) : g \in LiveFiles' \ {f}} = Others
    <3>1. \A g \in LiveFiles \ {f} : att'[g] = att[g]
      BY DEF LiveFiles
    <3> QED BY <2>1, <3>1 DEF Bytes
  <2> HIDE DEF Others
  <2>3. CASE Live(f)'
    <3>1. RowBytes(att'[f]) = att'[f].size
      BY <2>3 DEF Live, RowBytes
    <3>2. f \in LiveFiles'
      BY <2>3 DEF LiveFiles
    <3> DEFINE All   == UNION {{g} \X (1..att'[g].size) : g \in LiveFiles'}
               Other == UNION {{g} \X (1..att'[g].size) : g \in LiveFiles' \ {f}}
               Its   == {f} \X (1..att'[f].size)
    <3>3. Bytes(LiveFiles)' = All
      BY DEF Bytes
    <3>4. All = Other \cup Its
      <4>1. Other \subseteq All /\ Its \subseteq All
        BY <3>2
      <4>2. ASSUME NEW x \in All PROVE x \in Other \cup Its
        <5>1. PICK g \in LiveFiles' : x \in {g} \X (1..att'[g].size)
          BY <4>2
        <5>2. CASE g = f
          BY <5>1, <5>2
        <5>3. CASE g # f
          BY <5>1, <5>3
        <5> QED BY <5>2, <5>3
      <4> HIDE DEF All, Other, Its
      <4> QED BY <4>1, <4>2
    <3>5. Other = Others /\ New = Its
      BY <2>2, <3>1
    <3> HIDE DEF New, All, Other, Its
    <3> QED BY <3>3, <3>4, <3>5
  <2>4. CASE ~Live(f)'
    <3>1. RowBytes(att'[f]) = 0
      BY <2>4 DEF Live, RowBytes
    <3>2. LiveFiles' = LiveFiles' \ {f}
      BY <2>4 DEF LiveFiles
    <3>3. New = {}
      BY <3>1
    <3> HIDE DEF New
    <3>4. Bytes(LiveFiles)' = UNION {{g} \X (1..att'[g].size) : g \in LiveFiles'}
      BY DEF Bytes
    <3> QED BY <2>2, <3>2, <3>3, <3>4
  <2> QED BY <2>3, <2>4
<1>5. Others \cap Own = {} /\ Others \cap New = {}
  BY DEF Bytes
<1>6. /\ IsFiniteSet(Own) /\ Cardinality(Own) = RowBytes(att[f])
      /\ IsFiniteSet(New) /\ Cardinality(New) = RowBytes(att'[f])
  BY <1>2, BytesOfOne
<1> HIDE DEF Others, Own, New
<1>7. IsFiniteSet(Others) /\ Cardinality(Others) \in Nat
  BY <1>3, FS_Subset, FS_CardinalityType
<1>8. /\ Cardinality(Others \cup Own) = Cardinality(Others) + Cardinality(Own)
      /\ IsFiniteSet(Others \cup New)
      /\ Cardinality(Others \cup New) = Cardinality(Others) + Cardinality(New)
  <2>1. Cardinality({}) = 0
    BY FS_EmptySet
  <2>2. /\ Cardinality(Others \cup Own) = Cardinality(Others) + Cardinality(Own) - Cardinality(Others \cap Own)
        /\ IsFiniteSet(Others \cup New)
        /\ Cardinality(Others \cup New) = Cardinality(Others) + Cardinality(New) - Cardinality(Others \cap New)
    BY <1>6, <1>7, FS_Union
  <2>3. Cardinality(Others \cap Own) = 0 /\ Cardinality(Others \cap New) = 0
    BY <1>5, <2>1
  <2> QED BY <1>2, <1>6, <1>7, <2>2, <2>3
<1>9. Total(LiveFiles) = Cardinality(Bytes(LiveFiles)) /\ Total(LiveFiles)' = Cardinality(Bytes(LiveFiles)')
  BY DEF Total
<1> QED BY <1>2, <1>3, <1>4, <1>6, <1>7, <1>8, <1>9

\* A step on one row that accounts for it.
Accounts(old, new) ==
    /\ reserved' \in Int
    /\ ~drifted' => ~drifted /\ reserved' = reserved - RowBytes(old) + RowBytes(new)

LEMMA RowAccounted ==
    ASSUME AccountInv, LifeInv', NEW f \in Files, NEW row, att' = [att EXCEPT ![f] = row],
           Accounts(att[f], row)
    PROVE  AccountInv'
<1>1. RowsTyped /\ RowsTyped' /\ att'[f] = row /\ \A g \in Files \ {f} : att'[g] = att[g]
  BY DEF AccountInv, LifeInv, RowsTyped
<1>2. /\ IsFiniteSet(Bytes(LiveFiles)')
      /\ Total(LiveFiles) \in Nat
      /\ Total(LiveFiles)' = Total(LiveFiles) - RowBytes(att[f]) + RowBytes(att'[f])
  BY <1>1, OneRowCounted DEF AccountInv
<1>3. AccountingIsExact'
  BY <1>1, <1>2 DEF AccountInv, AccountingIsExact, Accounts
<1> QED BY <1>2, <1>3 DEF AccountInv, Accounts

\* A step that leaves the rows and the counter alone.
LEMMA RowsUncounted ==
    ASSUME AccountInv, LifeInv', att' = att, reserved' = reserved, drifted' = drifted
    PROVE  AccountInv'
<1>1. LiveFiles' = LiveFiles
  BY DEF LiveFiles, Live
<1>2. Bytes(LiveFiles)' = Bytes(LiveFiles)
  BY <1>1 DEF Bytes
<1> QED BY <1>1, <1>2 DEF AccountInv, AccountingIsExact, Total

LEMMA CreateAccounted ==
    ASSUME AccountInv, LifeInv', NEW f \in Files, NEW n \in Sizes, NEW g \in BOOLEAN,
           CreateAttachment(f, n, g)
    PROVE  AccountInv'
<1> DEFINE row == [status |-> "uploading", deleted |-> FALSE, size |-> n, uploaded |-> 0,
                   genuine |-> g, old |-> FALSE]
<1>1. RowBytes(att[f]) = 0 /\ RowBytes(row) = n /\ n \in Nat
  BY AttachmentNumbers DEF CreateAttachment, RowBytes, Counted
<1>2. att' = [att EXCEPT ![f] = row] /\ reserved' = reserved + n /\ drifted' = drifted
  BY DEF CreateAttachment
<1>3. Accounts(att[f], row)
  BY <1>1, <1>2 DEF Accounts, AccountInv
<1> QED BY <1>2, <1>3, RowAccounted

LEMMA RequestFile ==
    ASSUME AccountInv, NEW r \in Requests, requests[r].pc # "idle"
    PROVE  /\ requests[r].file \in Files /\ requests[r].size \in Nat
           /\ att[requests[r].file].status # "absent"
           /\ att[requests[r].file] \in AttachmentRow
BY DEF AccountInv, LifeInv, RowsTyped, Reading, RequestsRefer

LEMMA ChunkAccounted ==
    ASSUME AccountInv, LifeInv', NEW r \in Requests, CommitChunk(r)
    PROVE  AccountInv'
<1>0. PICK seen \in Reading, f \in Files : seen = requests[r] /\ f = seen.file
  BY DEF CommitChunk, AccountInv, LifeInv, RowsTyped, Reading
<1> DEFINE last == LastChunk(seen)
           bad == FailsDigest(seen)
           next == IF bad THEN "rejected" ELSE IF last THEN "pending_scan" ELSE att[f].status
           row == Grown(att[f], seen.uploaded + 1, next)
<1>1. /\ seen.size \in Nat /\ att[f] \in AttachmentRow /\ att[f].size \in Nat
      /\ att[f].status \notin {"absent", "purged"}
  BY <1>0 DEF CommitChunk, AccountInv, LifeInv, RowsTyped, RequestsRefer, Reading, AttachmentRow
<1>2. att' = [att EXCEPT ![f] = row]
  BY <1>0, <1>1 DEF CommitChunk, AccountInv, LifeInv, RowsTyped, AttachmentRow, Grown
<1>3. row.status = next /\ row.deleted = att[f].deleted /\ row.size = att[f].size
  BY <1>1 DEF AttachmentRow, Grown
<1> HIDE DEF row
<1>4. CASE bad
  <2>1. reserved' = reserved - seen.size /\ drifted' = (drifted \/ seen.size # KeptBytes(f))
    BY <1>0, <1>4 DEF CommitChunk
  <2>2. RowBytes(row) = 0
    BY <1>3, <1>4 DEF RowBytes, Counted
  <2>3. RowBytes(att[f]) = KeptBytes(f) /\ reserved \in Int
    BY KeptIsRowBytes DEF AccountInv
  <2>4. ASSUME ~drifted' PROVE ~drifted /\ seen.size = KeptBytes(f)
    BY <2>1, <2>4, Zenon
  <2>5. Accounts(att[f], row)
    <3>1. reserved' \in Int
      BY <1>1, <2>1, <2>3
    <3>2. ASSUME ~drifted' PROVE reserved' = reserved - RowBytes(att[f]) + RowBytes(row)
      BY <1>1, <2>1, <2>2, <2>3, <2>4, <3>2
    <3> QED BY <2>4, <3>1, <3>2 DEF Accounts
  <2> QED BY <1>2, <2>5, RowAccounted
<1>5. CASE ~bad
  <2>1. reserved' = reserved /\ (~drifted' => ~drifted)
    <3>1. reserved' = reserved
      BY <1>0, <1>5 DEF CommitChunk
    <3>2. drifted' = (drifted \/ (FALSE /\ seen.size # KeptBytes(f)))
      BY <1>0, <1>5, Zenon DEF CommitChunk
    <3>3. ASSUME ~drifted' PROVE ~drifted
      BY <3>2, <3>3, Zenon
    <3> QED BY <3>1, <3>3
  <2>2. RowBytes(row) = RowBytes(att[f])
    <3>1. CASE ~last
      BY <1>3, <1>5, <3>1 DEF RowBytes
    <3>2. CASE last /\ att[f].deleted
      BY <1>3, <3>2 DEF RowBytes
    <3>3. CASE last /\ ~att[f].deleted
      <4>1. job[f].status = "none"
        BY <1>0, <1>5, <3>3 DEF CommitChunk
      <4>2. att[f].genuine
        BY <1>0, <1>5, <3>3 DEF FailsDigest
      <4>3. att[f].status = "uploading"
        BY <1>1, <3>3, <4>1, <4>2 DEF AccountInv, LifeInv, JobsFollowUploads, PastUpload
      <4> QED BY <1>3, <1>5, <3>3, <4>3 DEF RowBytes, Counted
    <3> QED BY <3>1, <3>2, <3>3
  <2>3. Accounts(att[f], row)
    <3>1. RowBytes(att[f]) \in Nat
      BY <1>1 DEF RowBytes, AttachmentRow
    <3> QED BY <2>1, <2>2, <3>1 DEF Accounts, AccountInv
  <2> QED BY <1>2, <2>3, RowAccounted
<1> QED BY <1>4, <1>5

LEMMA DeleteAccounted ==
    ASSUME AccountInv, LifeInv', NEW d \in Requests, CommitDelete(d)
    PROVE  AccountInv'
<1> DEFINE seen == requests[d]
           f == seen.file
           delta == IF seen.status \in Counted THEN -seen.size ELSE 0
           row == [att[f] EXCEPT !.status = "deleted", !.deleted = TRUE, !.old = FALSE]
<1>1. f \in Files /\ seen.size \in Nat /\ att[f] \in AttachmentRow
  BY RequestFile DEF CommitDelete
<1>2. CASE att' = att /\ reserved' = reserved /\ drifted' = drifted
  BY <1>2, RowsUncounted
<1>3. CASE CanAdjust(delta) /\ att[f].status # "purged"
  <2>1. /\ att' = [att EXCEPT ![f] = row]
        /\ reserved' = reserved + delta
        /\ drifted' = (drifted \/ delta # -KeptBytes(f))
    BY <1>3 DEF CommitDelete
  <2>2. row.deleted = TRUE
    BY <1>1 DEF AttachmentRow
  <2> HIDE DEF row
  <2>3. RowBytes(row) = 0
    BY <2>2 DEF RowBytes
  <2>4. RowBytes(att[f]) \in Nat /\ delta \in Int
    BY <1>1 DEF RowBytes, AttachmentRow
  <2> HIDE DEF delta
  <2>5. Accounts(att[f], row)
    <3>1. RowBytes(att[f]) = KeptBytes(f) /\ reserved \in Int
      BY KeptIsRowBytes DEF AccountInv
    <3>2. reserved' \in Int
      BY <2>1, <2>4, <3>1
    <3>3. ASSUME ~drifted' PROVE ~drifted /\ delta = -KeptBytes(f)
      BY <2>1, <3>3, Zenon
    <3>4. ASSUME ~drifted' PROVE reserved' = reserved - RowBytes(att[f]) + RowBytes(row)
      BY <2>1, <2>3, <2>4, <3>1, <3>3, <3>4
    <3> QED BY <3>2, <3>3, <3>4 DEF Accounts
  <2> QED BY <1>1, <2>1, <2>5, RowAccounted
<1> QED BY <1>2, <1>3 DEF CommitDelete

\* A row in the hands of an attempt counts unless it has been deleted.
LEMMA AttemptCounts ==
    ASSUME AccountInv, NEW w \in MediaWorkers, media[w].pc \in Deciding
    PROVE  LET f == media[w].file IN
           /\ f \in Files /\ att[f] \in AttachmentRow /\ att[f].size \in Nat
           /\ media[w].size \in Nat
           /\ att[f].status \in {"scanning", "deleted"}
           /\ att[f].deleted <=> att[f].status = "deleted"
<1>1. media[w].file \in Files /\ media[w].size \in Nat
  BY DEF AccountInv, LifeInv, RowsTyped, Handling, Deciding
<1> QED BY <1>1 DEF AccountInv, LifeInv, RowsTyped, AttemptsAreLeased, AttachmentRow

\* A step of a worker that changes the status of a row between two that count alike.
LEMMA StatusAccounted ==
    ASSUME AccountInv, LifeInv', NEW f \in Files, NEW s, NEW b,
           att' = [att EXCEPT ![f] = [@ EXCEPT !.status = s, !.old = b]],
           att[f].deleted \/ (s \in Counted <=> att[f].status \in Counted),
           reserved' = reserved, drifted' = drifted
    PROVE  AccountInv'
<1> DEFINE row == [att[f] EXCEPT !.status = s, !.old = b]
<1>1. att[f] \in AttachmentRow
  BY DEF AccountInv, LifeInv, RowsTyped
<1>2. row.status = s /\ row.deleted = att[f].deleted /\ row.size = att[f].size
  BY <1>1 DEF AttachmentRow
<1>3. att' = [att EXCEPT ![f] = row]
  OBVIOUS
<1> HIDE DEF row
<1>4. RowBytes(row) = RowBytes(att[f]) /\ RowBytes(att[f]) \in Nat
  BY <1>1, <1>2 DEF RowBytes, AttachmentRow
<1>5. Accounts(att[f], row)
  BY <1>4 DEF Accounts, AccountInv
<1> QED BY <1>3, <1>5, RowAccounted

LEMMA ClaimAccounted ==
    ASSUME AccountInv, LifeInv', NEW w \in MediaWorkers, NEW f \in Files, ClaimReady(w, f)
    PROVE  AccountInv'
<1>1. /\ att' = [att EXCEPT ![f] = [@ EXCEPT !.status = "scanning", !.old = FALSE]]
      /\ reserved' = reserved /\ drifted' = drifted
      /\ att[f].status \in {"pending_scan", "scanning"}
  BY DEF ClaimReady, Ready
<1> QED BY <1>1, StatusAccounted DEF Counted

LEMMA MarkAccounted ==
    ASSUME AccountInv, LifeInv', NEW w \in MediaWorkers, MarkAvailable(w)
    PROVE  AccountInv'
<1> DEFINE f == media[w].file
           delta == media[w].size - att[f].size
           row == [att[f] EXCEPT !.status = "available", !.size = media[w].size,
                                 !.uploaded = media[w].size, !.old = FALSE]
<1>1. CASE att' = att /\ reserved' = reserved
  BY <1>1, RowsUncounted DEF MarkAvailable
<1>2. CASE ~(att' = att /\ reserved' = reserved)
  <2>1. /\ att[f].status = "scanning" /\ At(w, "mark") /\ drifted' = drifted
        /\ att' = [att EXCEPT ![f] = row] /\ reserved' = reserved + delta
    BY <1>2 DEF MarkAvailable, Markable
  <2>2. f \in Files /\ att[f] \in AttachmentRow /\ att[f].size \in Nat /\ media[w].size \in Nat
        /\ ~att[f].deleted
    BY <2>1, AttemptCounts DEF At, Deciding
  <2>3. row.status = "available" /\ row.deleted = att[f].deleted /\ row.size = media[w].size
    BY <2>2 DEF AttachmentRow
  <2> HIDE DEF row
  <2>4. RowBytes(row) = media[w].size /\ RowBytes(att[f]) = att[f].size
    BY <2>1, <2>2, <2>3 DEF RowBytes, Counted
  <2>5. Accounts(att[f], row)
    BY <2>1, <2>2, <2>4 DEF Accounts, AccountInv
  <2> QED BY <2>1, <2>2, <2>5, RowAccounted
<1> QED BY <1>1, <1>2

LEMMA RetryAccounted ==
    ASSUME AccountInv, LifeInv', NEW w \in MediaWorkers, RetryOrReject(w)
    PROVE  AccountInv'
<1> DEFINE f == media[w].file
<1>1. CASE att' = att
  BY <1>1, RowsUncounted DEF RetryOrReject
<1>2. CASE att' # att
  <2>1. /\ att' = [att EXCEPT ![f] = [@ EXCEPT !.status = "pending_scan", !.old = FALSE]]
        /\ reserved' = reserved /\ drifted' = drifted /\ At(w, "retry")
    BY <1>2 DEF RetryOrReject
  <2>2. f \in Files /\ (att[f].deleted \/ att[f].status = "scanning")
    BY <2>1, AttemptCounts DEF At, Deciding
  <2> QED BY <2>1, <2>2, StatusAccounted DEF Counted
<1> QED BY <1>1, <1>2

LEMMA RejectAccounted ==
    ASSUME AccountInv, LifeInv', NEW w \in MediaWorkers, Reject(w)
    PROVE  AccountInv'
<1> DEFINE f == media[w].file
           row == [att[f] EXCEPT !.status = "rejected", !.old = FALSE]
<1>1. CASE att' = att /\ reserved' = reserved
  BY <1>1, RowsUncounted DEF Reject
<1>2. CASE ~(att' = att /\ reserved' = reserved)
  <2>1. /\ att' = [att EXCEPT ![f] = row] /\ At(w, "reject")
        /\ reserved' = reserved - RejectedBytes(f) /\ drifted' = drifted
    BY <1>2 DEF Reject
  <2>2. /\ f \in Files /\ att[f] \in AttachmentRow /\ att[f].size \in Nat
        /\ att[f].status \in {"scanning", "deleted"}
        /\ att[f].deleted <=> att[f].status = "deleted"
    BY <2>1, AttemptCounts DEF At, Deciding
  <2>3. row.status = "rejected"
    BY <2>2 DEF AttachmentRow
  <2> HIDE DEF row
  <2>4. RowBytes(row) = 0 /\ RowBytes(att[f]) = RejectedBytes(f) /\ RejectedBytes(f) \in Nat
    BY <2>2, <2>3 DEF RowBytes, RejectedBytes, Counted
  <2>5. Accounts(att[f], row)
    BY <2>1, <2>4 DEF Accounts, AccountInv
  <2> QED BY <2>1, <2>2, <2>5, RowAccounted
<1> QED BY <1>1, <1>2

LEMMA OldAccounted ==
    ASSUME AccountInv, LifeInv', NEW f \in Files, RowGrowsOld(f)
    PROVE  AccountInv'
<1> DEFINE row == [att[f] EXCEPT !.old = TRUE]
<1>1. att' = [att EXCEPT ![f] = row] /\ reserved' = reserved /\ drifted' = drifted
  BY DEF RowGrowsOld
<1>2. att[f] \in AttachmentRow
  BY DEF AccountInv, LifeInv, RowsTyped
<1>3. row.status = att[f].status /\ row.deleted = att[f].deleted /\ row.size = att[f].size
  BY <1>2 DEF AttachmentRow
<1> HIDE DEF row
<1>4. RowBytes(row) = RowBytes(att[f]) /\ RowBytes(att[f]) \in Nat
  BY <1>2, <1>3 DEF RowBytes, AttachmentRow
<1>5. Accounts(att[f], row)
  BY <1>1, <1>4 DEF Accounts, AccountInv
<1> QED BY <1>1, <1>5, RowAccounted

\* reconcile_storage counts what its DELETEs leave.
LEMMA CleanupAccounted ==
    ASSUME AccountInv, LifeInv', CommitCleanup
    PROVE  AccountInv'
<1> DEFINE spared == {f \in LiveFiles : ~Expired(f)}
<1>1. CASE att' = att /\ reserved' = reserved /\ drifted' = drifted
  BY <1>1, RowsUncounted
<1>2. CASE /\ att' = [f \in Files |-> IF Expired(f) THEN [att[f] EXCEPT !.status = "purged"]
                                      ELSE att[f]]
           /\ reserved' = Total(spared) /\ drifted' = FALSE
  <2>1. \A f \in Files : att[f] \in AttachmentRow
    BY DEF AccountInv, LifeInv, RowsTyped
  <2>2. \A f \in Files : Expired(f) => ~Live(f)'
    <3> SUFFICES ASSUME NEW f \in Files, Expired(f) PROVE ~Live(f)'
      OBVIOUS
    <3>1. att'[f] = [att[f] EXCEPT !.status = "purged"]
      BY <1>2
    <3>2. att'[f].status = "purged"
      BY <2>1, <3>1 DEF AttachmentRow
    <3> QED BY <3>2 DEF Live, Counted
  <2>3. \A f \in Files : ~Expired(f) => att'[f] = att[f] /\ (Live(f)' <=> Live(f))
    BY <1>2 DEF Live
  <2>4. LiveFiles' = spared
    BY <2>2, <2>3 DEF LiveFiles
  <2>5. \A f \in spared : att'[f] = att[f]
    BY <2>3 DEF LiveFiles
  <2> HIDE DEF spared
  <2>6. Bytes(LiveFiles)' = Bytes(spared)
    BY <2>4, <2>5 DEF Bytes
  <2>7. Bytes(spared) \in SUBSET Bytes(LiveFiles)
    BY DEF Bytes, spared
  <2>8. IsFiniteSet(Bytes(spared)) /\ Cardinality(Bytes(spared)) \in Nat
    BY <2>7, FS_Subset, FS_CardinalityType DEF AccountInv
  <2>9. Total(LiveFiles)' = Cardinality(Bytes(LiveFiles)') /\ Total(spared) = Cardinality(Bytes(spared))
    BY DEF Total
  <2>10. AccountingIsExact'
    BY <1>2, <2>6, <2>9 DEF AccountingIsExact
  <2> QED BY <1>2, <2>6, <2>8, <2>9, <2>10 DEF AccountInv
<1> QED BY <1>1, <1>2 DEF CommitCleanup

LEMMA AccountNext == ASSUME AccountInv, [AttachmentsNext]_attVars PROVE AccountInv'
<1>0. LifeInv'
  BY LifeNext DEF AccountInv
<1>1. CASE UNCHANGED attVars
  BY <1>0, <1>1, RowsUncounted DEF attVars
<1>2. CASE \E f \in Files : \/ \E n \in Sizes, g \in BOOLEAN : CreateAttachment(f, n, g)
                            \/ AttemptDue(f) \/ RowGrowsOld(f)
  BY <1>0, <1>2, CreateAccounted, OldAccounted, RowsUncounted DEF AttemptDue
<1>3. CASE \E p \in Files \X Directories : FileGrowsOld(p)
  BY <1>0, <1>3, RowsUncounted DEF FileGrowsOld
<1>4. CASE \E r \in Requests :
          \/ \E f \in Files, kind \in {"append", "delete"} : ReadForRequest(r, f, kind)
          \/ CommitChunk(r) \/ LoseChunk(r) \/ RefuseChunk(r)
          \/ CommitDelete(r) \/ WipeDeleted(r) \/ DieDeleting(r)
  <2>1. PICK r \in Requests :
          \/ \E f \in Files, kind \in {"append", "delete"} : ReadForRequest(r, f, kind)
          \/ CommitChunk(r) \/ LoseChunk(r) \/ RefuseChunk(r)
          \/ CommitDelete(r) \/ WipeDeleted(r) \/ DieDeleting(r)
    BY <1>4
  <2>2. CASE CommitChunk(r) \/ CommitDelete(r)
    BY <1>0, <2>2, ChunkAccounted, DeleteAccounted
  <2>3. CASE ~(CommitChunk(r) \/ CommitDelete(r))
    BY <1>0, <2>1, <2>3, RowsUncounted
       DEF ReadForRequest, LoseChunk, RefuseChunk, WipeDeleted, DieDeleting
  <2> QED BY <2>2, <2>3
<1>5. CASE \E w \in MediaWorkers : WorkerStep(w) \/ DieScanning(w)
  <2>1. PICK w \in MediaWorkers : WorkerStep(w) \/ DieScanning(w)
    BY <1>5
  <2>2. CASE ReadClaimed(w) \/ ScanFile(w) \/ Sanitize(w) \/ Replace(w) \/ UnlinkSource(w)
             \/ WipeRejected(w) \/ DieScanning(w)
    BY <1>0, <2>2, RowsUncounted
       DEF ReadClaimed, ScanFile, Sanitize, Replace, UnlinkSource, WipeRejected, DieScanning, mediaOnly
  <2>3. CASE \E f \in Files : ClaimReady(w, f)
    BY <1>0, <2>3, ClaimAccounted
  <2>4. CASE MarkAvailable(w) \/ RetryOrReject(w) \/ Reject(w)
    BY <1>0, <2>4, MarkAccounted, RetryAccounted, RejectAccounted
  <2> QED BY <2>1, <2>2, <2>3, <2>4 DEF WorkerStep
<1>6. CASE UpkeepStep \/ DieCleaning
  BY <1>0, <1>6, CleanupAccounted, RowsUncounted
     DEF UpkeepStep, SelectExpired, RemoveExpiredFiles, RemoveOrphans, DieCleaning
<1> QED
  BY <1>1, <1>2, <1>3, <1>4, <1>5, <1>6 DEF AttachmentsNext

\* What is kept can be served and is counted, to the byte: the counter follows every
\* reservation, rejection, changed size and deletion, unless a request released bytes of a row
\* that had changed since it read it (attachment_quota.py, attachment_media.py,
\* routes/attachments.py).
THEOREM AttachmentsKept == AttachmentsSpec => []AttachmentsAreKept
<1>1. AttachmentsInit => AccountInv
  <2> SUFFICES ASSUME AttachmentsInit PROVE AccountInv
    OBVIOUS
  <2>1. LiveFiles = {}
    BY DEF AttachmentsInit, LiveFiles, Live, Counted
  <2>2. Bytes(LiveFiles) = {}
    BY <2>1 DEF Bytes
  <2>3. IsFiniteSet({}) /\ Cardinality({}) = 0
    BY FS_EmptySet
  <2> QED BY <2>2, <2>3, LifeInitInv DEF AccountInv, AccountingIsExact, Total, AttachmentsInit
<1>2. AttachmentsSpec => []AccountInv
  BY <1>1, AccountNext, PTL DEF AttachmentsSpec
<1>3. AttachmentsSpec => []BytesInv
  BY BytesInitInv, BytesNext, PTL DEF AttachmentsSpec
<1>4. AccountInv /\ BytesInv => AttachmentsAreKept
  BY DEF AccountInv, BytesInv, AttachmentsAreKept
<1> QED BY <1>2, <1>3, <1>4, PTL

-----------------------------------------------------------------------------
(* The library.                                                             *)

\* A non-empty set of slots has a least one.
LEMMA LeastSlot ==
    ASSUME NEW S \in SUBSET Nat, S # {}
    PROVE  Min(S) \in S /\ \A m \in S : Min(S) <= m
<1>1. IsWellFoundedOn(OpToRel(<, Nat), Nat)
  BY NatLessThanWellFounded
<1>2. PICK x \in S : \A y \in S : ~(<<y, x>> \in OpToRel(<, Nat))
  BY <1>1, WFMin
<1>3. \A y \in S : <<y, x>> \in OpToRel(<, Nat) <=> y < x
  BY Zenon DEF OpToRel
<1>4. \A y \in S : ~(y < x)
  BY <1>2, <1>3, Zenon
<1>5. \A y \in S : x <= y
  BY <1>4
<1> QED BY <1>5 DEF Min
-----------------------------------------------------------------------------
(* The rows.                                                                *)

Taken(n) == shelf[n].life # "empty"

\* Slots are taken in order, so later notes stand in higher ones.
SlotsInOrder == \A n, m \in ShelfSlots : n < m /\ Taken(m) => Taken(n)

\* What is in a row was put there, and a row that nobody touched is as it was born.
RowsRemember ==
    \A n \in ShelfSlots :
        /\ Taken(n) => shelf[n].text \in shelf[n].ever
        /\ Stored(n) /\ Untouched(n) => shelf[n].updated = shelf[n].born

\* An archived note is purged after the whole window.
ArchivesAreTimed ==
    \A n \in ShelfSlots : Stored(n) /\ shelf[n].purgeAfter > 0 =>
        /\ shelf[n].archivedAt > 0
        /\ shelf[n].purgeAfter = shelf[n].archivedAt + UndoWindow

Documents ==
    [open : BOOLEAN, note : 0..MaxShelf, op : 0..MaxOperations, text : Texts, saved : Texts,
     kept : Texts]

LibraryTyped ==
    /\ libTime \in 0..LibraryEnd
    /\ shelf \in [ShelfSlots -> Rows]
    /\ desk \in Documents
    /\ createCalls \subseteq [op : 0..MaxOperations, text : Texts, answer : 0..MaxShelf]
    /\ late \subseteq [op : 0..MaxOperations, text : Texts]
    /\ sweep \subseteq ShelfSlots
    /\ written \in 0..MaxTexts /\ named \in 0..MaxOperations

\* The document and the answers on their way name notes that exist.
AnswersName ==
    /\ desk.note # 0 => Taken(desk.note)
    /\ \A c \in createCalls : c.answer # 0 => Taken(c.answer)

LibraryInv ==
    /\ LibraryTyped /\ SlotsInOrder /\ RowsRemember /\ ArchivesAreTimed /\ AnswersName
    /\ OneNotePerIdentity /\ NoTwinNotes /\ SavedMeansStored /\ NothingPurgedEarly

\* The numbers of the model.
LEMMA LibraryNumbers ==
    /\ MaxShelf \in Nat /\ MaxTexts \in Nat /\ MaxOperations \in Nat /\ LibraryEnd \in Nat
    /\ RecoveryWindow \in Nat /\ UndoWindow \in Nat
    /\ ShelfSlots \subseteq Nat /\ 0 \notin ShelfSlots /\ \A n \in 0..MaxShelf : n # 0 => n \in ShelfSlots
    /\ ShelfSlots \subseteq 0..MaxShelf
    /\ Texts \subseteq Nat /\ 0 \in Texts
BY LibraryAssumption DEF ShelfSlots, Texts

\* An empty row, ...
LEMMA EmptyRowFields == EmptyRow \in Rows /\ EmptyRow.life = "empty"
<1>1. FreshIdentity(0) \in Identities
  BY LibraryNumbers DEF Identities
<1> QED BY <1>1, LibraryNumbers DEF EmptyRow, Rows

\* ... and a new one.
LEMMA NewRowFields ==
    ASSUME NEW op \in Identities, NEW t \in Texts, libTime \in 0..LibraryEnd
    PROVE  LET row == NewRow(op, t) IN
           /\ row \in Rows /\ row.op = op /\ row.text = t /\ row.ever = {t}
           /\ row.life = "stored" /\ row.purgeAfter = 0
           /\ row.born = libTime /\ row.updated = libTime
<1> USE LibraryNumbers
<1>1. EmptyRow \in Rows
  BY EmptyRowFields
<1> DEFINE a == [EmptyRow EXCEPT !.op = op]
           b == [a EXCEPT !.text = t]
           c == [b EXCEPT !.life = "stored"]
           d == [c EXCEPT !.born = libTime]
           e == [d EXCEPT !.updated = libTime]
<1>2. NewRow(op, t) = [e EXCEPT !.ever = {t}]
  BY DEF NewRow
<1>3. a \in Rows /\ a.op = op /\ a.purgeAfter = 0
  BY <1>1 DEF Rows, EmptyRow
<1> HIDE DEF a
<1>4. b \in Rows /\ b.op = op /\ b.purgeAfter = 0 /\ b.text = t
  BY <1>3 DEF Rows
<1> HIDE DEF b
<1>5. c \in Rows /\ c.op = op /\ c.purgeAfter = 0 /\ c.text = t /\ c.life = "stored"
  BY <1>4 DEF Rows
<1> HIDE DEF c
<1>6. /\ d \in Rows /\ d.op = op /\ d.purgeAfter = 0 /\ d.text = t /\ d.life = "stored"
      /\ d.born = libTime
  BY <1>5 DEF Rows
<1> HIDE DEF d
<1>7. /\ e \in Rows /\ e.op = op /\ e.purgeAfter = 0 /\ e.text = t /\ e.life = "stored"
      /\ e.born = libTime /\ e.updated = libTime
  BY <1>6 DEF Rows
<1> HIDE DEF e
<1> QED BY <1>2, <1>7 DEF Rows

LEMMA LibraryInitInv == LibraryInit => LibraryInv
<1> SUFFICES ASSUME LibraryInit PROVE LibraryInv
  OBVIOUS
<1> USE LibraryNumbers, EmptyRowFields
<1>1. \A n \in ShelfSlots : shelf[n] = EmptyRow
  BY DEF LibraryInit
<1>2. LibraryTyped
  <2>1. Closed \in Documents
    BY DEF Closed, Documents
  <2> QED BY <2>1 DEF LibraryInit, LibraryTyped
<1>3. SlotsInOrder /\ RowsRemember /\ ArchivesAreTimed
  BY <1>1 DEF SlotsInOrder, RowsRemember, ArchivesAreTimed, Taken, Stored
<1>4. AnswersName /\ SavedMeansStored
  BY DEF LibraryInit, Closed, AnswersName, SavedMeansStored
<1>5. OneNotePerIdentity /\ NoTwinNotes /\ NothingPurgedEarly
  BY <1>1 DEF OneNotePerIdentity, NoTwinNotes, NothingPurgedEarly, Stored, LiveNote
<1> QED BY <1>2, <1>3, <1>4, <1>5 DEF LibraryInv

-----------------------------------------------------------------------------
(* Steps of the shelf.                                                      *)

\* A row that has been worked on: it keeps its identity and remembers its texts.
Reworked(old, new) ==
    /\ old.life = "stored" /\ new.life = "stored"
    /\ new.op = old.op /\ new.born = old.born
    /\ old.ever \subseteq new.ever /\ new.text \in new.ever
    /\ new.rev > 0 \/ new.meta > 0
    /\ new.purgeAfter > 0 => /\ new.archivedAt > 0
                             /\ new.purgeAfter = new.archivedAt + UndoWindow

\* A row whose time has come.
PurgedNow(old, new) ==
    /\ old.life = "stored" /\ new.life = "purged"
    /\ new.text = old.text /\ new.ever = old.ever
    /\ new.archivedAt > 0 /\ new.purgedAt >= new.archivedAt + UndoWindow

RowsMove ==
    /\ shelf' \in [ShelfSlots -> Rows]
    /\ \A n \in ShelfSlots : \/ shelf'[n] = shelf[n]
                             \/ Reworked(shelf[n], shelf'[n])
                             \/ PurgedNow(shelf[n], shelf'[n])

\* What is promised of the shelf.
ShelfInv ==
    /\ SlotsInOrder /\ RowsRemember /\ ArchivesAreTimed
    /\ OneNotePerIdentity /\ NoTwinNotes /\ NothingPurgedEarly

\* No note is forgotten.
ShelfRemembers ==
    \A n \in ShelfSlots : Taken(n) => Taken(n)' /\ shelf[n].ever \subseteq shelf'[n].ever

LEMMA RowsMoveKeeps ==
    ASSUME LibraryInv, RowsMove
    PROVE  ShelfInv' /\ ShelfRemembers
<1> USE LibraryNumbers
<1>0. \A n \in ShelfSlots : shelf[n] \in Rows /\ shelf'[n] \in Rows
  BY DEF LibraryInv, LibraryTyped, RowsMove
<1>1. ShelfRemembers
  BY DEF RowsMove, Reworked, PurgedNow, ShelfRemembers, Taken
<1>2. SlotsInOrder'
  <2>1. \A n \in ShelfSlots : Taken(n)' <=> Taken(n)
    BY DEF RowsMove, Reworked, PurgedNow, Taken
  <2> QED BY <2>1 DEF LibraryInv, SlotsInOrder
<1>3. ASSUME NEW n \in ShelfSlots, Stored(n)'
      PROVE  Stored(n) /\ shelf'[n].op = shelf[n].op
  BY <1>3 DEF RowsMove, Reworked, PurgedNow, Stored
<1>4. ASSUME NEW n \in ShelfSlots, Stored(n)', Untouched(n)'
      PROVE  shelf'[n] = shelf[n]
  <2>1. shelf'[n].life = "stored" /\ shelf'[n].rev = 0 /\ shelf'[n].meta = 0
    BY <1>4 DEF Stored, Untouched
  <2> QED BY <2>1 DEF RowsMove, Reworked, PurgedNow
<1>5. RowsRemember'
  <2>1. ASSUME NEW n \in ShelfSlots, Taken(n)' PROVE shelf'[n].text \in shelf'[n].ever
    BY <2>1 DEF RowsMove, Reworked, PurgedNow, Taken, LibraryInv, RowsRemember
  <2>2. ASSUME NEW n \in ShelfSlots, Stored(n)', Untouched(n)'
        PROVE  shelf'[n].updated = shelf'[n].born
    BY <1>4, <2>2 DEF LibraryInv, RowsRemember, Stored, Untouched
  <2> QED BY <2>1, <2>2 DEF RowsRemember
<1>6. ArchivesAreTimed'
  <2>1. SUFFICES ASSUME NEW n \in ShelfSlots, Stored(n)', shelf'[n].purgeAfter > 0
                 PROVE  /\ shelf'[n].archivedAt > 0
                        /\ shelf'[n].purgeAfter = shelf'[n].archivedAt + UndoWindow
    BY DEF ArchivesAreTimed
  <2>2. CASE shelf'[n] = shelf[n]
    BY <2>1, <2>2 DEF LibraryInv, ArchivesAreTimed, Stored
  <2>3. CASE Reworked(shelf[n], shelf'[n])
    BY <2>1, <2>3 DEF Reworked
  <2>4. CASE PurgedNow(shelf[n], shelf'[n])
    BY <2>1, <2>4 DEF PurgedNow, Stored
  <2> QED BY <2>2, <2>3, <2>4 DEF RowsMove
<1>7. OneNotePerIdentity'
  BY <1>3 DEF LibraryInv, OneNotePerIdentity
<1>8. NoTwinNotes'
  <2>1. SUFFICES ASSUME NEW n \in ShelfSlots, NEW m \in ShelfSlots, n < m, LiveNote(n)', LiveNote(m)',
                        Untouched(n)', Untouched(m)',
                        shelf'[n].op[1] = "new", shelf'[m].op[1] = "new",
                        shelf'[n].text = shelf'[m].text
                 PROVE  shelf'[m].born > shelf'[n].born + RecoveryWindow
    BY DEF NoTwinNotes
  <2>2. shelf'[n] = shelf[n] /\ shelf'[m] = shelf[m]
    BY <1>4, <2>1 DEF LiveNote
  <2>3. LiveNote(n) /\ LiveNote(m) /\ Untouched(n) /\ Untouched(m)
    BY <2>1, <2>2 DEF LiveNote, Stored, Untouched
  <2> QED BY <2>1, <2>2, <2>3 DEF LibraryInv, NoTwinNotes
<1>9. NothingPurgedEarly'
  <2>1. SUFFICES ASSUME NEW n \in ShelfSlots, shelf'[n].life = "purged"
                 PROVE  shelf'[n].archivedAt > 0 /\ shelf'[n].purgedAt >= shelf'[n].archivedAt + UndoWindow
    BY DEF NothingPurgedEarly
  <2>2. CASE shelf'[n] = shelf[n]
    BY <2>1, <2>2 DEF LibraryInv, NothingPurgedEarly
  <2>3. CASE PurgedNow(shelf[n], shelf'[n])
    BY <2>3 DEF PurgedNow
  <2>4. CASE Reworked(shelf[n], shelf'[n])
    BY <2>1, <2>4 DEF Reworked
  <2> QED BY <2>2, <2>3, <2>4 DEF RowsMove
<1> QED BY <1>1, <1>2, <1>5, <1>6, <1>7, <1>8, <1>9 DEF ShelfInv
\* The shelf after a step is as promised.
ShelfGoesOn == shelf' \in [ShelfSlots -> Rows] /\ ShelfInv' /\ ShelfRemembers

LEMMA ShelfSame == ASSUME LibraryInv, shelf' = shelf PROVE ShelfGoesOn
<1>1. RowsMove
  BY DEF RowsMove, LibraryInv, LibraryTyped
<1> QED BY <1>1, RowsMoveKeeps DEF ShelfGoesOn, RowsMove

\* A note is added to the shelf above all others.
LEMMA NewRowKeeps ==
    ASSUME LibraryInv, NEW op \in Identities, NEW t \in Texts, NEW n,
           Prior(op) = {}, Free # {}, n = Min(Free),
           shelf' = [shelf EXCEPT ![n] = NewRow(op, t)],
           op[1] = "new" => RecentEquivalent(t) = {}
    PROVE  ShelfGoesOn /\ n \in ShelfSlots /\ Taken(n)'
<1> USE LibraryNumbers
<1>0. shelf \in [ShelfSlots -> Rows] /\ \A m \in ShelfSlots : shelf[m] \in Rows
  BY DEF LibraryInv, LibraryTyped
<1>1. n \in ShelfSlots /\ ~Taken(n) /\ \A m \in ShelfSlots : ~Taken(m) => n <= m
  <2>1. Free \subseteq ShelfSlots /\ \A m \in ShelfSlots : m \in Free <=> ~Taken(m)
    BY DEF Free, Taken
  <2>2. Min(Free) \in Free /\ \A m \in Free : Min(Free) <= m
    BY <2>1, LeastSlot
  <2> QED BY <2>1, <2>2
<1> DEFINE row == NewRow(op, t)
<1>2. /\ row \in Rows /\ row.op = op /\ row.text = t /\ row.ever = {t}
      /\ row.life = "stored" /\ row.purgeAfter = 0
      /\ row.born = libTime /\ row.updated = libTime
  BY NewRowFields DEF LibraryInv, LibraryTyped
<1> HIDE DEF row
<1>3. /\ shelf' \in [ShelfSlots -> Rows] /\ shelf'[n] = row
      /\ \A m \in ShelfSlots \ {n} : shelf'[m] = shelf[m]
  BY <1>0, <1>1, <1>2 DEF row
<1>4. \A m \in ShelfSlots : Taken(m) => m < n
  BY <1>1 DEF LibraryInv, SlotsInOrder
<1>5. /\ Taken(n)' /\ Stored(n)'
      /\ \A m \in ShelfSlots \ {n} : (Taken(m)' <=> Taken(m)) /\ (Stored(m)' <=> Stored(m))
                                     /\ (LiveNote(m)' <=> LiveNote(m)) /\ (Untouched(m)' <=> Untouched(m))
  BY <1>2, <1>3 DEF Taken, Stored, LiveNote, Untouched
<1>6. ShelfRemembers
  BY <1>1, <1>3, <1>5 DEF ShelfRemembers, Taken
<1>7. SlotsInOrder'
  <2>1. SUFFICES ASSUME NEW k \in ShelfSlots, NEW m \in ShelfSlots, k < m, Taken(m)' PROVE Taken(k)'
    BY DEF SlotsInOrder
  <2>2. CASE m = n
    BY <1>1, <1>5, <2>1, <2>2
  <2>3. CASE m # n
    <3>1. Taken(m)
      BY <1>5, <2>1, <2>3
    <3>2. Taken(k)
      BY <2>1, <3>1 DEF LibraryInv, SlotsInOrder
    <3> QED BY <1>1, <1>5, <3>2
  <2> QED BY <2>2, <2>3
<1>8. RowsRemember'
  BY <1>2, <1>3, <1>5 DEF LibraryInv, RowsRemember
<1>9. ArchivesAreTimed'
  <2>1. ASSUME NEW m \in ShelfSlots \ {n}, Stored(m)', shelf'[m].purgeAfter > 0
        PROVE  /\ shelf'[m].archivedAt > 0
               /\ shelf'[m].purgeAfter = shelf'[m].archivedAt + UndoWindow
    BY <1>3, <1>5, <2>1 DEF LibraryInv, ArchivesAreTimed
  <2>2. ~(shelf'[n].purgeAfter > 0)
    BY <1>2, <1>3
  <2> QED BY <2>1, <2>2 DEF ArchivesAreTimed
<1>10. OneNotePerIdentity'
  <2>1. \A m \in ShelfSlots : Stored(m) => shelf[m].op # op
    BY DEF Prior
  <2> QED BY <1>2, <1>3, <1>5, <2>1 DEF LibraryInv, OneNotePerIdentity
<1>11. NoTwinNotes'
  <2>1. SUFFICES ASSUME NEW k \in ShelfSlots, NEW m \in ShelfSlots, k < m, LiveNote(k)', LiveNote(m)',
                        Untouched(k)', Untouched(m)',
                        shelf'[k].op[1] = "new", shelf'[m].op[1] = "new",
                        shelf'[k].text = shelf'[m].text
                 PROVE  shelf'[m].born > shelf'[k].born + RecoveryWindow
    BY DEF NoTwinNotes
  <2>2. CASE m # n
    <3>1. Taken(m)
      BY <1>5, <2>1, <2>2 DEF LiveNote, Stored, Taken
    <3>2. k # n
      BY <1>1, <1>4, <2>1, <3>1
    <3>3. LiveNote(k) /\ LiveNote(m) /\ Untouched(k) /\ Untouched(m)
      BY <1>5, <2>1, <2>2, <3>2
    <3> QED BY <1>3, <2>1, <2>2, <3>2, <3>3 DEF LibraryInv, NoTwinNotes
  <2>3. CASE m = n
    <3>1. k # n /\ LiveNote(k) /\ Untouched(k) /\ shelf[k].text = t
      BY <1>1, <1>2, <1>3, <1>5, <2>1, <2>3
    <3>2. op[1] = "new" /\ shelf'[m].born = libTime
      BY <1>2, <1>3, <2>1, <2>3
    <3>3. ~(shelf[k].updated + RecoveryWindow >= libTime)
      BY <3>1, <3>2 DEF RecentEquivalent
    <3>4. shelf[k].updated = shelf[k].born /\ shelf[k].born \in Nat /\ libTime \in Nat
      BY <1>0, <3>1 DEF LibraryInv, LibraryTyped, RowsRemember, LiveNote, Rows
    <3> QED BY <1>3, <3>1, <3>2, <3>3, <3>4
  <2> QED BY <2>2, <2>3
<1>12. NothingPurgedEarly'
  BY <1>2, <1>3 DEF LibraryInv, NothingPurgedEarly
<1> QED BY <1>1, <1>3, <1>5, <1>6, <1>7, <1>8, <1>9, <1>10, <1>11, <1>12 DEF ShelfGoesOn, ShelfInv

\* A creation request is served.
LEMMA CreateKeeps ==
    ASSUME LibraryInv, NEW k \in 0..MaxOperations, NEW t \in Texts, NEW n \in ShelfSlots,
           CreateNote(FreshIdentity(k), t, n)
    PROVE  ShelfGoesOn /\ Taken(n)'
<1>1. FreshIdentity(k) \in Identities
  BY DEF Identities
<1>2. CASE shelf' = shelf /\ n \in Prior(FreshIdentity(k)) \cup RecentEquivalent(t)
  <2>1. Taken(n)
    BY <1>2 DEF Prior, RecentEquivalent, LiveNote, Stored, Taken
  <2> QED BY <1>2, <2>1, ShelfSame DEF Taken
<1>3. CASE ~(shelf' = shelf /\ n \in Prior(FreshIdentity(k)) \cup RecentEquivalent(t))
  BY <1>1, <1>3, NewRowKeeps DEF CreateNote
<1> QED BY <1>2, <1>3

\* A fork is made or found.
LEMMA ForkKeeps ==
    ASSUME LibraryInv, NEW source \in ShelfSlots, NEW t \in Texts, NEW n \in ShelfSlots,
           ForkNote(source, t, n)
    PROVE  ShelfGoesOn /\ Taken(n)'
<1>1. ForkIdentity(source, t) \in Identities /\ ForkIdentity(source, t)[1] # "new"
  BY DEF Identities, ForkIdentity
<1>2. CASE shelf' = shelf /\ n \in Prior(ForkIdentity(source, t))
  <2>1. Taken(n)
    BY <1>2 DEF Prior, Stored, Taken
  <2> QED BY <1>2, <2>1, ShelfSame DEF Taken
<1>3. CASE ~(shelf' = shelf /\ n \in Prior(ForkIdentity(source, t)))
  BY <1>1, <1>3, NewRowKeeps DEF ForkNote
<1> QED BY <1>2, <1>3

\* What a document or an answer names stays.
LEMMA DeskStays ==
    ASSUME LibraryInv, ShelfGoesOn, desk' = desk,
           \A c \in createCalls' : c \in createCalls \/ c.answer = 0 \/ Taken(c.answer)'
    PROVE  AnswersName' /\ SavedMeansStored'
<1> USE LibraryNumbers
<1>1. desk.note \in 0..MaxShelf /\ \A c \in createCalls : c.answer \in 0..MaxShelf
  BY DEF LibraryInv, LibraryTyped, Documents
<1>2. AnswersName'
  <2>1. ASSUME desk.note # 0 PROVE shelf'[desk.note].life # "empty"
    <3>1. desk.note \in ShelfSlots /\ Taken(desk.note)
      BY <1>1, <2>1 DEF LibraryInv, AnswersName
    <3> QED BY <3>1 DEF ShelfGoesOn, ShelfRemembers, Taken
  <2>2. ASSUME NEW c \in createCalls', c.answer # 0 PROVE shelf'[c.answer].life # "empty"
    <3>1. CASE c \in createCalls
      <4>1. c.answer \in ShelfSlots /\ Taken(c.answer)
        BY <1>1, <2>2, <3>1 DEF LibraryInv, AnswersName
      <4> QED BY <4>1 DEF ShelfGoesOn, ShelfRemembers, Taken
    <3> QED BY <2>2, <3>1 DEF Taken
  <2> QED BY <2>1, <2>2 DEF AnswersName, Taken
<1>3. SavedMeansStored'
  <2>1. SUFFICES ASSUME desk.open, desk.note # 0 PROVE desk.saved \in shelf'[desk.note].ever
    BY DEF SavedMeansStored
  <2>2. desk.note \in ShelfSlots /\ Taken(desk.note) /\ desk.saved \in shelf[desk.note].ever
    BY <1>1, <2>1 DEF LibraryInv, AnswersName, SavedMeansStored
  <2> QED BY <2>2 DEF ShelfGoesOn, ShelfRemembers
<1> QED BY <1>2, <1>3

LEMMA LibraryStep ==
    ASSUME LibraryTyped', ShelfGoesOn, AnswersName', SavedMeansStored'
    PROVE  LibraryInv'
BY DEF LibraryInv, ShelfGoesOn, ShelfInv
-----------------------------------------------------------------------------
(* The server's requests, one by one.                                       *)

\* A row of the shelf has been worked on.
LEMMA RowMoves ==
    ASSUME LibraryInv, NEW n \in ShelfSlots, NEW row \in Rows,
           Reworked(shelf[n], row), shelf' = [shelf EXCEPT ![n] = row]
    PROVE  RowsMove
<1>1. shelf \in [ShelfSlots -> Rows]
  BY DEF LibraryInv, LibraryTyped
<1>2. shelf' \in [ShelfSlots -> Rows] /\ shelf'[n] = row
      /\ \A m \in ShelfSlots \ {n} : shelf'[m] = shelf[m]
  BY <1>1
<1> QED BY <1>2 DEF RowsMove

LEMMA FinishMoves ==
    ASSUME LibraryInv, NEW n \in ShelfSlots, NEW row \in Rows, Stored(n),
           row.life = "stored", row.op = shelf[n].op, row.born = shelf[n].born,
           row.ever = shelf[n].ever, row.text = shelf[n].text,
           row.purgeAfter > 0 => row.archivedAt > 0
                                 /\ row.purgeAfter = row.archivedAt + UndoWindow,
           FinishMetadata(n, row)
    PROVE  RowsMove
<1> USE LibraryNumbers
<1> DEFINE a == [row EXCEPT !.meta = @ + 1]
           b == [a EXCEPT !.updated = libTime]
<1>1. libTime \in Nat /\ row.meta \in Nat /\ row.meta + 1 \in Nat /\ row.meta + 1 > 0
  BY DEF LibraryInv, LibraryTyped, Rows
<1>2. a \in Rows /\ a.meta > 0
  BY <1>1 DEF Rows
<1>3. /\ a.life = row.life /\ a.op = row.op /\ a.born = row.born /\ a.ever = row.ever
      /\ a.text = row.text /\ a.purgeAfter = row.purgeAfter /\ a.archivedAt = row.archivedAt
  BY DEF Rows
<1>4. shelf' = [shelf EXCEPT ![n] = b]
  BY DEF FinishMetadata
<1> HIDE DEF a
<1>5. b \in Rows /\ b.meta > 0
  BY <1>1, <1>2 DEF Rows
<1>6. /\ b.life = a.life /\ b.op = a.op /\ b.born = a.born /\ b.ever = a.ever
      /\ b.text = a.text /\ b.purgeAfter = a.purgeAfter /\ b.archivedAt = a.archivedAt
  BY <1>2 DEF Rows
<1> HIDE DEF b
<1>7. shelf[n].text \in shelf[n].ever
  BY DEF LibraryInv, RowsRemember, Taken, Stored
<1>8. Reworked(shelf[n], b)
  BY <1>3, <1>5, <1>6, <1>7 DEF Reworked, Stored
<1> QED BY <1>4, <1>5, <1>8, RowMoves

LEMMA RenameMoves ==
    ASSUME LibraryInv, NEW n \in ShelfSlots, RenameNote(n) PROVE RowsMove
<1>1. shelf[n] \in Rows /\ Stored(n)
  BY DEF LibraryInv, LibraryTyped, RenameNote, LiveNote
<1>2. shelf[n].purgeAfter > 0 => shelf[n].archivedAt > 0
                                 /\ shelf[n].purgeAfter = shelf[n].archivedAt + UndoWindow
  BY <1>1 DEF LibraryInv, ArchivesAreTimed
<1> QED BY <1>1, <1>2, FinishMoves DEF RenameNote, Stored

\* The rows an archiving and a restoring write.
LEMMA ArchivedFields ==
    ASSUME NEW old \in Rows, libTime \in 0..LibraryEnd
    PROVE  LET row == [old EXCEPT !.archivedAt = libTime + 1,
                                  !.purgeAfter = libTime + UndoWindow + 1] IN
           /\ row \in Rows /\ row.life = old.life /\ row.op = old.op /\ row.born = old.born
           /\ row.ever = old.ever /\ row.text = old.text
           /\ row.archivedAt > 0 /\ row.purgeAfter = row.archivedAt + UndoWindow
<1> USE LibraryNumbers
<1>1. libTime + 1 \in 0..(LibraryEnd + 1) /\ libTime + UndoWindow + 1 \in Nat
      /\ libTime + 1 > 0 /\ libTime + UndoWindow + 1 = (libTime + 1) + UndoWindow
  OBVIOUS
<1> DEFINE row == [old EXCEPT !.archivedAt = libTime + 1,
                              !.purgeAfter = libTime + UndoWindow + 1]
<1>2. row \in Rows
  BY <1>1, Zenon DEF Rows
<1>3. row.archivedAt = libTime + 1 /\ row.purgeAfter = libTime + UndoWindow + 1
  BY DEF Rows
<1>4. /\ row.life = old.life /\ row.op = old.op /\ row.born = old.born
      /\ row.ever = old.ever /\ row.text = old.text
  BY DEF Rows
<1> QED BY <1>1, <1>2, <1>3, <1>4, Zenon

LEMMA RestoredFields ==
    ASSUME NEW old \in Rows
    PROVE  LET row == Restored(old) IN
           /\ row \in Rows /\ row.life = old.life /\ row.op = old.op /\ row.born = old.born
           /\ row.ever = old.ever /\ row.text = old.text
           /\ row.purgeAfter = 0
<1> USE LibraryNumbers
<1> DEFINE row == Restored(old)
<1>1. 0 \in 0..(LibraryEnd + 1) /\ 0 \in Nat
  OBVIOUS
<1>2. row \in Rows
  BY <1>1, Zenon DEF Rows, Restored
<1>3. /\ row.life = old.life /\ row.op = old.op /\ row.born = old.born
      /\ row.ever = old.ever /\ row.text = old.text /\ row.purgeAfter = 0
  BY DEF Rows, Restored
<1> QED BY <1>2, <1>3, Zenon

LEMMA ArchiveMoves ==
    ASSUME LibraryInv, NEW n \in ShelfSlots, ArchiveNote(n) PROVE RowsMove
<1> DEFINE row == [shelf[n] EXCEPT !.archivedAt = libTime + 1,
                                   !.purgeAfter = libTime + UndoWindow + 1]
<1>1. shelf[n] \in Rows /\ Stored(n) /\ libTime \in 0..LibraryEnd
  BY DEF LibraryInv, LibraryTyped, ArchiveNote, LiveNote
<1>2. /\ row \in Rows /\ row.life = shelf[n].life /\ row.op = shelf[n].op
      /\ row.born = shelf[n].born /\ row.ever = shelf[n].ever /\ row.text = shelf[n].text
      /\ row.archivedAt > 0 /\ row.purgeAfter = row.archivedAt + UndoWindow
  BY <1>1, ArchivedFields
<1>3. FinishMetadata(n, row)
  BY DEF ArchiveNote
<1> HIDE DEF row
<1> QED BY <1>1, <1>2, <1>3, FinishMoves DEF Stored

LEMMA RestoreMoves ==
    ASSUME LibraryInv, NEW n \in ShelfSlots, RestoreNote(n) PROVE RowsMove
<1> DEFINE row == Restored(shelf[n])
<1>1. shelf[n] \in Rows /\ Stored(n)
  BY DEF LibraryInv, LibraryTyped, RestoreNote
<1>2. /\ row \in Rows /\ row.life = shelf[n].life /\ row.op = shelf[n].op
      /\ row.born = shelf[n].born /\ row.ever = shelf[n].ever /\ row.text = shelf[n].text
      /\ row.purgeAfter = 0
  BY <1>1, RestoredFields
<1>3. FinishMetadata(n, row)
  BY DEF RestoreNote
<1> HIDE DEF row
<1> QED BY <1>1, <1>2, <1>3, FinishMoves DEF Stored

\* A body is saved, by the partner or from the desk.
LEMMA BodyMoves ==
    ASSUME LibraryInv, NEW n \in ShelfSlots, LiveNote(n), NEW t \in Texts,
           shelf' = [shelf EXCEPT ![n].text = t, ![n].rev = @ + 1,
                                  ![n].ever = @ \union {t}, ![n].updated = libTime]
    PROVE  RowsMove /\ t \in shelf'[n].ever
<1> USE LibraryNumbers
<1>1. shelf \in [ShelfSlots -> Rows] /\ shelf[n] \in Rows /\ Stored(n)
      /\ shelf[n].rev \in Nat /\ shelf[n].ever \in SUBSET Texts /\ libTime \in Nat
  BY DEF LibraryInv, LibraryTyped, LiveNote, Rows
<1> DEFINE row == [shelf[n] EXCEPT !.text = t, !.rev = @ + 1, !.ever = @ \union {t},
                                   !.updated = libTime]
<1>2. shelf[n].rev + 1 \in Nat /\ shelf[n].rev + 1 > 0 /\ shelf[n].ever \union {t} \in SUBSET Texts
  BY <1>1
<1>3. shelf' = [shelf EXCEPT ![n] = row]
  BY <1>1
<1>4. row \in Rows
  BY <1>1, <1>2, Zenon DEF Rows
<1>5. /\ row.life = shelf[n].life /\ row.op = shelf[n].op /\ row.born = shelf[n].born
      /\ row.ever = shelf[n].ever \union {t} /\ row.text = t
      /\ row.purgeAfter = shelf[n].purgeAfter /\ row.archivedAt = shelf[n].archivedAt
      /\ row.rev = shelf[n].rev + 1
  BY <1>1 DEF Rows
<1> HIDE DEF row
<1>6. shelf[n].purgeAfter > 0 => shelf[n].archivedAt > 0
                                 /\ shelf[n].purgeAfter = shelf[n].archivedAt + UndoWindow
  BY <1>1 DEF LibraryInv, ArchivesAreTimed
<1>7. Reworked(shelf[n], row)
  BY <1>1, <1>2, <1>5, <1>6 DEF Reworked, Stored
<1>8. RowsMove
  BY <1>3, <1>4, <1>7, RowMoves
<1>9. shelf'[n] = row
  BY <1>1, <1>3
<1> QED BY <1>5, <1>8, <1>9

\* The maintenance purges what is due.
LEMMA PurgeMoves == ASSUME LibraryInv, PurgeNotes PROVE RowsMove
<1> USE LibraryNumbers
<1>1. ASSUME NEW n \in ShelfSlots, PurgeDue(n)
      PROVE  LET row == [shelf[n] EXCEPT !.life = "purged", !.purgedAt = libTime + 1] IN
             row \in Rows /\ PurgedNow(shelf[n], row)
  <2> DEFINE row == [shelf[n] EXCEPT !.life = "purged", !.purgedAt = libTime + 1]
  <2>1. shelf[n] \in Rows /\ libTime \in Nat /\ libTime + 1 \in Nat
        /\ shelf[n].purgeAfter \in Nat /\ shelf[n].archivedAt \in Nat
    BY DEF LibraryInv, LibraryTyped, Rows
  <2>2. row \in Rows
    BY <2>1, Zenon DEF Rows
  <2>3. /\ row.life = "purged" /\ row.text = shelf[n].text /\ row.ever = shelf[n].ever
        /\ row.archivedAt = shelf[n].archivedAt /\ row.purgedAt = libTime + 1
    BY <2>1 DEF Rows
  <2>4. shelf[n].archivedAt > 0 /\ shelf[n].purgeAfter = shelf[n].archivedAt + UndoWindow
    BY <1>1 DEF LibraryInv, ArchivesAreTimed, PurgeDue
  <2> HIDE DEF row
  <2>5. PurgedNow(shelf[n], row)
    BY <1>1, <2>1, <2>3, <2>4 DEF PurgedNow, PurgeDue, Stored
  <2> QED BY <2>2, <2>5 DEF row
<1>2. ASSUME NEW n \in ShelfSlots
      PROVE  shelf'[n] \in Rows /\ (shelf'[n] = shelf[n] \/ PurgedNow(shelf[n], shelf'[n]))
  <2>1. CASE PurgeDue(n)
    BY <1>1, <2>1 DEF PurgeNotes
  <2>2. CASE ~PurgeDue(n)
    BY <2>2 DEF PurgeNotes, LibraryInv, LibraryTyped
  <2> QED BY <2>1, <2>2
<1>3. shelf' \in [ShelfSlots -> Rows]
  BY <1>2, Zenon DEF PurgeNotes
<1> QED BY <1>2, <1>3 DEF RowsMove

\* The operator archives what he took for duplicates.
LEMMA DuplicatesMove == ASSUME LibraryInv, ArchiveDuplicates PROVE RowsMove
<1> USE LibraryNumbers
<1>1. ASSUME NEW n \in ShelfSlots, Stored(n)
      PROVE  LET row == [shelf[n] EXCEPT !.archivedAt = libTime + 1, !.meta = 1,
                             !.purgeAfter = libTime + UndoWindow + 1, !.updated = libTime] IN
             row \in Rows /\ Reworked(shelf[n], row)
  <2> DEFINE row == [shelf[n] EXCEPT !.archivedAt = libTime + 1, !.meta = 1,
                             !.purgeAfter = libTime + UndoWindow + 1, !.updated = libTime]
  <2>1. shelf[n] \in Rows /\ libTime \in Nat /\ libTime + 1 \in 0..(LibraryEnd + 1)
        /\ libTime + UndoWindow + 1 \in Nat /\ 1 \in Nat
        /\ libTime + 1 > 0 /\ libTime + UndoWindow + 1 = (libTime + 1) + UndoWindow
    BY DEF LibraryInv, LibraryTyped
  <2>2. row \in Rows
    BY <2>1, Zenon DEF Rows
  <2>3. /\ row.life = shelf[n].life /\ row.op = shelf[n].op /\ row.born = shelf[n].born
        /\ row.ever = shelf[n].ever /\ row.text = shelf[n].text /\ row.meta = 1
        /\ row.archivedAt = libTime + 1 /\ row.purgeAfter = libTime + UndoWindow + 1
    BY <2>1 DEF Rows
  <2>4. shelf[n].text \in shelf[n].ever
    BY <1>1 DEF LibraryInv, RowsRemember, Taken, Stored
  <2> HIDE DEF row
  <2>5. Reworked(shelf[n], row)
    BY <1>1, <2>1, <2>3, <2>4 DEF Reworked, Stored
  <2> QED BY <2>2, <2>5 DEF row
<1>2. ASSUME NEW n \in ShelfSlots
      PROVE  shelf'[n] \in Rows /\ (shelf'[n] = shelf[n] \/ Reworked(shelf[n], shelf'[n]))
  <2>1. CASE n \in sweep /\ Stored(n)
    BY <1>1, <2>1 DEF ArchiveDuplicates
  <2>2. CASE ~(n \in sweep /\ Stored(n))
    BY <2>2 DEF ArchiveDuplicates, LibraryInv, LibraryTyped
  <2> QED BY <2>1, <2>2
<1>3. shelf' \in [ShelfSlots -> Rows]
  BY <1>2, Zenon DEF ArchiveDuplicates
<1> QED BY <1>2, <1>3 DEF RowsMove
-----------------------------------------------------------------------------
(* The steps of the phone and the server.                                   *)

\* What is typed besides the shelf.
DeskTyped ==
    /\ libTime \in 0..LibraryEnd
    /\ desk \in Documents
    /\ createCalls \subseteq [op : 0..MaxOperations, text : Texts, answer : 0..MaxShelf]
    /\ late \subseteq [op : 0..MaxOperations, text : Texts]
    /\ sweep \subseteq ShelfSlots
    /\ written \in 0..MaxTexts /\ named \in 0..MaxOperations

\* A step of the shelf that leaves the desk alone.
LEMMA ShelfMoved ==
    ASSUME LibraryInv, RowsMove, UNCHANGED <<desk, createCalls>>, DeskTyped'
    PROVE  LibraryInv'
<1>1. ShelfGoesOn
  BY RowsMoveKeeps DEF ShelfGoesOn, RowsMove
<1>2. AnswersName' /\ SavedMeansStored'
  BY <1>1, DeskStays
<1>3. LibraryTyped'
  BY <1>1 DEF LibraryTyped, DeskTyped, ShelfGoesOn
<1> QED BY <1>1, <1>2, <1>3, LibraryStep

\* A step of the desk that leaves the shelf alone.
LEMMA DeskMoved ==
    ASSUME LibraryInv, shelf' = shelf, DeskTyped', AnswersName', SavedMeansStored'
    PROVE  LibraryInv'
<1>1. ShelfGoesOn
  BY ShelfSame
<1>2. LibraryTyped'
  BY <1>1 DEF LibraryTyped, DeskTyped, ShelfGoesOn
<1> QED BY <1>1, <1>2, LibraryStep

LEMMA ServerStep ==
    ASSUME LibraryInv,
           \/ \E n \in ShelfSlots : RenameNote(n) \/ ArchiveNote(n) \/ RestoreNote(n)
                                    \/ PartnerEditsNote(n)
           \/ PurgeNotes \/ ArchiveDuplicates
    PROVE  LibraryInv'
<1> USE LibraryNumbers
<1>1. ASSUME NEW n \in ShelfSlots, RenameNote(n) \/ ArchiveNote(n) \/ RestoreNote(n)
      PROVE  LibraryInv'
  <2>1. RowsMove
    BY <1>1, RenameMoves, ArchiveMoves, RestoreMoves
  <2>2. UNCHANGED <<libTime, desk, createCalls, late, sweep, written, named>>
    BY <1>1 DEF RenameNote, ArchiveNote, RestoreNote, FinishMetadata
  <2>3. DeskTyped'
    BY <2>2 DEF LibraryInv, LibraryTyped, DeskTyped
  <2> QED BY <2>1, <2>2, <2>3, ShelfMoved
<1>2. ASSUME NEW n \in ShelfSlots, PartnerEditsNote(n) PROVE LibraryInv'
  <2>1. written + 1 \in Texts /\ written' \in 0..MaxTexts
    <3>1. written \in 0..MaxTexts
      BY DEF LibraryInv, LibraryTyped
    <3>2. written < MaxTexts /\ written' = written + 1
      BY <1>2 DEF PartnerEditsNote
    <3> QED BY <3>1, <3>2 DEF Texts
  <2>2. RowsMove
    BY <1>2, <2>1, BodyMoves DEF PartnerEditsNote
  <2>3. UNCHANGED <<libTime, desk, createCalls, late, sweep, named>>
    BY <1>2 DEF PartnerEditsNote
  <2>4. DeskTyped'
    BY <2>1, <2>3 DEF LibraryInv, LibraryTyped, DeskTyped
  <2> QED BY <2>2, <2>3, <2>4, ShelfMoved
<1>3. CASE PurgeNotes
  <2>1. DeskTyped'
    BY <1>3 DEF LibraryInv, LibraryTyped, DeskTyped, PurgeNotes
  <2> QED BY <1>3, <2>1, PurgeMoves, ShelfMoved DEF PurgeNotes
<1>4. CASE ArchiveDuplicates
  <2>1. DeskTyped'
    BY <1>4 DEF LibraryInv, LibraryTyped, DeskTyped, ArchiveDuplicates
  <2> QED BY <1>4, <2>1, DuplicatesMove, ShelfMoved DEF ArchiveDuplicates
<1> QED BY <1>1, <1>2, <1>3, <1>4

\* Creation requests: served, late, adopted or lost.
LEMMA CreationStep ==
    ASSUME LibraryInv,
           \/ \E c \in createCalls : ServeCreate(c) \/ AdoptCreatedNote(c) \/ LoseAnswer(c)
           \/ \E m \in late : ServeLate(m)
    PROVE  LibraryInv'
<1> USE LibraryNumbers
<1>1. ASSUME NEW c \in createCalls, ServeCreate(c) PROVE LibraryInv'
  <2>1. PICK n \in ShelfSlots : /\ CreateNote(FreshIdentity(c.op), c.text, n)
                                /\ createCalls' = (createCalls \ {c}) \union {[c EXCEPT !.answer = n]}
    BY <1>1 DEF ServeCreate
  <2>2. c \in [op : 0..MaxOperations, text : Texts, answer : 0..MaxShelf]
    BY DEF LibraryInv, LibraryTyped
  <2>3. ShelfGoesOn /\ Taken(n)'
    BY <2>1, <2>2, CreateKeeps
  <2> DEFINE answered == [c EXCEPT !.answer = n]
  <2>4. answered \in [op : 0..MaxOperations, text : Texts, answer : 0..MaxShelf]
        /\ answered.answer = n
    BY <2>2
  <2>5. createCalls' = (createCalls \ {c}) \union {answered}
    BY <2>1
  <2> HIDE DEF answered
  <2>6. ASSUME NEW d \in createCalls'
        PROVE  d \in createCalls \/ d.answer = 0 \/ shelf'[d.answer].life # "empty"
    BY <2>3, <2>4, <2>5, <2>6 DEF Taken
  <2>7. AnswersName' /\ SavedMeansStored'
    BY <1>1, <2>3, <2>6, DeskStays DEF Taken, ServeCreate
  <2>8. LibraryTyped'
    BY <1>1, <2>3, <2>4, <2>5 DEF LibraryInv, LibraryTyped, ServeCreate, ShelfGoesOn
  <2> QED BY <2>3, <2>7, <2>8, LibraryStep
<1>2. ASSUME NEW c \in createCalls, AdoptCreatedNote(c) PROVE LibraryInv'
  <2>1. c \in [op : 0..MaxOperations, text : Texts, answer : 0..MaxShelf] /\ c.answer # 0
        /\ desk \in Documents
    BY <1>2 DEF LibraryInv, LibraryTyped, AdoptCreatedNote
  <2>2. c.answer \in ShelfSlots /\ Taken(c.answer)
    BY <2>1 DEF LibraryInv, AnswersName
  <2>3. shelf[c.answer].text \in Texts /\ shelf[c.answer].text \in shelf[c.answer].ever
    BY <2>2 DEF LibraryInv, LibraryTyped, RowsRemember, Rows
  <2>4. /\ desk' \in Documents /\ desk'.note = c.answer /\ desk'.saved = shelf[c.answer].text
    <3>1. desk' = [desk EXCEPT !.open = TRUE, !.note = c.answer, !.op = 0,
                               !.saved = shelf[c.answer].text, !.kept = desk.text]
      BY <1>2 DEF AdoptCreatedNote, Adopted
    <3>2. desk.text \in Texts /\ 0 \in 0..MaxOperations /\ c.answer \in 0..MaxShelf
      BY <2>1 DEF Documents
    <3>3. desk' \in Documents
      BY <2>1, <2>3, <3>1, <3>2, Zenon DEF Documents
    <3> QED BY <2>1, <3>1, <3>3 DEF Documents
  <2>5. shelf' = shelf /\ createCalls' \subseteq createCalls
    BY <1>2 DEF AdoptCreatedNote
  <2>6. DeskTyped'
    BY <1>2, <2>4, <2>5 DEF LibraryInv, LibraryTyped, DeskTyped, AdoptCreatedNote
  <2>7. AnswersName'
    BY <2>2, <2>4, <2>5 DEF LibraryInv, AnswersName, Taken
  <2>8. SavedMeansStored'
    BY <2>3, <2>4, <2>5 DEF SavedMeansStored
  <2> QED BY <2>5, <2>6, <2>7, <2>8, DeskMoved
<1>3. ASSUME NEW c \in createCalls, LoseAnswer(c) PROVE LibraryInv'
  <2>1. c \in [op : 0..MaxOperations, text : Texts, answer : 0..MaxShelf]
    BY DEF LibraryInv, LibraryTyped
  <2>2. shelf' = shelf /\ desk' = desk /\ createCalls' \subseteq createCalls
    BY <1>3 DEF LoseAnswer
  <2>3. late' \subseteq [op : 0..MaxOperations, text : Texts]
    BY <1>3, <2>1 DEF LibraryInv, LibraryTyped, LoseAnswer
  <2>4. DeskTyped'
    BY <1>3, <2>2, <2>3 DEF LibraryInv, LibraryTyped, DeskTyped, LoseAnswer
  <2>5. AnswersName' /\ SavedMeansStored'
    BY <2>2 DEF LibraryInv, AnswersName, SavedMeansStored, Taken
  <2> QED BY <2>2, <2>4, <2>5, DeskMoved
<1>4. ASSUME NEW m \in late, ServeLate(m) PROVE LibraryInv'
  <2>1. m \in [op : 0..MaxOperations, text : Texts]
    BY DEF LibraryInv, LibraryTyped
  <2>2. ShelfGoesOn
    <3>1. CASE \E n \in ShelfSlots : CreateNote(FreshIdentity(m.op), m.text, n)
      BY <2>1, <3>1, CreateKeeps
    <3>2. CASE shelf' = shelf
      BY <3>2, ShelfSame
    <3> QED BY <1>4, <3>1, <3>2 DEF ServeLate
  <2>3. desk' = desk /\ createCalls' = createCalls
    BY <1>4 DEF ServeLate
  <2>4. AnswersName' /\ SavedMeansStored'
    BY <2>2, <2>3, DeskStays
  <2>5. LibraryTyped'
    BY <1>4, <2>2 DEF LibraryInv, LibraryTyped, ServeLate, ShelfGoesOn
  <2> QED BY <2>2, <2>4, <2>5, LibraryStep
<1> QED BY <1>1, <1>2, <1>3, <1>4

\* A closed document, and an opened one.
LEMMA ClosedFields == Closed \in Documents /\ Closed.note = 0
BY LibraryNumbers DEF Closed, Documents

LEMMA OpenedFields ==
    ASSUME NEW n \in 0..MaxShelf, NEW t \in Texts
    PROVE  /\ Opened(n, t) \in Documents /\ Opened(n, t).note = n
           /\ Opened(n, t).text = t /\ Opened(n, t).saved = t
<1>1. Opened(n, t) \in Documents
  BY ClosedFields, Zenon DEF Opened, Documents
<1>2. Opened(n, t).note = n /\ Opened(n, t).text = t /\ Opened(n, t).saved = t
  BY ClosedFields DEF Opened, Documents
<1> QED BY <1>1, <1>2

LEMMA AnswersStay ==
    ASSUME LibraryInv, ShelfGoesOn, createCalls' \subseteq createCalls, NEW c \in createCalls',
           c.answer # 0
    PROVE  shelf'[c.answer].life # "empty"
<1>1. c.answer \in 0..MaxShelf
  BY DEF LibraryInv, LibraryTyped
<1>2. c.answer \in ShelfSlots /\ Taken(c.answer)
  BY <1>1, LibraryNumbers DEF LibraryInv, AnswersName
<1> QED BY <1>2 DEF ShelfGoesOn, ShelfRemembers, Taken

\* The document is put away, or replaced by an empty one.
LEMMA DocumentStep ==
    ASSUME LibraryInv,
           \/ NewNote \/ SubmitCreate \/ ReturnToLibrary
           \/ \E t \in Texts : TypeNote(t)
           \/ \E n \in ShelfSlots : SelectNote(n)
           \/ ClassifyDuplicates \/ LibraryTick
    PROVE  LibraryInv'
<1> USE LibraryNumbers
<1>0. shelf' = shelf
  BY DEF NewNote, SubmitCreate, ReturnToLibrary, TypeNote, SelectNote, ClassifyDuplicates,
         LibraryTick
<1>1. DeskTyped /\ 0 \in 0..MaxShelf
  BY DEF LibraryInv, LibraryTyped, DeskTyped
<1>2. CASE NewNote
  <2>1. named \in 0..MaxOperations /\ named < MaxOperations /\ named' = named + 1
    BY <1>1, <1>2 DEF NewNote, DeskTyped
  <2>2. desk' \in Documents /\ desk'.note = 0
    <3>1. named + 1 \in 0..MaxOperations
      BY <2>1
    <3>2. desk' = [Closed EXCEPT !.open = TRUE, !.op = named + 1]
      BY <1>2 DEF NewNote
    <3>3. desk' \in Documents
      BY <3>1, <3>2, ClosedFields, Zenon DEF Documents
    <3> QED BY <3>2, <3>3, ClosedFields DEF Documents
  <2>3. DeskTyped'
    BY <1>1, <1>2, <2>1, <2>2 DEF NewNote, DeskTyped
  <2>4. AnswersName' /\ SavedMeansStored'
    BY <1>0, <1>2, <2>2 DEF LibraryInv, AnswersName, SavedMeansStored, NewNote, Taken
  <2> QED BY <1>0, <2>3, <2>4, DeskMoved
<1>3. CASE SubmitCreate
  <2>1. desk' = [desk EXCEPT !.kept = desk.text] /\ desk.note = 0 /\ desk \in Documents
    BY <1>1, <1>3 DEF SubmitCreate, DeskTyped
  <2>2. desk' \in Documents /\ desk'.note = 0
    BY <2>1 DEF Documents
  <2> DEFINE call == [op |-> desk.op, text |-> desk.text, answer |-> 0]
  <2>3. call \in [op : 0..MaxOperations, text : Texts, answer : 0..MaxShelf] /\ call.answer = 0
    BY <2>1 DEF Documents
  <2>4. createCalls' = createCalls \union {call}
    BY <1>3 DEF SubmitCreate
  <2> HIDE DEF call
  <2>5. DeskTyped'
    BY <1>1, <1>3, <2>2, <2>3, <2>4 DEF SubmitCreate, DeskTyped
  <2>6. AnswersName' /\ SavedMeansStored'
    BY <1>0, <2>2, <2>3, <2>4 DEF LibraryInv, AnswersName, SavedMeansStored, Taken
  <2> QED BY <1>0, <2>5, <2>6, DeskMoved
<1>4. CASE ReturnToLibrary
  <2>1. desk' \in Documents /\ desk'.note = 0
    <3>1. desk' = [Closed EXCEPT !.text = desk.text] /\ desk.text \in Texts
      BY <1>1, <1>4 DEF ReturnToLibrary, DeskTyped, Documents
    <3>2. desk' \in Documents
      BY <3>1, ClosedFields, Zenon DEF Documents
    <3> QED BY <3>1, <3>2, ClosedFields DEF Documents
  <2>2. DeskTyped'
    BY <1>1, <1>4, <2>1 DEF ReturnToLibrary, DeskTyped
  <2>3. AnswersName' /\ SavedMeansStored'
    BY <1>0, <1>4, <2>1 DEF LibraryInv, AnswersName, SavedMeansStored, ReturnToLibrary, Taken
  <2> QED BY <1>0, <2>2, <2>3, DeskMoved
<1>5. ASSUME NEW t \in Texts, TypeNote(t) PROVE LibraryInv'
  <2>1. desk' = [desk EXCEPT !.text = t] /\ desk \in Documents
    BY <1>1, <1>5 DEF TypeNote, DeskTyped
  <2>2. desk' \in Documents /\ desk'.note = desk.note /\ desk'.saved = desk.saved
        /\ desk'.open = desk.open
    BY <2>1 DEF Documents
  <2>3. written' \in 0..MaxTexts
    BY <1>1, <1>5 DEF TypeNote, DeskTyped, Texts
  <2>4. DeskTyped'
    BY <1>1, <1>5, <2>2, <2>3 DEF TypeNote, DeskTyped
  <2>5. createCalls' = createCalls
    BY <1>5 DEF TypeNote
  <2>6. AnswersName' /\ SavedMeansStored'
    BY <1>0, <2>2, <2>5 DEF LibraryInv, AnswersName, SavedMeansStored, Taken
  <2> QED BY <1>0, <2>4, <2>6, DeskMoved
<1>6. ASSUME NEW n \in ShelfSlots, SelectNote(n) PROVE LibraryInv'
  <2>1. shelf[n].text \in Texts /\ Taken(n) /\ shelf[n].text \in shelf[n].ever
    BY <1>6 DEF LibraryInv, LibraryTyped, Rows, RowsRemember, SelectNote, LiveNote, Stored, Taken
  <2>2. desk' \in Documents /\ desk'.note = n /\ desk'.saved = shelf[n].text
    BY <1>6, <2>1, OpenedFields DEF SelectNote
  <2>3. DeskTyped'
    BY <1>1, <1>6, <2>2 DEF SelectNote, DeskTyped
  <2>4. createCalls' = createCalls
    BY <1>6 DEF SelectNote
  <2>5. AnswersName' /\ SavedMeansStored'
    BY <1>0, <2>1, <2>2, <2>4 DEF LibraryInv, AnswersName, SavedMeansStored, Taken
  <2> QED BY <1>0, <2>3, <2>5, DeskMoved
<1>7. CASE ClassifyDuplicates
  <2>1. \A t \in 1..written :
          SafeDuplicates({n \in ShelfSlots : LiveNote(n) /\ shelf[n].text = t}) \subseteq ShelfSlots
    BY DEF SafeDuplicates
  <2>2. sweep' \subseteq ShelfSlots
    BY <1>7, <2>1, Zenon DEF ClassifyDuplicates
  <2>3. UNCHANGED <<libTime, desk, createCalls, late, written, named>>
    BY <1>7 DEF ClassifyDuplicates
  <2>4. DeskTyped'
    BY <1>1, <2>2, <2>3 DEF DeskTyped
  <2>5. AnswersName' /\ SavedMeansStored'
    BY <1>0, <2>3 DEF LibraryInv, AnswersName, SavedMeansStored, Taken
  <2> QED BY <1>0, <2>4, <2>5, DeskMoved
<1>8. CASE LibraryTick
  <2>1. libTime' \in 0..LibraryEnd
    BY <1>1, <1>8 DEF LibraryTick, DeskTyped
  <2>2. UNCHANGED <<desk, createCalls, late, sweep, written, named>>
    BY <1>8 DEF LibraryTick
  <2>3. DeskTyped'
    BY <1>1, <2>1, <2>2 DEF DeskTyped
  <2>4. AnswersName' /\ SavedMeansStored'
    BY <1>0, <2>2 DEF LibraryInv, AnswersName, SavedMeansStored, Taken
  <2> QED BY <1>0, <2>3, <2>4, DeskMoved
<1> QED BY <1>2, <1>3, <1>4, <1>5, <1>6, <1>7, <1>8

\* The document is saved, kept as a note of its own, or lost with the process.
LEMMA SavingStep ==
    ASSUME LibraryInv, SaveBody \/ KeepMyVersion \/ ProcessDies
    PROVE  LibraryInv'
<1> USE LibraryNumbers
<1>1. DeskTyped /\ desk.note \in 0..MaxShelf /\ desk.text \in Texts /\ desk.kept \in Texts
  BY DEF LibraryInv, LibraryTyped, DeskTyped, Documents
<1>2. CASE SaveBody
  <2>1. desk.note \in ShelfSlots /\ LiveNote(desk.note)
    BY <1>1, <1>2 DEF SaveBody
  <2>2. RowsMove /\ desk.text \in shelf'[desk.note].ever
    BY <1>1, <1>2, <2>1, BodyMoves DEF SaveBody
  <2>3. ShelfGoesOn
    BY <2>2, RowsMoveKeeps DEF ShelfGoesOn, RowsMove
  <2>4. desk' \in Documents /\ desk'.note = desk.note /\ desk'.saved = desk.text
    <3>1. desk' = [desk EXCEPT !.saved = desk.text, !.kept = desk.text] /\ desk \in Documents
      BY <1>1, <1>2 DEF SaveBody, DeskTyped
    <3> QED BY <1>1, <3>1 DEF Documents
  <2>5. UNCHANGED <<libTime, createCalls, late, sweep, written, named>>
    BY <1>2 DEF SaveBody
  <2>6. LibraryTyped'
    BY <1>1, <2>3, <2>4, <2>5 DEF LibraryTyped, DeskTyped, ShelfGoesOn
  <2>7. shelf'[desk.note].life # "empty"
    BY <2>1, <2>3 DEF ShelfGoesOn, ShelfRemembers, Taken, LiveNote, Stored
  <2>8. AnswersName'
    BY <2>3, <2>4, <2>5, <2>7, AnswersStay DEF AnswersName, Taken
  <2>9. SavedMeansStored'
    BY <2>2, <2>4 DEF SavedMeansStored
  <2> QED BY <2>3, <2>6, <2>8, <2>9, LibraryStep
<1>3. CASE KeepMyVersion
  <2>1. PICK n \in ShelfSlots :
             /\ ForkNote(desk.note, desk.text, n)
             /\ desk' = Opened(n, shelf'[n].text) \/ desk' = desk
    BY <1>3 DEF KeepMyVersion
  <2>2. desk.note \in ShelfSlots
    BY <1>1, <1>3 DEF KeepMyVersion
  <2>3. ShelfGoesOn /\ shelf'[n].life # "empty"
    BY <1>1, <2>1, <2>2, ForkKeeps DEF Taken
  <2>4. shelf'[n].text \in Texts /\ shelf'[n].text \in shelf'[n].ever
    BY <2>3 DEF ShelfGoesOn, ShelfInv, RowsRemember, Taken, Rows
  <2>5. UNCHANGED <<libTime, createCalls, late, sweep, written, named>>
    BY <1>3 DEF KeepMyVersion
  <2>6. CASE desk' = Opened(n, shelf'[n].text)
    <3>1. desk' \in Documents /\ desk'.note = n /\ desk'.saved = shelf'[n].text
      BY <2>4, <2>6, OpenedFields
    <3>2. LibraryTyped'
      BY <1>1, <2>3, <2>5, <3>1 DEF LibraryTyped, DeskTyped, ShelfGoesOn
    <3>3. AnswersName'
      BY <2>3, <2>5, <3>1, AnswersStay DEF AnswersName, Taken
    <3>4. SavedMeansStored'
      BY <2>4, <3>1 DEF SavedMeansStored
    <3> QED BY <2>3, <3>2, <3>3, <3>4, LibraryStep
  <2>7. CASE desk' = desk
    <3>1. LibraryTyped'
      BY <1>1, <2>3, <2>5, <2>7 DEF LibraryTyped, DeskTyped, ShelfGoesOn
    <3>2. AnswersName' /\ SavedMeansStored'
      BY <2>3, <2>5, <2>7, DeskStays
    <3> QED BY <2>3, <3>1, <3>2, LibraryStep
  <2> QED BY <2>1, <2>6, <2>7
<1>4. CASE ProcessDies
  <2>1. shelf' = shelf /\ createCalls' = {}
    BY <1>4 DEF ProcessDies
  <2>2. /\ desk' \in Documents
        /\ desk'.note # 0 => Taken(desk'.note)
        /\ desk'.open /\ desk'.note # 0 => desk'.saved \in shelf[desk'.note].ever
    <3>1. CASE desk' = Closed
      BY <3>1, ClosedFields
    <3>2. ASSUME NEW t \in Texts, desk' = Revived(t) PROVE <2>2
      <4>1. CASE desk.note = 0
        <5>1. desk' = [desk EXCEPT !.text = t, !.kept = t] /\ desk \in Documents
          BY <1>1, <3>2, <4>1 DEF Revived, DeskTyped
        <5> QED BY <4>1, <5>1 DEF Documents
      <4>2. CASE desk.note # 0 /\ ~LiveNote(desk.note)
        <5>1. desk' = Closed
          BY <3>2, <4>2 DEF Revived
        <5> QED BY <3>1, <5>1
      <4>3. CASE desk.note # 0 /\ LiveNote(desk.note)
        <5>1. desk.note \in ShelfSlots /\ Taken(desk.note)
          BY <1>1, <4>3 DEF LiveNote, Stored, Taken
        <5> DEFINE stored == shelf[desk.note].text
                   fresh == Opened(desk.note, stored)
        <5>2. stored \in Texts /\ stored \in shelf[desk.note].ever
          BY <5>1 DEF LibraryInv, LibraryTyped, Rows, RowsRemember
        <5>3. fresh \in Documents /\ fresh.note = desk.note /\ fresh.saved = stored
          BY <1>1, <5>2, OpenedFields
        <5>4. desk' = [fresh EXCEPT !.text = IF t = desk.saved THEN @ ELSE t]
          BY <3>2, <4>3 DEF Revived
        <5> HIDE DEF fresh
        <5>5. desk' \in Documents /\ desk'.note = desk.note /\ desk'.saved = stored
          BY <5>3, <5>4 DEF Documents
        <5> QED BY <5>1, <5>2, <5>5
      <4> QED BY <4>1, <4>2, <4>3
    <3> QED BY <1>1, <1>4, <3>1, <3>2 DEF ProcessDies
  <2>3. late' \subseteq [op : 0..MaxOperations, text : Texts]
    BY <1>1, <1>4 DEF ProcessDies, DeskTyped
  <2>4. DeskTyped'
    BY <1>1, <1>4, <2>1, <2>2, <2>3 DEF ProcessDies, DeskTyped
  <2>5. AnswersName'
    BY <2>1, <2>2 DEF AnswersName, Taken
  <2>6. SavedMeansStored'
    BY <2>1, <2>2 DEF SavedMeansStored
  <2> QED BY <2>1, <2>4, <2>5, <2>6, DeskMoved
<1> QED BY <1>2, <1>3, <1>4

LEMMA LibraryNextInv == LibraryInv /\ [LibraryNext]_libraryVars => LibraryInv'
<1>1. ASSUME LibraryInv, LibraryNext PROVE LibraryInv'
  BY <1>1, ServerStep, CreationStep, DocumentStep, SavingStep DEF LibraryNext
<1>2. ASSUME LibraryInv, UNCHANGED libraryVars PROVE LibraryInv'
  <2>1. DeskTyped'
    BY <1>2 DEF libraryVars, LibraryInv, LibraryTyped, DeskTyped
  <2>2. AnswersName' /\ SavedMeansStored'
    BY <1>2 DEF libraryVars, LibraryInv, AnswersName, SavedMeansStored, Taken
  <2> QED BY <1>2, <2>1, <2>2, DeskMoved DEF libraryVars
<1> QED BY <1>1, <1>2

\* Retries, lost answers, process deaths and the maintenance leave one note per
\* document, with the text the phone takes for saved, for as long as it may be restored.
THEOREM NotesKeptOnce == LibrarySpec => []NotesAreKeptOnce
<1>1. LibraryInv => NotesAreKeptOnce
  BY DEF LibraryInv, NotesAreKeptOnce
<1> QED BY <1>1, LibraryInitInv, LibraryNextInv, PTL DEF LibrarySpec

-----------------------------------------------------------------------------
(* Texts and edits.                                                         *)

Characters == {InitialBody[i] : i \in DOMAIN InitialBody} \cup (Clients \X Nat)
Text == Seq(Characters)
Edits == [kind : {"insert", "delete"}, position : Int, text : Text, length : Int]

\* A set of numbers has a least one.
LEMMA SomeLeast ==
    ASSUME NEW S \in SUBSET Nat, S # {}
    PROVE  \E x \in S : \A y \in S : x <= y
<1>1. IsWellFoundedOn(OpToRel(<, Nat), Nat)
  BY NatLessThanWellFounded
<1>2. PICK x \in S : \A y \in S : ~(<<y, x>> \in OpToRel(<, Nat))
  BY <1>1, WFMin
<1>3. \A y \in S : <<y, x>> \in OpToRel(<, Nat) <=> y < x
  BY Zenon DEF OpToRel
<1>4. \A y \in S : ~(y < x)
  BY <1>2, <1>3, Zenon
<1> QED BY <1>4

\* A function on 1..n is a sequence.
LEMMA Listed ==
    ASSUME NEW S, NEW n \in Nat, NEW f \in [1..n -> S]
    PROVE  f \in Seq(S)
<1>1. Seq(S) = UNION {[1..m -> S] : m \in Nat}
  BY SeqDef
<1> QED BY <1>1, Zenon

\* The loaded note is a text.
LEMMA FirstText == InitialBody \in Text
<1>1. {InitialBody[i] : i \in DOMAIN InitialBody} \subseteq Characters
  BY DEF Characters
<1> QED BY <1>1, SyncAssumption, SeqMonotonic DEF Text

\* Both constructors return edits.
LEMMA EditsMade ==
    /\ \A p \in Int, t \in Text : Insert(p, t) \in Edits
    /\ \A p \in Int, n \in Int : Delete(p, n) \in Edits
<1>1. <<>> \in Text
  BY DEF Text
<1> QED BY <1>1 DEF Insert, Delete, Edits

\* _transform_edit returns an edit.
LEMMA TransformTyped ==
    ASSUME NEW incoming \in Edits, NEW applied \in Edits, NEW wins
    PROVE  Transform(incoming, applied, wins) \in Edits
<1>1. /\ incoming.position \in Int /\ incoming.length \in Int /\ incoming.text \in Text
      /\ applied.position \in Int /\ applied.length \in Int /\ applied.text \in Text
      /\ Len(applied.text) \in Nat
  BY DEF Edits, Text
<1>2. AgainstInsert(incoming, applied, wins) \in Edits
  <2>1. PICK shift : shift = Len(applied.text)
    OBVIOUS
  <2>2. incoming.position + shift \in Int /\ incoming.length + shift \in Int
    BY <1>1, <2>1
  <2>3. AgainstInsert(incoming, applied, wins) \in
           {incoming, Insert(incoming.position + shift, incoming.text),
            Delete(incoming.position + shift, incoming.length),
            Delete(incoming.position, incoming.length + shift)}
    BY <2>1 DEF AgainstInsert
  <2> QED BY <1>1, <2>2, <2>3, EditsMade
<1>3. AgainstDelete(incoming, applied) \in Edits
  <2>1. CASE IsInsert(incoming)
    <3>1. Most(applied.position, incoming.position - applied.length) \in Int
      BY <1>1 DEF Most
    <3> QED BY <1>1, <2>1, <3>1, EditsMade DEF AgainstDelete
  <2>2. CASE ~IsInsert(incoming)
    <3> DEFINE newStart == incoming.position
                   - Least(applied.length, Most(0, incoming.position - applied.position))
               overlap == Most(0, Least(incoming.position + incoming.length,
                                        applied.position + applied.length)
                                  - Most(incoming.position, applied.position))
               rest == Most(0, incoming.length - overlap)
    <3>1. newStart \in Int
      BY <1>1 DEF Least, Most
    <3>2. overlap \in Int
      BY <1>1 DEF Least, Most
    <3> HIDE DEF overlap
    <3>3. rest \in Int
      BY <1>1, <3>2 DEF Most
    <3>4. AgainstDelete(incoming, applied) = Delete(newStart, rest)
      BY <2>2 DEF AgainstDelete, overlap
    <3> HIDE DEF newStart, rest
    <3> QED BY <3>1, <3>3, <3>4, EditsMade
  <2> QED BY <2>1, <2>2
<1> QED BY <1>2, <1>3 DEF Transform

\* What is before and behind a position of a text.
LEMMA Cuts ==
    ASSUME NEW s \in Text, NEW n \in Nat, n <= Len(s)
    PROVE  /\ Prefix(s, n) \in Text /\ Len(Prefix(s, n)) = n
           /\ \A i \in 1..n : Prefix(s, n)[i] = s[i]
           /\ Suffix(s, n) \in Text /\ Len(Suffix(s, n)) = Len(s) - n
           /\ \A i \in 1..(Len(s) - n) : Suffix(s, n)[i] = s[n + i]
BY DEF Prefix, Suffix, Text

\* _apply_non_empty_edit returns a text.
LEMMA ApplyTyped ==
    ASSUME NEW s \in Text, NEW e \in Edits, Applicable(e, Len(s))
    PROVE  Apply(s, e) \in Text
<1>1. Len(s) \in Nat /\ e.position \in Int /\ e.length \in Int /\ e.text \in Text
  BY DEF Text, Edits
<1>2. CASE IsInsert(e)
  <2>1. e.position \in 0..Len(s)
    BY <1>2 DEF Applicable, Valid
  <2>2. Prefix(s, e.position) \in Text /\ Suffix(s, e.position) \in Text
    BY <1>1, <2>1, Cuts
  <2> QED BY <1>1, <1>2, <2>2, ConcatProperties DEF Apply, Text
<1>3. CASE ~IsInsert(e) /\ e.length # 0
  <2>1. e.position \in 0..Len(s) /\ e.position + e.length \in 0..Len(s)
    BY <1>1, <1>3 DEF Applicable, Valid
  <2>2. Prefix(s, e.position) \in Text /\ Suffix(s, e.position + e.length) \in Text
    BY <1>1, <2>1, Cuts
  <2> QED BY <1>3, <2>2, ConcatProperties DEF Apply, Text
<1>4. CASE ~IsInsert(e) /\ e.length = 0
  BY <1>4 DEF Apply
<1> QED BY <1>2, <1>3, <1>4

\* Typing a character keeps those that were there.
LEMMA InsertChars ==
    ASSUME NEW s \in Text, NEW p \in 0..Len(s), NEW x \in Characters
    PROVE  LET t == Apply(s, Insert(p, <<x>>)) IN
           t \in Text /\ Chars(s) \cup {x} \subseteq Chars(t)
<1> DEFINE a == Prefix(s, p)
           b == Suffix(s, p)
           t == (a \o <<x>>) \o b
<1>1. Apply(s, Insert(p, <<x>>)) = t
  BY DEF Apply, Insert, IsInsert
<1>2. Len(s) \in Nat /\ p \in Nat /\ p <= Len(s) /\ <<x>> \in Text
  BY DEF Text
<1>3. /\ a \in Text /\ Len(a) = p /\ \A i \in 1..p : a[i] = s[i]
      /\ b \in Text /\ Len(b) = Len(s) - p /\ \A i \in 1..(Len(s) - p) : b[i] = s[p + i]
  BY <1>2, Cuts
<1> HIDE DEF a, b
<1>4. /\ a \o <<x>> \in Text /\ Len(a \o <<x>>) = p + 1 /\ (a \o <<x>>)[p + 1] = x
      /\ \A i \in 1..p : (a \o <<x>>)[i] = s[i]
  BY <1>2, <1>3, ConcatProperties DEF Text
<1>5. PICK u : u = a \o <<x>>
  OBVIOUS
<1>6. /\ u \in Text /\ Len(u) = p + 1 /\ u[p + 1] = x /\ (\A i \in 1..p : u[i] = s[i])
      /\ t = u \o b
  BY <1>4, <1>5
<1>7. /\ t \in Text /\ Len(t) = Len(s) + 1 /\ \A i \in 1..(p + 1) : t[i] = u[i]
      /\ \A i \in (p + 2)..(Len(s) + 1) : t[i] = b[i - (p + 1)]
  BY <1>2, <1>3, <1>6, ConcatProperties DEF Text
<1> HIDE DEF t
<1>8. x \in Chars(t)
  <2>1. p + 1 \in 1..Len(t) /\ t[p + 1] = x
    BY <1>2, <1>6, <1>7
  <2> QED BY <2>1 DEF Chars
<1>9. ASSUME NEW i \in 1..Len(s) PROVE s[i] \in Chars(t)
  <2>1. CASE i <= p
    <3>1. i \in 1..Len(t) /\ t[i] = s[i]
      BY <1>2, <1>6, <1>7, <2>1
    <3> QED BY <3>1 DEF Chars
  <2>2. CASE i > p
    <3>1. i + 1 \in 1..Len(t) /\ i + 1 \in (p + 2)..(Len(s) + 1) /\ i - p \in 1..(Len(s) - p)
          /\ (i + 1) - (p + 1) = i - p /\ p + (i - p) = i
      BY <1>2, <1>7, <2>2
    <3>2. t[i + 1] = b[i - p] /\ b[i - p] = s[i]
      BY <1>3, <1>7, <3>1
    <3> QED BY <3>1, <3>2 DEF Chars
  <2> QED BY <1>2, <2>1, <2>2
<1> QED BY <1>1, <1>7, <1>8, <1>9 DEF Chars

\* Erasing a character keeps all others.
LEMMA EraseChars ==
    ASSUME NEW s \in Text, NEW p \in 1..Len(s)
    PROVE  LET t == Apply(s, Delete(p - 1, 1)) IN
           t \in Text /\ Chars(s) \ {s[p]} \subseteq Chars(t)
<1> DEFINE a == Prefix(s, p - 1)
           b == Suffix(s, p)
           t == a \o b
<1>1. Len(s) \in Nat /\ p \in Nat /\ p <= Len(s) /\ p - 1 \in Nat
  BY DEF Text
<1>2. Apply(s, Delete(p - 1, 1)) = t
  BY <1>1 DEF Apply, Delete, IsInsert
<1>3. /\ a \in Text /\ Len(a) = p - 1 /\ \A i \in 1..(p - 1) : a[i] = s[i]
      /\ b \in Text /\ Len(b) = Len(s) - p /\ \A i \in 1..(Len(s) - p) : b[i] = s[p + i]
  <2>1. p - 1 <= Len(s)
    BY <1>1
  <2>2. a \in Text /\ Len(a) = p - 1 /\ \A i \in 1..(p - 1) : a[i] = s[i]
    BY <1>1, <2>1, Cuts
  <2>3. b \in Text /\ Len(b) = Len(s) - p /\ \A i \in 1..(Len(s) - p) : b[i] = s[p + i]
    BY <1>1, Cuts
  <2> QED BY <2>2, <2>3
<1> HIDE DEF a, b
<1>4. /\ t \in Text /\ Len(t) = Len(s) - 1 /\ \A i \in 1..(p - 1) : t[i] = a[i]
      /\ \A i \in p..(Len(s) - 1) : t[i] = b[i - (p - 1)]
  <2>1. /\ t \in Text /\ Len(t) = Len(a) + Len(b)
        /\ \A i \in 1..(Len(a) + Len(b)) : t[i] = IF i <= Len(a) THEN a[i] ELSE b[i - Len(a)]
    BY <1>3, ConcatProperties DEF Text
  <2>2. Len(a) + Len(b) = Len(s) - 1
    BY <1>1, <1>3
  <2> QED BY <1>1, <1>3, <2>1, <2>2
<1> HIDE DEF t
<1>5. ASSUME NEW i \in 1..Len(s), i # p PROVE s[i] \in Chars(t)
  <2>1. CASE i < p
    <3>1. i \in 1..Len(t) /\ t[i] = s[i]
      BY <1>1, <1>3, <1>4, <2>1
    <3> QED BY <3>1 DEF Chars
  <2>2. CASE i > p
    <3>1. i - 1 \in 1..Len(t) /\ i - 1 \in p..(Len(s) - 1) /\ i - p \in 1..(Len(s) - p)
          /\ (i - 1) - (p - 1) = i - p /\ p + (i - p) = i
      BY <1>1, <1>4, <2>2
    <3>2. t[i - 1] = b[i - p] /\ b[i - p] = s[i]
      BY <1>3, <1>4, <3>1
    <3> QED BY <3>1, <3>2 DEF Chars
  <2> QED BY <1>1, <1>5, <2>1, <2>2
<1>6. ASSUME NEW z \in Chars(s), z # s[p] PROVE z \in Chars(t)
  <2>1. PICK i \in 1..Len(s) : z = s[i]
    BY DEF Chars
  <2> QED BY <1>5, <1>6, <2>1
<1> QED BY <1>2, <1>4, <1>6

\* Two texts have a longest common beginning, and what follows it a longest common end.
LEMMA PrefixFound ==
    ASSUME NEW s \in Text, NEW t \in Text
    PROVE  CommonPrefix(s, t) \in 0..Least(Len(s), Len(t))
<1> DEFINE m == Least(Len(s), Len(t))
           S == {n \in 0..m : n < m => s[n + 1] # t[n + 1]}
<1>1. m \in Nat /\ m <= Len(s) /\ m <= Len(t) /\ Len(s) \in Nat /\ Len(t) \in Nat
  BY DEF Least, Text
<1>2. m \in S /\ S \in SUBSET Nat
  BY <1>1
<1>3. PICK n \in S : \A k \in S : n <= k
  BY <1>2, SomeLeast
<1> HIDE DEF m
<1>4. \A i \in 1..n : s[i] = t[i]
  <2> SUFFICES ASSUME NEW i \in 1..n, s[i] # t[i] PROVE FALSE
    OBVIOUS
  <2>1. i - 1 \in 0..m /\ (i - 1) + 1 = i /\ i - 1 < n
    BY <1>1, <1>3
  <2>2. i - 1 \in S
    BY <2>1
  <2> QED BY <1>1, <1>3, <2>1, <2>2
<1>5. Prefix(s, n) = Prefix(t, n)
  <2>1. n \in Nat /\ n <= Len(s) /\ n <= Len(t)
    BY <1>1, <1>3
  <2>2. /\ Prefix(s, n) \in Text /\ Len(Prefix(s, n)) = n
        /\ \A i \in 1..n : Prefix(s, n)[i] = s[i]
        /\ Prefix(t, n) \in Text /\ Len(Prefix(t, n)) = n
        /\ \A i \in 1..n : Prefix(t, n)[i] = t[i]
    BY <2>1, Cuts
  <2> QED BY <1>4, <2>2, SeqEqual DEF Text
<1> QED BY <1>3, <1>5 DEF CommonPrefix, m

\* What follows a common beginning has a longest common end.
LEMMA SuffixFound ==
    ASSUME NEW s \in Text, NEW t \in Text, NEW p \in 0..Least(Len(s), Len(t))
    PROVE  CommonSuffix(s, t, p) \in 0..(Least(Len(s), Len(t)) - p)
<1> DEFINE m == Least(Len(s), Len(t)) - p
           S == {n \in 0..m : n < m => s[Len(s) - n] # t[Len(t) - n]}
<1>1. m \in Nat /\ m <= Len(s) /\ m <= Len(t) /\ Len(s) \in Nat /\ Len(t) \in Nat
  BY DEF Least, Text
<1>2. m \in S /\ S \in SUBSET Nat
  BY <1>1
<1>3. PICK n \in S : \A k \in S : n <= k
  BY <1>2, SomeLeast
<1> HIDE DEF m
<1>4. ASSUME NEW i \in 1..n PROVE s[Len(s) - n + i] = t[Len(t) - n + i]
  <2> SUFFICES ASSUME s[Len(s) - n + i] # t[Len(t) - n + i] PROVE FALSE
    OBVIOUS
  <2>1. PICK j \in 0..m : /\ j < n /\ Len(s) - j = Len(s) - n + i
                         /\ Len(t) - j = Len(t) - n + i
    <3>1. /\ n - i \in 0..m /\ n - i < n /\ Len(s) - (n - i) = Len(s) - n + i
          /\ Len(t) - (n - i) = Len(t) - n + i
      BY <1>1, <1>3
    <3> QED BY <3>1
  <2>2. s[Len(s) - j] # t[Len(t) - j]
    BY <2>1
  <2>3. j \in S
    BY <2>2
  <2> QED BY <1>1, <1>3, <2>1, <2>3
<1>5. Suffix(s, Len(s) - n) = Suffix(t, Len(t) - n)
  <2>1. /\ Len(s) - n \in Nat /\ Len(s) - n <= Len(s) /\ Len(s) - (Len(s) - n) = n
        /\ Len(t) - n \in Nat /\ Len(t) - n <= Len(t) /\ Len(t) - (Len(t) - n) = n
    BY <1>1, <1>3
  <2>2. PICK a, b \in Nat : /\ a = Len(s) - n /\ b = Len(t) - n /\ a <= Len(s) /\ b <= Len(t)
                            /\ Len(s) - a = n /\ Len(t) - b = n
    BY <2>1
  <2>3. PICK u : u = Suffix(s, a)
    OBVIOUS
  <2>4. PICK v : v = Suffix(t, b)
    OBVIOUS
  <2>5. /\ u \in Text /\ Len(u) = Len(s) - a
        /\ \A i \in 1..(Len(s) - a) : u[i] = s[a + i]
    BY <2>2, <2>3, Cuts
  <2>6. /\ v \in Text /\ Len(v) = Len(t) - b
        /\ \A i \in 1..(Len(t) - b) : v[i] = t[b + i]
    BY <2>2, <2>4, Cuts
  <2>7. \A i \in 1..n : s[a + i] = t[b + i]
    BY <1>4, <2>2
  <2>8. Len(u) = n /\ Len(v) = n /\ \A i \in 1..n : u[i] = v[i]
    BY <2>2, <2>5, <2>6, <2>7
  <2>9. u = v
    BY <2>5, <2>6, <2>8, SeqEqual DEF Text
  <2> QED BY <2>2, <2>3, <2>4, <2>9
<1> QED BY <1>3, <1>5 DEF CommonSuffix, m

\* editPlan returns edits.
LEMMA PlanTyped ==
    ASSUME NEW s \in Text, NEW t \in Text
    PROVE  EditPlan(s, t) \in Seq(Edits)
<1>1. PICK p \in 0..Least(Len(s), Len(t)) : p = CommonPrefix(s, t)
  BY PrefixFound
<1>2. PICK q \in 0..(Least(Len(s), Len(t)) - p) : q = CommonSuffix(s, t, p)
  BY <1>1, SuffixFound
<1> DEFINE gone == Len(s) - p - q
           added == SubSeq(t, p + 1, Len(t) - q)
<1>3. Len(s) \in Nat /\ Len(t) \in Nat /\ p \in Nat /\ q \in Nat /\ p + q <= Len(t)
  BY DEF Text, Least
<1>4. gone \in Int /\ added \in Text
  BY <1>3, SubSeqProperties DEF Text
<1>5. Delete(p, gone) \in Edits /\ Insert(p, added) \in Edits
  BY <1>3, <1>4, EditsMade
<1>6. EditPlan(s, t) = (IF gone > 0 THEN <<Delete(p, gone)>> ELSE <<>>)
                       \o (IF added # <<>> THEN <<Insert(p, added)>> ELSE <<>>)
  BY <1>1, <1>2 DEF EditPlan
<1> HIDE DEF gone, added
<1> QED BY <1>5, <1>6

\* _transform_since returns an edit, however many operations it goes through.
LEMMA TransformedTyped ==
    ASSUME NEW m, m.base \in Nat, m.base <= Revision, Revision \in Nat, m.edit \in Edits,
           \A r \in 1..Revision : operations[r].edit \in Edits, NEW wins
    PROVE  Transformed(m, wins) \in Edits
<1> DEFINE b == m.base
           Rev == Revision
           By(e, r) == Transform(e, operations[r].edit, r \in wins)
           Trace(f, k) == f = [r \in b..k |-> IF r = b THEN m.edit ELSE By(f[r - 1], r)]
           step == CHOOSE f : Trace(f, Rev)
<1>1. Transformed(m, wins) = step[Rev]
  BY DEF Transformed
<1>2. b \in Nat /\ Rev \in Nat /\ b <= Rev
  OBVIOUS
<1> HIDE DEF Rev, b
<1>3. \E f : Trace(f, Rev)
  <2> DEFINE bad == {k \in b..Rev : ~\E f : Trace(f, k)}
  <2> SUFFICES ASSUME bad # {} PROVE FALSE
    BY <1>2
  <2>0. bad \in SUBSET Nat
    BY <1>2
  <2>1. PICK k \in bad : \A j \in bad : k <= j
    BY <2>0, SomeLeast
  <2>2. k \in b..Rev /\ ~\E f : Trace(f, k)
    BY <2>1
  <2>3. CASE k = b
    <3>1. Trace([r \in b..k |-> m.edit], k)
      BY <1>2, <2>3
    <3> QED BY <2>2, <3>1
  <2>4. CASE k # b
    <3>1. k - 1 \in b..Rev /\ k - 1 < k
      BY <1>2, <2>2, <2>4
    <3>2. k - 1 \notin bad
      <4> SUFFICES ASSUME k - 1 \in bad PROVE FALSE
        OBVIOUS
      <4>1. k <= k - 1
        BY <2>1
      <4> QED BY <1>2, <2>2, <4>1
    <3>3. PICK f : Trace(f, k - 1)
      BY <3>1, <3>2
    <3> HIDE DEF bad, By
    <3> DEFINE g == [r \in b..k |-> IF r = k THEN By(f[k - 1], k) ELSE f[r]]
    <3>4. \A r \in b..k : g[r] = IF r = b THEN m.edit ELSE By(g[r - 1], r)
      <4> TAKE r \in b..k
      <4>1. CASE r = k
        <5>1. g[r] = By(f[k - 1], k) /\ g[k - 1] = f[k - 1]
          BY <1>2, <2>2, <3>1, <4>1
        <5> QED BY <2>4, <4>1, <5>1
      <4>2. CASE r # k
        <5>1. r \in b..(k - 1) /\ g[r] = f[r]
          BY <1>2, <2>2, <4>2
        <5>2. f[r] = IF r = b THEN m.edit ELSE By(f[r - 1], r)
          BY <3>3, <5>1
        <5>3. r # b => g[r - 1] = f[r - 1]
          BY <1>2, <2>2, <5>1
        <5> QED BY <5>1, <5>2, <5>3
      <4> QED BY <4>1, <4>2
    <3>5. Trace(g, k)
      BY <3>4
    <3> QED BY <2>2, <3>5
  <2> QED BY <2>3, <2>4
<1>4. Trace(step, Rev)
  BY <1>3
<1> HIDE DEF step
<1>5. \A r \in b..Rev : step[r] = IF r = b THEN m.edit ELSE By(step[r - 1], r)
  BY <1>4
<1>6. \A e \in Edits, r \in 1..Rev : By(e, r) \in Edits
  BY TransformTyped DEF Rev
<1> HIDE DEF By
<1>7. step[Rev] \in Edits
  <2> DEFINE bad == {k \in b..Rev : step[k] \notin Edits}
  <2> SUFFICES ASSUME bad # {} PROVE FALSE
    BY <1>2
  <2>0. bad \in SUBSET Nat
    BY <1>2
  <2>1. PICK k \in bad : \A j \in bad : k <= j
    BY <2>0, SomeLeast
  <2>2. k \in b..Rev /\ step[k] \notin Edits
    BY <2>1
  <2>3. k # b
    BY <1>5, <2>2 DEF b
  <2>4. k - 1 \in b..Rev /\ k - 1 < k /\ k \in 1..Rev
    BY <1>2, <2>2, <2>3
  <2>5. step[k - 1] \in Edits
    BY <1>2, <2>1, <2>2, <2>4
  <2>6. step[k] = By(step[k - 1], k)
    BY <1>5, <2>2, <2>3
  <2> QED BY <1>6, <2>2, <2>4, <2>5, <2>6
<1> QED BY <1>1, <1>7

-----------------------------------------------------------------------------
(* The phones and the messages, given the versions the server has had.      *)

Ids == Clients \X Nat
Version(body, revision) == [body |-> body, revision |-> revision]
AnyVersion == [body : Text, revision : Nat]
EventRows == [name : {"remote", "saved", "conflict", "failure"}, body : Text, revision : Nat]
PhoneRows == [
    screen : Text, uiServer : Text, uiRevision : Nat, base : Nat,
    review : BOOLEAN, inFlight : BOOLEAN, savePending : BOOLEAN,
    timer : BOOLEAN, away : BOOLEAN,
    draft : [saved : BOOLEAN, body : Text, base : Nat],
    events : Seq(EventRows), server : Text, desired : Text, revision : Nat,
    ready : BOOLEAN, paused : BOOLEAN,
    pending : Seq([id : Ids, edit : Edits]), made : Nat, linked : BOOLEAN,
    up : Seq([id : Ids, base : Nat, edit : Edits])]

\* The text on the screen is the server's, is under review, or is drafted.
Drafted(k) ==
    \/ k.screen = k.uiServer
    \/ k.review
    \/ k.draft.saved /\ k.draft.body = k.screen

Events(V) == {e \in EventRows : e.name # "failure" => Version(e.body, e.revision) \in V}

\* The socket thread and the UI thread take only versions for the note.
GoodSocket(k, V) ==
    /\ k \in PhoneRows
    /\ Version(k.server, k.revision) \in V
    /\ k.events \in Seq(Events(V))
GoodPhone(k, V) ==
    /\ GoodSocket(k, V)
    /\ Version(k.uiServer, k.uiRevision) \in V
    /\ Drafted(k)

SameScreen(k, r) ==
    /\ r.screen = k.screen /\ r.uiServer = k.uiServer /\ r.uiRevision = k.uiRevision
    /\ r.review = k.review /\ r.draft = k.draft

Messages(V) ==
    {Error} \cup {Snapshot(v.body, v.revision) : v \in V}
    \cup {Ack(id, v.body, v.revision, d) : id \in Ids, v \in V, d \in BOOLEAN}

\* A message is an error, or carries a version.
LEMMA Told ==
    ASSUME NEW V \in SUBSET AnyVersion, NEW m \in Messages(V)
    PROVE  \/ m.type = "note.error"
           \/ /\ m.type \in {"note.snapshot", "note.ack"}
              /\ m.body \in Text /\ m.revision \in Nat
              /\ Version(m.body, m.revision) \in V
<1>1. CASE m = Error
  BY <1>1 DEF Error
<1>2. CASE \E v \in V : m = Snapshot(v.body, v.revision)
  <2>1. PICK v \in V : m = Snapshot(v.body, v.revision)
    BY <1>2
  <2>2. v = Version(v.body, v.revision) /\ v.body \in Text /\ v.revision \in Nat
    BY DEF AnyVersion, Version
  <2> QED BY <2>1, <2>2 DEF Snapshot
<1>3. CASE \E id \in Ids, v \in V, d \in BOOLEAN : m = Ack(id, v.body, v.revision, d)
  <2>1. PICK id \in Ids, v \in V, d \in BOOLEAN : m = Ack(id, v.body, v.revision, d)
    BY <1>3
  <2>2. v = Version(v.body, v.revision) /\ v.body \in Text /\ v.revision \in Nat
    BY DEF AnyVersion, Version
  <2> QED BY <2>1, <2>2 DEF Ack
<1> QED BY <1>1, <1>2, <1>3 DEF Messages

\* An acknowledgement of a version is a message.
LEMMA AckMade ==
    ASSUME NEW V, NEW id \in Ids, NEW v \in V, NEW d \in BOOLEAN
    PROVE  Ack(id, v.body, v.revision, d) \in Messages(V)
<1>1. PICK m : m = Ack(id, v.body, v.revision, d)
  OBVIOUS
<1>2. \E i \in Ids, w \in V, b \in BOOLEAN : m = Ack(i, w.body, w.revision, b)
  BY <1>1
<1>3. m \in {Ack(i, w.body, w.revision, b) : i \in Ids, w \in V, b \in BOOLEAN}
  BY <1>2
<1> QED BY <1>1, <1>3 DEF Messages

\* sendCurrent leaves the screen and what the phone takes for the note.
LEMMA SendCurrentGood ==
    ASSUME NEW V \in SUBSET AnyVersion, NEW k, GoodSocket(k, V)
    PROVE  GoodSocket(SendCurrent(k), V) /\ SameScreen(k, SendCurrent(k))
<1>1. CASE k.pending = <<>>
  BY <1>1 DEF SendCurrent, SameScreen
<1>2. CASE k.pending # <<>>
  <2>1. k \in PhoneRows /\ k.pending \in Seq([id : Ids, edit : Edits]) /\ k.revision \in Nat
        /\ k.up \in Seq([id : Ids, base : Nat, edit : Edits])
    BY DEF GoodSocket, PhoneRows
  <2>2. Head(k.pending) \in [id : Ids, edit : Edits]
    BY <1>2, <2>1, HeadTailProperties
  <2>3. PICK row : row = [id |-> Head(k.pending).id, base |-> k.revision,
                          edit |-> Head(k.pending).edit]
    OBVIOUS
  <2>4. row \in [id : Ids, base : Nat, edit : Edits]
    BY <2>1, <2>2, <2>3
  <2>5. PICK up : up = Append(k.up, row)
    OBVIOUS
  <2>6. up \in Seq([id : Ids, base : Nat, edit : Edits])
    BY <2>1, <2>4, <2>5, AppendProperties
  <2>7. SendCurrent(k) = [k EXCEPT !.up = up]
    BY <1>2, <2>3, <2>5 DEF SendCurrent
  <2>8. SendCurrent(k) \in PhoneRows
    BY <2>1, <2>6, <2>7 DEF PhoneRows
  <2> QED BY <2>1, <2>7, <2>8 DEF GoodSocket, SameScreen, PhoneRows
<1> QED BY <1>1, <1>2

\* So does drain ...
LEMMA DrainGood ==
    ASSUME NEW c \in Clients, NEW V \in SUBSET AnyVersion, NEW k, GoodSocket(k, V)
    PROVE  GoodSocket(Drain(c, k), V) /\ SameScreen(k, Drain(c, k))
<1>1. CASE ~k.ready \/ k.paused \/ k.pending # <<>> \/ k.desired = k.server
  BY <1>1 DEF Drain, SameScreen
<1>2. CASE ~(~k.ready \/ k.paused \/ k.pending # <<>> \/ k.desired = k.server)
  <2>1. k \in PhoneRows /\ k.server \in Text /\ k.desired \in Text /\ k.made \in Nat
    BY DEF GoodSocket, PhoneRows
  <2>2. PICK plan \in Seq(Edits) : plan = EditPlan(k.server, k.desired)
    BY <2>1, PlanTyped
  <2>3. Len(plan) \in Nat /\ \A i \in 1..Len(plan) : plan[i] \in Edits
    BY ElementOfSeq, LenProperties
  <2> DEFINE Row(i) == [id |-> <<c, k.made + i>>, edit |-> plan[i]]
  <2>4. PICK pending : pending = [i \in 1..Len(plan) |-> Row(i)]
    OBVIOUS
  <2>5. pending \in Seq([id : Ids, edit : Edits])
    <3>1. \A i \in 1..Len(plan) : Row(i) \in [id : Ids, edit : Edits]
      BY <2>1, <2>3 DEF Ids
    <3> HIDE DEF Row
    <3>2. pending \in [1..Len(plan) -> [id : Ids, edit : Edits]]
      BY <2>4, <3>1
    <3> QED BY <2>3, <3>2, Listed
  <2>6. PICK p, made : /\ p = [k EXCEPT !.pending = pending, !.made = made]
                       /\ made = k.made + Len(plan)
    OBVIOUS
  <2>11. made \in Nat
    BY <2>1, <2>3, <2>6
  <2>7. p \in PhoneRows
    BY <2>1, <2>5, <2>6, <2>11 DEF PhoneRows
  <2>8. GoodSocket(p, V) /\ SameScreen(k, p)
    BY <2>1, <2>6, <2>7 DEF GoodSocket, SameScreen, PhoneRows
  <2>9. Drain(c, k) = SendCurrent(p)
    BY <1>2, <2>2, <2>4, <2>6 DEF Drain
  <2>10. GoodSocket(SendCurrent(p), V) /\ SameScreen(p, SendCurrent(p))
    BY <2>8, SendCurrentGood
  <2> QED BY <2>8, <2>9, <2>10 DEF SameScreen
<1> QED BY <1>1, <1>2

\* ... and so do update and keepLocal.
LEMMA UpdateGood ==
    ASSUME NEW c \in Clients, NEW V \in SUBSET AnyVersion, NEW k, GoodSocket(k, V),
           NEW body \in Text
    PROVE  /\ GoodSocket(Update(c, k, body), V) /\ SameScreen(k, Update(c, k, body))
           /\ GoodSocket(KeepLocal(c, k, body), V) /\ SameScreen(k, KeepLocal(c, k, body))
<1>1. ASSUME NEW p, p = [k EXCEPT !.desired = body]
                    \/ p = [k EXCEPT !.desired = body, !.paused = FALSE]
      PROVE  GoodSocket(p, V) /\ SameScreen(k, p)
  <2>1. k \in PhoneRows
    BY DEF GoodSocket
  <2>2. p \in PhoneRows
    <3>1. CASE p = [k EXCEPT !.desired = body]
      BY <2>1, <3>1 DEF PhoneRows
    <3>2. CASE p = [k EXCEPT !.desired = body, !.paused = FALSE]
      BY <2>1, <3>2 DEF PhoneRows
    <3> QED BY <1>1, <3>1, <3>2
  <2> QED BY <1>1, <2>1, <2>2 DEF GoodSocket, SameScreen, PhoneRows
<1>2. ASSUME NEW p, GoodSocket(p, V), SameScreen(k, p)
      PROVE  GoodSocket(Drain(c, p), V) /\ SameScreen(k, Drain(c, p))
  <2>1. GoodSocket(Drain(c, p), V) /\ SameScreen(p, Drain(c, p))
    BY <1>2, DrainGood
  <2> QED BY <1>2, <2>1 DEF SameScreen
<1>3. PICK p, q : /\ p = [k EXCEPT !.desired = body]
                  /\ q = [k EXCEPT !.desired = body, !.paused = FALSE]
  OBVIOUS
<1>4. Update(c, k, body) = Drain(c, p) /\ KeepLocal(c, k, body) = Drain(c, q)
  BY <1>3 DEF Update, KeepLocal
<1>5. GoodSocket(p, V) /\ SameScreen(k, p) /\ GoodSocket(q, V) /\ SameScreen(k, q)
  BY <1>1, <1>3
<1> QED BY <1>2, <1>4, <1>5

\* A callback carries the version the socket thread holds.
LEMMA PostGood ==
    ASSUME NEW V \in SUBSET AnyVersion, NEW k, GoodSocket(k, V)
    PROVE  /\ \A name \in {"remote", "saved", "conflict"} :
                 GoodSocket(Post(k, Event(name, k)), V) /\ SameScreen(k, Post(k, Event(name, k)))
           /\ GoodSocket(Post(k, Failure), V) /\ SameScreen(k, Post(k, Failure))
<1>1. k \in PhoneRows /\ k.server \in Text /\ k.revision \in Nat
      /\ Version(k.server, k.revision) \in V /\ k.events \in Seq(Events(V))
      /\ k.events \in Seq(EventRows)
  BY DEF GoodSocket, PhoneRows
<1>2. ASSUME NEW e \in Events(V)
      PROVE  GoodSocket(Post(k, e), V) /\ SameScreen(k, Post(k, e))
  <2>1. e \in EventRows
    BY DEF Events
  <2>2. PICK events : events = Append(k.events, e)
    OBVIOUS
  <2>3. events \in Seq(EventRows) /\ events \in Seq(Events(V))
    BY <1>1, <2>1, <2>2, AppendProperties
  <2>4. Post(k, e) = [k EXCEPT !.events = events]
    BY <2>2 DEF Post
  <2>5. Post(k, e) \in PhoneRows
    BY <1>1, <2>3, <2>4 DEF PhoneRows
  <2> QED BY <1>1, <2>3, <2>4, <2>5 DEF GoodSocket, SameScreen, PhoneRows
<1>3. \A name \in {"remote", "saved", "conflict"} : Event(name, k) \in Events(V)
  BY <1>1 DEF Event, Events, EventRows
<1>4. Failure \in Events(V)
  BY DEF Failure, Events, EventRows, Text
<1> QED BY <1>2, <1>3, <1>4

\* The socket thread takes over a version it heard of.
LEMMA HeardGood ==
    ASSUME NEW V \in SUBSET AnyVersion, NEW k, GoodSocket(k, V),
           NEW body \in Text, NEW revision \in Nat, Version(body, revision) \in V,
           NEW pending \in Seq([id : Ids, edit : Edits]),
           NEW ready \in BOOLEAN, NEW paused \in BOOLEAN,
           NEW r, r = [k EXCEPT !.server = body, !.revision = revision, !.ready = ready,
                                !.pending = pending, !.paused = paused]
    PROVE  GoodSocket(r, V) /\ SameScreen(k, r)
<1>1. r \in PhoneRows
  BY DEF GoodSocket, PhoneRows
<1> QED BY <1>1 DEF GoodSocket, SameScreen, PhoneRows

\* handle: every message leaves the screen, and what it brings is a version.
LEMMA HandleGood ==
    ASSUME NEW c \in Clients, NEW V \in SUBSET AnyVersion, NEW k, GoodSocket(k, V),
           NEW m \in Messages(V)
    PROVE  GoodSocket(Handle(c, k, m), V) /\ SameScreen(k, Handle(c, k, m))
<1> DEFINE Good(r) == GoodSocket(r, V) /\ SameScreen(k, r)
           Pending == Seq([id : Ids, edit : Edits])
<1>1. k \in PhoneRows /\ k.pending \in Pending /\ k.ready \in BOOLEAN
      /\ k.paused \in BOOLEAN
  BY DEF GoodSocket, PhoneRows
<1>2. ASSUME NEW p, Good(p)
      PROVE  /\ Good(SendCurrent(p)) /\ Good(Drain(c, p))
             /\ \A name \in {"remote", "saved", "conflict"} : Good(Post(p, Event(name, p)))
  <2>1. GoodSocket(SendCurrent(p), V) /\ SameScreen(p, SendCurrent(p))
    BY <1>2, SendCurrentGood
  <2>2. GoodSocket(Drain(c, p), V) /\ SameScreen(p, Drain(c, p))
    BY <1>2, DrainGood
  <2>3. \A name \in {"remote", "saved", "conflict"} :
           GoodSocket(Post(p, Event(name, p)), V) /\ SameScreen(p, Post(p, Event(name, p)))
    BY <1>2, PostGood
  <2> QED BY <1>2, <2>1, <2>2, <2>3 DEF SameScreen
<1>3. Good(Post(k, Failure))
  BY PostGood
<1>4. ASSUME m.type # "note.error"
      PROVE  /\ m.type \in {"note.snapshot", "note.ack"}
             /\ m.body \in Text /\ m.revision \in Nat /\ Version(m.body, m.revision) \in V
  BY <1>4, Told
<1>5. ASSUME m.type # "note.error",
             NEW pending \in Pending, NEW ready \in BOOLEAN, NEW paused \in BOOLEAN,
             NEW r, r = [k EXCEPT !.server = m.body, !.revision = m.revision, !.ready = ready,
                                  !.pending = pending, !.paused = paused]
      PROVE  Good(r)
  <2>1. m.body \in Text /\ m.revision \in Nat /\ Version(m.body, m.revision) \in V
    BY <1>4, <1>5
  <2>2. GoodSocket(r, V) /\ SameScreen(k, r)
    BY <1>5, <2>1, HeardGood
  <2> QED BY <2>2
<1>6. CASE m.type = "note.snapshot"
  <2>1. PICK h : h = [k EXCEPT !.server = m.body, !.revision = m.revision, !.ready = TRUE]
    OBVIOUS
  <2>2. h = [k EXCEPT !.server = m.body, !.revision = m.revision, !.ready = TRUE,
                      !.pending = k.pending, !.paused = k.paused]
    BY <1>1, <2>1 DEF PhoneRows
  <2>3. Good(h)
    BY <1>1, <1>5, <1>6, <2>2
  <2> HIDE DEF Good
  <2>4. PICK p : p = Post(h, Event("remote", h))
    OBVIOUS
  <2>5. Good(p) /\ Good(SendCurrent(h))
    BY <1>2, <2>3, <2>4
  <2>6. Good(Drain(c, p))
    BY <1>2, <2>5
  <2>7. Handle(c, k, m) \in {Drain(c, p), SendCurrent(h)}
    BY <1>6, <2>1, <2>4 DEF Handle, HandleSnapshot
  <2>8. Good(Handle(c, k, m))
    BY <2>5, <2>6, <2>7
  <2> QED BY <2>8 DEF Good
<1>7. CASE m.type = "note.ack"
  <2>1. PICK h : h = [k EXCEPT !.server = m.body, !.revision = m.revision]
    OBVIOUS
  <2>2. h = [k EXCEPT !.server = m.body, !.revision = m.revision, !.ready = k.ready,
                      !.pending = k.pending, !.paused = k.paused]
    BY <1>1, <2>1 DEF PhoneRows
  <2>3. Good(h)
    BY <1>1, <1>5, <1>7, <2>2
  <2>4. PICK rest : rest = IF m.duplicate THEN <<>> ELSE Tail(k.pending)
    OBVIOUS
  <2>5. PICK d : d = [h EXCEPT !.pending = rest]
    OBVIOUS
  <2>6. k.pending # <<>> => Good(d)
    <3>1. SUFFICES ASSUME k.pending # <<>> PROVE Good(d)
      OBVIOUS
    <3>2. rest \in Pending
      BY <1>1, <2>4, <3>1, HeadTailProperties
    <3>3. d = [k EXCEPT !.server = m.body, !.revision = m.revision, !.ready = k.ready,
                        !.pending = rest, !.paused = k.paused]
      BY <1>1, <2>1, <2>5 DEF PhoneRows
    <3> QED BY <1>1, <1>5, <1>7, <3>2, <3>3
  <2>7. h.pending = k.pending
    BY <1>1, <2>1 DEF PhoneRows
  <2>8. PICK p, q : p = Post(h, Event("remote", h)) /\ q = Post(d, Event("saved", d))
    OBVIOUS
  <2>9. \/ Handle(c, k, m) \in {p, h}
        \/ k.pending # <<>> /\ Handle(c, k, m) \in {Drain(c, q), SendCurrent(d)}
    BY <1>7, <2>1, <2>4, <2>5, <2>7, <2>8 DEF Handle, HandleAck
  <2> HIDE DEF Good
  <2>10. Good(p)
    BY <1>2, <2>3, <2>8
  <2>11. k.pending # <<>> => Good(q) /\ Good(SendCurrent(d))
    BY <1>2, <2>6, <2>8
  <2>12. k.pending # <<>> => Good(Drain(c, q))
    BY <1>2, <2>11
  <2>13. Good(Handle(c, k, m))
    BY <2>3, <2>9, <2>10, <2>11, <2>12
  <2> QED BY <2>13 DEF Good
<1>8. CASE m.type = "note.error"
  BY <1>3, <1>8 DEF Handle
<1> QED BY <1>4, <1>6, <1>7, <1>8

\* What was on the screen stays on it, or is the body of a version.
Kept(k, r, V) == r.screen = k.screen \/ \E v \in V : v.body = k.screen

\* Starting or requesting a save drafts the screen and does not change it.
LEMMA SaveGood ==
    ASSUME NEW c \in Clients, NEW V \in SUBSET AnyVersion, NEW k, GoodSocket(k, V),
           Version(k.uiServer, k.uiRevision) \in V
    PROVE  /\ GoodPhone(StartBodySave(c, k), V) /\ StartBodySave(c, k).screen = k.screen
           /\ Drafted(k) => /\ GoodPhone(DrainAutosave(c, k), V)
                            /\ DrainAutosave(c, k).screen = k.screen
           /\ Drafted(k) => /\ GoodPhone(RequestAutosave(c, k), V)
                            /\ RequestAutosave(c, k).screen = k.screen
<1>1. ASSUME NEW j, GoodSocket(j, V), Version(j.uiServer, j.uiRevision) \in V
      PROVE  GoodPhone(StartBodySave(c, j), V) /\ StartBodySave(c, j).screen = j.screen
  <2>1. j \in PhoneRows /\ j.screen \in Text /\ j.base \in Nat
    BY <1>1 DEF GoodSocket, PhoneRows
  <2>2. PICK draft : draft = Draft(j.screen, j.base)
    OBVIOUS
  <2>3. draft \in [saved : BOOLEAN, body : Text, base : Nat]
        /\ draft.saved /\ draft.body = j.screen
    BY <2>1, <2>2 DEF Draft
  <2>4. PICK p : p = [j EXCEPT !.draft = draft, !.inFlight = TRUE]
    OBVIOUS
  <2>5. p \in PhoneRows
    BY <2>1, <2>3, <2>4 DEF PhoneRows
  <2>6. GoodSocket(p, V) /\ p.screen = j.screen /\ p.uiServer = j.uiServer
        /\ p.uiRevision = j.uiRevision /\ p.draft = draft
    BY <1>1, <2>1, <2>4, <2>5 DEF GoodSocket, PhoneRows
  <2>7. StartBodySave(c, j) = Update(c, p, j.screen)
    BY <2>2, <2>4 DEF StartBodySave
  <2>8. GoodSocket(StartBodySave(c, j), V) /\ SameScreen(p, StartBodySave(c, j))
    BY <2>1, <2>6, <2>7, UpdateGood
  <2> QED BY <1>1, <2>3, <2>6, <2>8 DEF SameScreen, GoodPhone, Drafted
<1>2. ASSUME NEW j, GoodSocket(j, V), Version(j.uiServer, j.uiRevision) \in V, Drafted(j)
      PROVE  GoodPhone(DrainAutosave(c, j), V) /\ DrainAutosave(c, j).screen = j.screen
  <2>1. PICK p : p = [j EXCEPT !.savePending = FALSE]
    OBVIOUS
  <2>2. p \in PhoneRows
    BY <1>2, <2>1 DEF GoodSocket, PhoneRows
  <2>3. GoodSocket(p, V) /\ p.screen = j.screen /\ Version(p.uiServer, p.uiRevision) \in V
        /\ Drafted(p)
    BY <1>2, <2>1, <2>2 DEF GoodSocket, Drafted, PhoneRows
  <2>4. GoodPhone(j, V) /\ GoodPhone(p, V)
    BY <1>2, <2>3 DEF GoodPhone
  <2>5. GoodPhone(StartBodySave(c, p), V) /\ StartBodySave(c, p).screen = p.screen
    BY <1>1, <2>3
  <2>6. DrainAutosave(c, j) \in {j, p, StartBodySave(c, p)}
    BY <2>1 DEF DrainAutosave
  <2> QED BY <2>3, <2>4, <2>5, <2>6
<1>3. ASSUME Drafted(k)
      PROVE  GoodPhone(RequestAutosave(c, k), V) /\ RequestAutosave(c, k).screen = k.screen
  <2>1. PICK p : p = [k EXCEPT !.savePending = TRUE]
    OBVIOUS
  <2>2. p \in PhoneRows
    BY <2>1 DEF GoodSocket, PhoneRows
  <2>3. GoodSocket(p, V) /\ p.screen = k.screen /\ Version(p.uiServer, p.uiRevision) \in V
        /\ Drafted(p)
    BY <1>3, <2>1, <2>2 DEF GoodSocket, Drafted, PhoneRows
  <2>4. GoodPhone(k, V)
    BY <1>3 DEF GoodPhone
  <2>5. GoodPhone(DrainAutosave(c, p), V) /\ DrainAutosave(c, p).screen = p.screen
    BY <1>2, <2>3
  <2>6. RequestAutosave(c, k) \in {k, DrainAutosave(c, p)}
    BY <2>1 DEF RequestAutosave
  <2> QED BY <2>3, <2>4, <2>5, <2>6
<1> QED BY <1>1, <1>2, <1>3

\* applyRemote replaces only text that is in the shared note.
LEMMA RemoteGood ==
    ASSUME NEW V \in SUBSET AnyVersion, NEW k, GoodPhone(k, V),
           NEW e, Version(e.body, e.revision) \in V
    PROVE  GoodPhone(ApplyRemote(k, e), V) /\ Kept(k, ApplyRemote(k, e), V)
<1>1. k \in PhoneRows /\ GoodSocket(k, V) /\ Version(k.uiServer, k.uiRevision) \in V
      /\ e.body \in Text /\ e.revision \in Nat
  BY DEF GoodPhone, GoodSocket, Version, AnyVersion
<1>2. PICK r : r = ApplyRemote(k, e)
  OBVIOUS
<1>3. CASE k.screen = k.uiServer \/ k.screen = e.body
  <2>1. NoDraft \in [saved : BOOLEAN, body : Text, base : Nat]
    BY DEF NoDraft, Text
  <2>2. r = [k EXCEPT !.uiServer = e.body, !.uiRevision = e.revision, !.screen = e.body,
                      !.base = e.revision, !.draft = NoDraft, !.review = FALSE]
    BY <1>2, <1>3 DEF ApplyRemote
  <2> HIDE DEF NoDraft
  <2>3. r \in PhoneRows
    BY <1>1, <2>1, <2>2 DEF PhoneRows
  <2>4. r.server = k.server /\ r.revision = k.revision /\ r.events = k.events
        /\ r.uiServer = e.body /\ r.uiRevision = e.revision /\ r.screen = e.body
    BY <1>1, <2>2 DEF PhoneRows
  <2>5. \E v \in V : v.body = k.screen
    <3>1. Version(e.body, e.revision).body = e.body
          /\ Version(k.uiServer, k.uiRevision).body = k.uiServer
      BY DEF Version
    <3> QED BY <1>1, <1>3, <3>1
  <2> QED BY <1>1, <1>2, <2>3, <2>4, <2>5 DEF GoodPhone, GoodSocket, Drafted, Kept
<1>4. CASE ~(k.screen = k.uiServer \/ k.screen = e.body)
  <2>1. r = [k EXCEPT !.uiServer = e.body, !.uiRevision = e.revision, !.review = TRUE]
    BY <1>2, <1>4 DEF ApplyRemote
  <2>2. r \in PhoneRows
    BY <1>1, <2>1 DEF PhoneRows
  <2>3. r.server = k.server /\ r.revision = k.revision /\ r.events = k.events
        /\ r.uiServer = e.body /\ r.uiRevision = e.revision /\ r.screen = k.screen /\ r.review
    BY <1>1, <2>1 DEF PhoneRows
  <2> QED BY <1>1, <1>2, <2>2, <2>3 DEF GoodPhone, GoodSocket, Drafted, Kept
<1> QED BY <1>3, <1>4

\* applySaved keeps the screen, and drafts what was typed since.
LEMMA SavedGood ==
    ASSUME NEW c \in Clients, NEW V \in SUBSET AnyVersion, NEW k, GoodPhone(k, V),
           NEW e, Version(e.body, e.revision) \in V
    PROVE  GoodPhone(ApplySaved(c, k, e), V) /\ ApplySaved(c, k, e).screen = k.screen
<1>1. k \in PhoneRows /\ GoodSocket(k, V) /\ k.screen \in Text
      /\ e.body \in Text /\ e.revision \in Nat
  BY DEF GoodPhone, GoodSocket, PhoneRows, Version, AnyVersion
<1>2. ASSUME NEW r, r \in PhoneRows, r.server = k.server, r.revision = k.revision,
             r.events = k.events, r.uiServer = e.body, r.uiRevision = e.revision,
             r.screen = k.screen, Drafted(r)
      PROVE  /\ GoodPhone(DrainAutosave(c, r), V)
             /\ DrainAutosave(c, r).screen = k.screen
  <2>1. GoodSocket(r, V) /\ Version(r.uiServer, r.uiRevision) \in V
    BY <1>1, <1>2 DEF GoodSocket
  <2> QED BY <1>2, <2>1, SaveGood
<1>3. CASE k.screen = e.body
  <2>1. NoDraft \in [saved : BOOLEAN, body : Text, base : Nat]
    BY DEF NoDraft, Text
  <2>2. PICK r : r = [k EXCEPT !.inFlight = FALSE, !.uiServer = e.body, !.uiRevision = e.revision,
                               !.base = e.revision, !.draft = NoDraft, !.review = FALSE]
    OBVIOUS
  <2>3. ApplySaved(c, k, e) = DrainAutosave(c, r)
    BY <1>3, <2>2 DEF ApplySaved
  <2> HIDE DEF NoDraft
  <2>4. r \in PhoneRows
    BY <1>1, <2>1, <2>2 DEF PhoneRows
  <2>5. /\ r.server = k.server /\ r.revision = k.revision /\ r.events = k.events
        /\ r.uiServer = e.body /\ r.uiRevision = e.revision /\ r.screen = k.screen
    BY <1>1, <2>2 DEF PhoneRows
  <2>6. Drafted(r)
    BY <1>3, <2>5 DEF Drafted
  <2> QED BY <1>2, <2>3, <2>4, <2>5, <2>6
<1>4. CASE k.screen # e.body
  <2>1. PICK draft : draft = Draft(k.screen, e.revision)
    OBVIOUS
  <2>2. draft \in [saved : BOOLEAN, body : Text, base : Nat]
        /\ draft.saved /\ draft.body = k.screen
    BY <1>1, <2>1 DEF Draft
  <2>3. PICK r : r = [k EXCEPT !.inFlight = FALSE, !.uiServer = e.body, !.uiRevision = e.revision,
                               !.base = e.revision, !.draft = draft, !.savePending = TRUE]
    OBVIOUS
  <2>4. ApplySaved(c, k, e) = DrainAutosave(c, r)
    BY <1>4, <2>1, <2>3 DEF ApplySaved
  <2>5. r \in PhoneRows
    BY <1>1, <2>2, <2>3 DEF PhoneRows
  <2>6. /\ r.server = k.server /\ r.revision = k.revision /\ r.events = k.events
        /\ r.uiServer = e.body /\ r.uiRevision = e.revision /\ r.screen = k.screen
        /\ r.draft = draft
    BY <1>1, <2>3 DEF PhoneRows
  <2>7. Drafted(r)
    BY <2>2, <2>6 DEF Drafted
  <2> QED BY <1>2, <2>4, <2>5, <2>6, <2>7
<1> QED BY <1>3, <1>4

\* Every callback on the UI thread keeps the text or has it in a version.
LEMMA EventGood ==
    ASSUME NEW c \in Clients, NEW V \in SUBSET AnyVersion, NEW k, GoodPhone(k, V),
           NEW e \in Events(V)
    PROVE  GoodPhone(ApplyEvent(c, k, e), V) /\ Kept(k, ApplyEvent(c, k, e), V)
<1>1. k \in PhoneRows /\ GoodSocket(k, V) /\ Version(k.uiServer, k.uiRevision) \in V
      /\ Drafted(k) /\ e.name \in {"remote", "saved", "conflict", "failure"}
  BY DEF GoodPhone, GoodSocket, Events, EventRows
<1>2. ASSUME e.name # "failure"
      PROVE  e.body \in Text /\ e.revision \in Nat /\ Version(e.body, e.revision) \in V
  BY <1>2 DEF Events, EventRows
<1>3. CASE e.name = "remote"
  <2>1. ApplyEvent(c, k, e) = ApplyRemote(k, e)
    BY <1>3 DEF ApplyEvent
  <2> QED BY <1>2, <1>3, <2>1, RemoteGood
<1>4. CASE e.name = "saved"
  <2>1. ApplyEvent(c, k, e) = ApplySaved(c, k, e)
    BY <1>4 DEF ApplyEvent
  <2> QED BY <1>2, <1>4, <2>1, SavedGood DEF Kept
<1>5. CASE e.name = "conflict"
  <2>1. PICK r : r = ApplyEvent(c, k, e)
    OBVIOUS
  <2>2. r = [k EXCEPT !.inFlight = FALSE, !.uiServer = e.body, !.uiRevision = e.revision,
                      !.review = TRUE]
    BY <1>5, <2>1 DEF ApplyEvent, ApplyConflict
  <2>3. r \in PhoneRows
    BY <1>1, <1>2, <1>5, <2>2 DEF PhoneRows
  <2>4. r.server = k.server /\ r.revision = k.revision /\ r.events = k.events
        /\ r.uiServer = e.body /\ r.uiRevision = e.revision /\ r.screen = k.screen /\ r.review
    BY <1>1, <2>2 DEF PhoneRows
  <2> QED BY <1>1, <1>2, <1>5, <2>1, <2>3, <2>4 DEF GoodPhone, GoodSocket, Drafted, Kept
<1>6. CASE e.name = "failure"
  <2>1. PICK r : r = ApplyEvent(c, k, e)
    OBVIOUS
  <2>2. r = [k EXCEPT !.inFlight = FALSE]
    BY <1>6, <2>1 DEF ApplyEvent
  <2>3. r \in PhoneRows
    BY <1>1, <2>2 DEF PhoneRows
  <2>4. r.server = k.server /\ r.revision = k.revision /\ r.events = k.events
        /\ r.uiServer = k.uiServer /\ r.uiRevision = k.uiRevision /\ r.screen = k.screen
        /\ r.review = k.review /\ r.draft = k.draft
    BY <1>1, <2>2 DEF PhoneRows
  <2> QED BY <1>1, <2>1, <2>3, <2>4 DEF GoodPhone, GoodSocket, Drafted, Kept
<1> QED BY <1>1, <1>3, <1>4, <1>5, <1>6

\* "Use the shared version" shows the version it holds.
LEMMA UseServerGood ==
    ASSUME NEW V \in SUBSET AnyVersion, NEW k, GoodPhone(k, V)
    PROVE  GoodPhone(UseServerVersion(k), V) /\ UseServerVersion(k).screen = k.uiServer
<1>1. k \in PhoneRows /\ GoodSocket(k, V) /\ Version(k.uiServer, k.uiRevision) \in V
      /\ k.server \in Text /\ k.uiServer \in Text /\ k.uiRevision \in Nat
  BY DEF GoodPhone, GoodSocket, PhoneRows
<1>2. PICK r : r = UseServerVersion(k)
  OBVIOUS
<1>3. r = [k EXCEPT !.desired = k.server, !.pending = <<>>, !.paused = FALSE,
                    !.review = FALSE, !.screen = k.uiServer, !.base = k.uiRevision,
                    !.draft = NoDraft]
  BY <1>1, <1>2 DEF UseServerVersion, AcceptServer, PhoneRows
<1>4. NoDraft \in [saved : BOOLEAN, body : Text, base : Nat]
      /\ <<>> \in Seq([id : Ids, edit : Edits])
  BY DEF NoDraft, Text
<1> HIDE DEF NoDraft
<1>5. r \in PhoneRows
  BY <1>1, <1>3, <1>4 DEF PhoneRows
<1>6. r.server = k.server /\ r.revision = k.revision /\ r.events = k.events
      /\ r.uiServer = k.uiServer /\ r.uiRevision = k.uiRevision /\ r.screen = k.uiServer
  BY <1>1, <1>3 DEF PhoneRows
<1> QED BY <1>1, <1>2, <1>5, <1>6 DEF GoodPhone, GoodSocket, Drafted

\* finishMerge keeps the screen and drafts it.
LEMMA MergeGood ==
    ASSUME NEW c \in Clients, NEW V \in SUBSET AnyVersion, NEW k, GoodPhone(k, V)
    PROVE  GoodPhone(FinishMerge(c, k), V) /\ FinishMerge(c, k).screen = k.screen
<1>1. k \in PhoneRows /\ GoodSocket(k, V) /\ Version(k.uiServer, k.uiRevision) \in V
      /\ k.screen \in Text /\ k.uiRevision \in Nat
  BY DEF GoodPhone, GoodSocket, PhoneRows
<1>2. CASE k.screen = k.uiServer
  BY <1>2, UseServerGood DEF FinishMerge
<1>3. CASE k.screen # k.uiServer
  <2>1. PICK draft : draft = Draft(k.screen, k.uiRevision)
    OBVIOUS
  <2>2. draft \in [saved : BOOLEAN, body : Text, base : Nat]
        /\ draft.saved /\ draft.body = k.screen
    BY <1>1, <2>1 DEF Draft
  <2>3. PICK p : p = [k EXCEPT !.review = FALSE, !.base = k.uiRevision, !.inFlight = TRUE,
                               !.draft = draft]
    OBVIOUS
  <2>4. p \in PhoneRows
    BY <1>1, <2>2, <2>3 DEF PhoneRows
  <2>5. /\ p.server = k.server /\ p.revision = k.revision /\ p.events = k.events
        /\ p.uiServer = k.uiServer /\ p.uiRevision = k.uiRevision /\ p.screen = k.screen
        /\ p.draft = draft
    BY <1>1, <2>3 DEF PhoneRows
  <2>6. GoodSocket(p, V)
    BY <1>1, <2>4, <2>5 DEF GoodSocket
  <2>7. PICK r : r = KeepLocal(c, p, k.screen)
    OBVIOUS
  <2>8. GoodSocket(r, V) /\ SameScreen(p, r)
    BY <1>1, <2>6, <2>7, UpdateGood
  <2>9. FinishMerge(c, k) = r
    BY <1>3, <2>1, <2>3, <2>7 DEF FinishMerge
  <2> QED BY <1>1, <2>2, <2>5, <2>8, <2>9 DEF GoodPhone, SameScreen, Drafted
<1> QED BY <1>2, <1>3

\* reconcileBody keeps text the server does not have.
LEMMA ReconcileGood ==
    ASSUME NEW c \in Clients, NEW V \in SUBSET AnyVersion, NEW k, GoodPhone(k, V),
           NEW body, NEW revision, Version(body, revision) \in V
    PROVE  /\ GoodPhone(ReconcileBody(c, k, body, revision), V)
           /\ Kept(k, ReconcileBody(c, k, body, revision), V)
<1>1. k \in PhoneRows /\ GoodSocket(k, V) /\ Version(k.uiServer, k.uiRevision) \in V
      /\ k.screen \in Text /\ k.events \in Seq(Events(V)) /\ Drafted(k)
      /\ body \in Text /\ revision \in Nat
  BY DEF GoodPhone, GoodSocket, PhoneRows, Version, AnyVersion
<1>9. PICK heard : heard = [k EXCEPT !.uiServer = body, !.uiRevision = revision, !.away = FALSE]
  OBVIOUS
<1>2. PICK opened : opened = FreshSocket(heard, body, revision)
  OBVIOUS
<1>10. heard \in PhoneRows /\ heard.screen = k.screen /\ heard.review = k.review
       /\ heard.draft = k.draft /\ heard.events = k.events
       /\ heard.uiServer = body /\ heard.uiRevision = revision
  BY <1>1, <1>9 DEF PhoneRows
<1>3. opened = [heard EXCEPT !.server = body, !.desired = body, !.revision = revision,
                             !.ready = FALSE, !.paused = FALSE, !.pending = <<>>]
  BY <1>2 DEF FreshSocket
<1>4. opened \in PhoneRows
  <2>1. PICK empty : empty = <<>>
    OBVIOUS
  <2>2. empty \in Seq([id : Ids, edit : Edits])
    BY <2>1
  <2>3. PICK first : first = [heard EXCEPT !.server = body, !.desired = body, !.revision = revision]
    OBVIOUS
  <2>4. first \in PhoneRows
    BY <1>1, <1>10, <2>3 DEF PhoneRows
  <2>5. opened = [first EXCEPT !.ready = FALSE, !.paused = FALSE, !.pending = empty]
    BY <1>3, <2>1, <2>3
  <2> QED BY <2>2, <2>4, <2>5 DEF PhoneRows
<1>5. /\ opened.server = body /\ opened.revision = revision /\ opened.events = k.events
      /\ opened.uiServer = body /\ opened.uiRevision = revision /\ opened.screen = k.screen
      /\ opened.review = k.review /\ opened.draft = k.draft
  BY <1>1, <1>3, <1>10 DEF PhoneRows
<1> HIDE DEF FreshSocket
<1>6. CASE k.screen = k.uiServer
  <2>1. PICK r : r = [opened EXCEPT !.screen = body, !.draft = NoDraft, !.base = revision]
    OBVIOUS
  <2>2. ReconcileBody(c, k, body, revision) = r
    BY <1>2, <1>6, <1>9, <2>1 DEF ReconcileBody
  <2>3. NoDraft \in [saved : BOOLEAN, body : Text, base : Nat]
    BY DEF NoDraft, Text
  <2> HIDE DEF NoDraft
  <2>4. r \in PhoneRows
    BY <1>1, <1>4, <2>1, <2>3 DEF PhoneRows
  <2>5. r.server = body /\ r.revision = revision /\ r.events = k.events
        /\ r.uiServer = body /\ r.uiRevision = revision /\ r.screen = body
    BY <1>4, <1>5, <2>1 DEF PhoneRows
  <2>6. \E v \in V : v.body = k.screen
    <3>1. Version(k.uiServer, k.uiRevision).body = k.uiServer
      BY DEF Version
    <3> QED BY <1>1, <1>6, <3>1
  <2> QED BY <1>1, <2>2, <2>4, <2>5, <2>6 DEF GoodPhone, GoodSocket, Drafted, Kept
<1>7. CASE k.screen # k.uiServer /\ k.base # revision
  <2>1. PICK r : r = [opened EXCEPT !.review = TRUE]
    OBVIOUS
  <2>2. ReconcileBody(c, k, body, revision) = r
    BY <1>2, <1>7, <1>9, <2>1 DEF ReconcileBody
  <2>3. r \in PhoneRows
    BY <1>4, <2>1 DEF PhoneRows
  <2>4. r.server = body /\ r.revision = revision /\ r.events = k.events
        /\ r.uiServer = body /\ r.uiRevision = revision /\ r.screen = k.screen /\ r.review
    BY <1>4, <1>5, <2>1 DEF PhoneRows
  <2> QED BY <1>1, <2>2, <2>3, <2>4 DEF GoodPhone, GoodSocket, Drafted, Kept
<1>8. CASE k.screen # k.uiServer /\ k.base = revision
  <2>1. PICK r : r = Update(c, opened, k.screen)
    OBVIOUS
  <2>2. ReconcileBody(c, k, body, revision) = r
    BY <1>2, <1>5, <1>8, <1>9, <2>1 DEF ReconcileBody
  <2>3. GoodSocket(opened, V)
    BY <1>1, <1>4, <1>5 DEF GoodSocket
  <2>4. GoodSocket(r, V) /\ SameScreen(opened, r)
    BY <1>1, <2>1, <2>3, UpdateGood
  <2> QED BY <1>1, <1>5, <1>8, <2>2, <2>4 DEF GoodPhone, SameScreen, Drafted, Kept
<1> QED BY <1>6, <1>7, <1>8

-----------------------------------------------------------------------------
(* The inductive invariant.                                                 *)

Versions == {Version(history[r + 1], r) : r \in 0..Revision}
Tasks(V) == [at : {"closed", "joined", "running"}]
            \cup [at : {"sending", "result"}, message : Messages(V)]

\* Every accepted operation made one version.
HistoryOK ==
    /\ operations \in Seq([id : Ids, edit : Edits])
    /\ history \in Seq(Text) /\ Len(history) = Revision + 1

SyncInv ==
    /\ HistoryOK
    /\ task \in [Clients -> Tasks(Versions)]
    /\ down \in [Clients -> Seq(Messages(Versions))]
    /\ phone \in [Clients -> PhoneRows]
    /\ \A c \in Clients : GoodPhone(phone[c], Versions)
    /\ edited \in [Clients -> Nat] /\ typed \in [Clients -> SUBSET Characters]
    /\ TypedTextSurvives

\* The current body is a version, and all bodies of versions are written.
LEMMA HistoryFacts ==
    ASSUME HistoryOK
    PROVE  /\ Revision \in Nat /\ Versions \in SUBSET AnyVersion
           /\ Version(Body, Revision) \in Versions /\ Body \in Text
           /\ \A v \in Versions : Chars(v.body) \subseteq Written
<1>1. Revision \in Nat /\ history \in Seq(Text) /\ Len(history) = Revision + 1
  BY DEF HistoryOK, Revision
<1>2. \A r \in 0..Revision : r \in Nat /\ r + 1 \in 1..Len(history) /\ history[r + 1] \in Text
  BY <1>1
<1>3. Versions \in SUBSET AnyVersion
  BY <1>2 DEF Versions, AnyVersion, Version
<1>4. Version(Body, Revision) \in Versions /\ Body \in Text
  BY <1>1, <1>2 DEF Versions, Body
<1>5. ASSUME NEW v \in Versions PROVE Chars(v.body) \subseteq Written
  <2>1. PICK r \in 0..Revision : v = Version(history[r + 1], r)
    BY DEF Versions
  <2>2. v.body = history[r + 1] /\ r + 1 \in 1..Len(history)
    BY <1>2, <2>1 DEF Version
  <2> HIDE DEF Chars
  <2> QED BY <2>2 DEF Written
<1> QED BY <1>1, <1>3, <1>4, <1>5

\* More versions, and what was good stays good.
LEMMA Wider ==
    ASSUME NEW V, NEW W, V \subseteq W
    PROVE  /\ Messages(V) \subseteq Messages(W) /\ Tasks(V) \subseteq Tasks(W)
           /\ \A k : GoodPhone(k, V) => GoodPhone(k, W)
           /\ \A q \in Seq(Messages(V)) : q \in Seq(Messages(W))
<1>1. Messages(V) \subseteq Messages(W)
  <2> SUFFICES ASSUME NEW m \in Messages(V) PROVE m \in Messages(W)
    OBVIOUS
  <2>1. CASE m = Error
    BY <2>1 DEF Messages
  <2>2. CASE \E v \in V : m = Snapshot(v.body, v.revision)
    <3>1. m \in {Snapshot(v.body, v.revision) : v \in W}
      BY <2>2
    <3> HIDE DEF Snapshot
    <3> QED BY <3>1 DEF Messages
  <2>3. CASE \E id \in Ids, v \in V, d \in BOOLEAN : m = Ack(id, v.body, v.revision, d)
    <3>1. m \in {Ack(id, v.body, v.revision, d) : id \in Ids, v \in W, d \in BOOLEAN}
      BY <2>3
    <3> QED BY <3>1 DEF Messages
  <2> QED BY <2>1, <2>2, <2>3 DEF Messages
<1>2. Tasks(V) \subseteq Tasks(W)
  BY <1>1 DEF Tasks
<1>3. Events(V) \subseteq Events(W)
  BY DEF Events
<1>4. ASSUME NEW k, GoodPhone(k, V) PROVE GoodPhone(k, W)
  <2>1. k.events \in Seq(Events(W))
    BY <1>3, <1>4, SeqMonotonic DEF GoodPhone, GoodSocket
  <2> QED BY <1>4, <2>1 DEF GoodPhone, GoodSocket
<1>5. ASSUME NEW q \in Seq(Messages(V)) PROVE q \in Seq(Messages(W))
  BY <1>1, SeqMonotonic
<1> QED BY <1>1, <1>2, <1>4, <1>5

\* Both phones start with revision 0.
LEMMA SyncInit == Init => SyncInv
<1> SUFFICES ASSUME Init PROVE SyncInv
  OBVIOUS
<1>1. InitialBody \in Text
  BY FirstText
<1>2. HistoryOK /\ Revision = 0 /\ history[1] = InitialBody
  BY <1>1 DEF Init, HistoryOK, Revision
<1>3. Version(InitialBody, 0) \in Versions
  BY <1>2 DEF Versions
<1>4. Selected \in PhoneRows
  BY <1>1 DEF Selected, NoDraft, PhoneRows, Text
<1>5. Selected.server = InitialBody /\ Selected.revision = 0 /\ Selected.uiServer = InitialBody
      /\ Selected.uiRevision = 0 /\ Selected.screen = InitialBody /\ Selected.events = <<>>
  BY DEF Selected
<1>6. GoodPhone(Selected, Versions)
  BY <1>3, <1>4, <1>5 DEF GoodPhone, GoodSocket, Drafted
<1> HIDE DEF Selected
<1>7. [at |-> "closed"] \in Tasks(Versions)
  BY DEF Tasks
<1>8. task \in [Clients -> Tasks(Versions)] /\ down \in [Clients -> Seq(Messages(Versions))]
  BY <1>7 DEF Init
<1>9. phone \in [Clients -> PhoneRows] /\ \A c \in Clients : GoodPhone(phone[c], Versions)
  BY <1>4, <1>6 DEF Init
<1>10. edited \in [Clients -> Nat] /\ typed \in [Clients -> SUBSET Characters]
       /\ TypedTextSurvives
  BY DEF Init, TypedTextSurvives
<1> QED BY <1>2, <1>8, <1>9, <1>10 DEF SyncInv

\* The server has accepted nothing and one phone, if any, changed.
LEMMA PhoneStep ==
    ASSUME SyncInv, UNCHANGED serverVars,
           NEW c \in Clients, NEW k, GoodPhone(k, Versions), phone' = [phone EXCEPT ![c] = k],
           task' \in [Clients -> Tasks(Versions)], down' \in [Clients -> Seq(Messages(Versions))],
           edited' \in [Clients -> Nat], typed' \in [Clients -> SUBSET Characters],
           \A d \in Clients \ {c} : typed'[d] \subseteq typed[d],
           typed'[c] \subseteq Chars(k.screen) \cup Written
    PROVE  SyncInv'
<1>1. HistoryOK' /\ Versions' = Versions /\ Written' = Written
  BY DEF SyncInv, HistoryOK, serverVars, Versions, Revision, Written
<1>2. \A d \in Clients : phone'[d] = IF d = c THEN k ELSE phone[d]
  BY DEF SyncInv
<1>3. phone' \in [Clients -> PhoneRows]
  BY DEF SyncInv, GoodPhone, GoodSocket
<1>4. \A d \in Clients : GoodPhone(phone'[d], Versions)
  BY <1>2 DEF SyncInv
<1>5. TypedTextSurvives'
  <2> SUFFICES ASSUME NEW d \in Clients
               PROVE  typed'[d] \subseteq Chars(phone'[d].screen) \cup Written
    BY <1>1 DEF TypedTextSurvives
  <2>1. typed[d] \subseteq Chars(phone[d].screen) \cup Written
    BY DEF SyncInv, TypedTextSurvives
  <2> QED BY <1>2, <2>1
<1>6. PICK V : V = Versions
  OBVIOUS
<1>7. task' \in [Clients -> Tasks(V)] /\ down' \in [Clients -> Seq(Messages(V))]
      /\ \A d \in Clients : GoodPhone(phone'[d], V)
  BY <1>4, <1>6
<1>8. V = Versions'
  BY <1>1, <1>6
<1>9. task' \in [Clients -> Tasks(Versions')] /\ down' \in [Clients -> Seq(Messages(Versions'))]
      /\ \A d \in Clients : GoodPhone(phone'[d], Versions')
  BY <1>7, <1>8
<1> QED BY <1>1, <1>3, <1>5, <1>9 DEF SyncInv

\* Typed text survives a step that keeps the screen or had it in a version.
LEMMA KeptText ==
    ASSUME SyncInv, NEW c \in Clients, NEW k, Kept(phone[c], k, Versions)
    PROVE  typed[c] \subseteq Chars(k.screen) \cup Written
<1>1. typed[c] \subseteq Chars(phone[c].screen) \cup Written
  BY DEF SyncInv, TypedTextSurvives
<1>2. \A v \in Versions : Chars(v.body) \subseteq Written
  BY HistoryFacts DEF SyncInv
<1> QED BY <1>1, <1>2 DEF Kept

-----------------------------------------------------------------------------
(* The steps of the users.                                                  *)

\* bindEditors: a changed text is drafted, unless it is under review.
LEMMA ChangeGood ==
    ASSUME SyncInv, NEW c \in Clients, NEW text \in Text, Change(c, text)
    PROVE  \E k : /\ phone' = [phone EXCEPT ![c] = k]
                  /\ GoodPhone(k, Versions) /\ k.screen = text
<1>1. PICK k : k = phone[c]
  OBVIOUS
<1>2. k \in PhoneRows /\ GoodSocket(k, Versions) /\ Version(k.uiServer, k.uiRevision) \in Versions
      /\ k.base \in Nat
  BY <1>1 DEF SyncInv, GoodPhone, GoodSocket, PhoneRows
<1>3. PICK draft : draft = Draft(text, k.base)
  OBVIOUS
<1>4. draft \in [saved : BOOLEAN, body : Text, base : Nat] /\ draft.saved /\ draft.body = text
  BY <1>2, <1>3 DEF Draft
<1>5. CASE k.review
  <2>1. PICK r : r = [k EXCEPT !.screen = text]
    OBVIOUS
  <2>2. r \in PhoneRows
    BY <1>2, <2>1 DEF PhoneRows
  <2>3. r.server = k.server /\ r.revision = k.revision /\ r.events = k.events /\ r.screen = text
        /\ r.uiServer = k.uiServer /\ r.uiRevision = k.uiRevision /\ r.review
    BY <1>2, <1>5, <2>1 DEF PhoneRows
  <2>4. GoodPhone(r, Versions)
    BY <1>2, <2>2, <2>3 DEF GoodPhone, GoodSocket, Drafted
  <2>5. phone' = [phone EXCEPT ![c] = r]
    BY <1>1, <1>5, <2>1 DEF Change
  <2> QED BY <2>3, <2>4, <2>5
<1>6. CASE ~k.review
  <2>1. PICK r : r = [k EXCEPT !.screen = text, !.timer = TRUE, !.draft = draft]
    OBVIOUS
  <2>2. r \in PhoneRows
    BY <1>2, <1>4, <2>1 DEF PhoneRows
  <2>3. r.server = k.server /\ r.revision = k.revision /\ r.events = k.events /\ r.screen = text
        /\ r.uiServer = k.uiServer /\ r.uiRevision = k.uiRevision /\ r.draft = draft
    BY <1>2, <2>1 DEF PhoneRows
  <2>4. GoodPhone(r, Versions)
    BY <1>2, <1>4, <2>2, <2>3 DEF GoodPhone, GoodSocket, Drafted
  <2>5. phone' = [phone EXCEPT ![c] = r]
    BY <1>1, <1>3, <1>6, <2>1 DEF Change
  <2> QED BY <2>3, <2>4, <2>5
<1> QED BY <1>5, <1>6

\* The new character is on the screen.
LEMMA TypeTextStep ==
    ASSUME SyncInv, NEW c \in Clients, TypeText(c)
    PROVE  SyncInv'
<1> DEFINE x == <<c, edited[c]>>
<1>1. PICK s : s = phone[c].screen
  OBVIOUS
<1>2. s \in Text /\ x \in Characters /\ edited[c] \in Nat
  BY <1>1 DEF SyncInv, PhoneRows, Characters
<1>3. PICK p \in 0..Len(s) : /\ Change(c, Apply(s, Insert(p, <<x>>)))
                             /\ typed' = [typed EXCEPT ![c] = @ \cup {x}]
  BY <1>1 DEF TypeText
<1>4. PICK t : t = Apply(s, Insert(p, <<x>>))
  OBVIOUS
<1>5. t \in Text /\ Chars(s) \cup {x} \subseteq Chars(t)
  BY <1>2, <1>4, InsertChars
<1>6. PICK k : phone' = [phone EXCEPT ![c] = k] /\ GoodPhone(k, Versions) /\ k.screen = t
  BY <1>3, <1>4, <1>5, ChangeGood
<1>7. /\ UNCHANGED serverVars /\ task' = task /\ down' = down
      /\ edited' = [edited EXCEPT ![c] = @ + 1]
  BY DEF TypeText
<1> HIDE DEF x
<1>8. /\ typed' \in [Clients -> SUBSET Characters] /\ edited' \in [Clients -> Nat]
      /\ \A d \in Clients \ {c} : typed'[d] \subseteq typed[d]
      /\ typed'[c] = typed[c] \cup {x}
  BY <1>2, <1>3, <1>7 DEF SyncInv
<1>9. typed[c] \subseteq Chars(s) \cup Written
  BY <1>1 DEF SyncInv, TypedTextSurvives
<1>10. typed'[c] \subseteq Chars(k.screen) \cup Written
  BY <1>5, <1>6, <1>8, <1>9
<1>11. task' \in [Clients -> Tasks(Versions)] /\ down' \in [Clients -> Seq(Messages(Versions))]
  BY <1>7 DEF SyncInv
<1> QED BY <1>6, <1>7, <1>8, <1>10, <1>11, PhoneStep

\* The erased character counts as deleted for both users.
LEMMA EraseTextStep ==
    ASSUME SyncInv, NEW c \in Clients, EraseText(c)
    PROVE  SyncInv'
<1>1. PICK s : s = phone[c].screen
  OBVIOUS
<1>2. s \in Text
  BY <1>1 DEF SyncInv, PhoneRows
<1>3. PICK p \in 1..Len(s) : /\ Change(c, Apply(s, Delete(p - 1, 1)))
                             /\ typed' = [d \in Clients |-> typed[d] \ {s[p]}]
  BY <1>1 DEF EraseText
<1>4. PICK t : t = Apply(s, Delete(p - 1, 1))
  OBVIOUS
<1>5. t \in Text /\ Chars(s) \ {s[p]} \subseteq Chars(t)
  BY <1>2, <1>4, EraseChars
<1>6. PICK k : phone' = [phone EXCEPT ![c] = k] /\ GoodPhone(k, Versions) /\ k.screen = t
  BY <1>3, <1>4, <1>5, ChangeGood
<1>7. /\ UNCHANGED serverVars /\ task' = task /\ down' = down
      /\ edited' = [edited EXCEPT ![c] = @ + 1]
  BY DEF EraseText
<1>8. /\ typed' \in [Clients -> SUBSET Characters] /\ edited' \in [Clients -> Nat]
      /\ \A d \in Clients \ {c} : typed'[d] \subseteq typed[d]
      /\ typed'[c] = typed[c] \ {s[p]}
  BY <1>3, <1>7 DEF SyncInv
<1>9. typed[c] \subseteq Chars(s) \cup Written
  BY <1>1 DEF SyncInv, TypedTextSurvives
<1>10. typed'[c] \subseteq Chars(k.screen) \cup Written
  BY <1>5, <1>6, <1>8, <1>9
<1>11. task' \in [Clients -> Tasks(Versions)] /\ down' \in [Clients -> Seq(Messages(Versions))]
  BY <1>7 DEF SyncInv
<1> QED BY <1>6, <1>7, <1>8, <1>10, <1>11, PhoneStep

\* A step that changes one phone, and neither the server nor what users typed.
LEMMA ScreenStep ==
    ASSUME SyncInv, UNCHANGED serverVars, UNCHANGED userVars,
           NEW c \in Clients, NEW k, GoodPhone(k, Versions), Kept(phone[c], k, Versions),
           phone' = [phone EXCEPT ![c] = k],
           task' \in [Clients -> Tasks(Versions)], down' \in [Clients -> Seq(Messages(Versions))]
    PROVE  SyncInv'
<1>1. typed' = typed /\ edited' = edited
  BY DEF userVars
<1>2. typed[c] \subseteq Chars(k.screen) \cup Written
  BY KeptText
<1>3. typed \in [Clients -> SUBSET Characters] /\ edited \in [Clients -> Nat]
  BY DEF SyncInv
<1> QED BY <1>1, <1>2, <1>3, PhoneStep

\* The autosave fires.
LEMMA AutosaveStep ==
    ASSUME SyncInv, NEW c \in Clients, AutosaveFires(c)
    PROVE  SyncInv'
<1>1. PICK k, p : k = phone[c] /\ p = [k EXCEPT !.timer = FALSE]
  OBVIOUS
<1>2. PICK r : r = RequestAutosave(c, p)
  OBVIOUS
<1>3. phone' = [phone EXCEPT ![c] = r] /\ UNCHANGED <<serverVars, task, down, userVars>>
  BY <1>1, <1>2 DEF AutosaveFires
<1>4. PICK V : V = Versions
  OBVIOUS
<1>5. GoodPhone(k, V) /\ V \in SUBSET AnyVersion
  BY <1>1, <1>4, HistoryFacts DEF SyncInv
<1>6. p \in PhoneRows /\ p.screen = k.screen /\ p.uiServer = k.uiServer
      /\ p.uiRevision = k.uiRevision /\ p.review = k.review /\ p.draft = k.draft
      /\ p.server = k.server /\ p.revision = k.revision /\ p.events = k.events
  BY <1>1, <1>5 DEF GoodPhone, GoodSocket, PhoneRows
<1>7. GoodSocket(p, V) /\ Version(p.uiServer, p.uiRevision) \in V /\ Drafted(p)
  BY <1>5, <1>6 DEF GoodPhone, GoodSocket, Drafted
<1>8. GoodPhone(r, V) /\ r.screen = k.screen
  BY <1>2, <1>5, <1>6, <1>7, SaveGood
<1>9. GoodPhone(r, Versions) /\ Kept(phone[c], r, Versions)
  BY <1>1, <1>4, <1>8 DEF Kept
<1>10. task' \in [Clients -> Tasks(Versions)] /\ down' \in [Clients -> Seq(Messages(Versions))]
  BY <1>3 DEF SyncInv
<1> QED BY <1>3, <1>9, <1>10, ScreenStep

\* What the user gives up is no longer owed.
LEMMA ChooseServerStep ==
    ASSUME SyncInv, NEW c \in Clients, ChooseServer(c)
    PROVE  SyncInv'
<1>1. PICK k, r : k = phone[c] /\ r = UseServerVersion(k)
  OBVIOUS
<1>2. phone' = [phone EXCEPT ![c] = r] /\ UNCHANGED <<serverVars, task, down, edited>>
      /\ typed' = [typed EXCEPT ![c] = {}]
  BY <1>1 DEF ChooseServer
<1>3. GoodPhone(r, Versions)
  BY <1>1, HistoryFacts, UseServerGood DEF SyncInv
<1>4. /\ typed' \in [Clients -> SUBSET Characters] /\ edited' \in [Clients -> Nat]
      /\ \A d \in Clients \ {c} : typed'[d] \subseteq typed[d]
      /\ typed'[c] \subseteq Chars(r.screen) \cup Written
  BY <1>2 DEF SyncInv
<1>5. task' \in [Clients -> Tasks(Versions)] /\ down' \in [Clients -> Seq(Messages(Versions))]
  BY <1>2 DEF SyncInv
<1> QED BY <1>2, <1>3, <1>4, <1>5, PhoneStep

\* The user has merged.
LEMMA ChooseMergeStep ==
    ASSUME SyncInv, NEW c \in Clients, ChooseMerge(c)
    PROVE  SyncInv'
<1>1. PICK k, r : k = phone[c] /\ r = FinishMerge(c, k)
  OBVIOUS
<1>2. phone' = [phone EXCEPT ![c] = r] /\ UNCHANGED <<serverVars, task, down, userVars>>
  BY <1>1 DEF ChooseMerge
<1>3. GoodPhone(r, Versions) /\ r.screen = k.screen
  BY <1>1, HistoryFacts, MergeGood DEF SyncInv
<1>4. Kept(phone[c], r, Versions)
  BY <1>1, <1>3 DEF Kept
<1>5. task' \in [Clients -> Tasks(Versions)] /\ down' \in [Clients -> Seq(Messages(Versions))]
  BY <1>2 DEF SyncInv
<1> QED BY <1>2, <1>3, <1>4, <1>5, ScreenStep

\* Leaving flushes and drafts.
LEMMA LeaveEditorStep ==
    ASSUME SyncInv, NEW c \in Clients, LeaveEditor(c)
    PROVE  SyncInv'
<1>1. PICK h, p : h = phone[c] /\ p = [h EXCEPT !.timer = FALSE]
  OBVIOUS
<1>2. PICK k : k = IF h.timer THEN RequestAutosave(c, p) ELSE h
  OBVIOUS
<1>3. PICK draft : draft = IF k.screen # k.uiServer THEN Draft(k.screen, k.base) ELSE k.draft
  OBVIOUS
<1>4. PICK r : r = [k EXCEPT !.draft = draft, !.inFlight = FALSE, !.ready = FALSE, !.away = TRUE,
                             !.linked = FALSE, !.events = <<>>]
  OBVIOUS
<1>5. /\ phone' = [phone EXCEPT ![c] = r] /\ down' = [down EXCEPT ![c] = <<>>]
      /\ UNCHANGED <<serverVars, task, userVars>>
  BY <1>1, <1>2, <1>3, <1>4 DEF LeaveEditor
<1>6. PICK V : V = Versions
  OBVIOUS
<1>7. GoodPhone(h, V) /\ V \in SUBSET AnyVersion
  BY <1>1, <1>6, HistoryFacts DEF SyncInv
<1>8. p \in PhoneRows /\ p.screen = h.screen /\ p.uiServer = h.uiServer
      /\ p.uiRevision = h.uiRevision /\ p.review = h.review /\ p.draft = h.draft
      /\ p.server = h.server /\ p.revision = h.revision /\ p.events = h.events
  BY <1>1, <1>7 DEF GoodPhone, GoodSocket, PhoneRows
<1>9. GoodSocket(p, V) /\ Version(p.uiServer, p.uiRevision) \in V /\ Drafted(p)
  BY <1>7, <1>8 DEF GoodPhone, GoodSocket, Drafted
<1>10. GoodPhone(k, V) /\ k.screen = h.screen
  BY <1>2, <1>7, <1>8, <1>9, SaveGood
<1>11. k \in PhoneRows /\ k.screen \in Text /\ k.base \in Nat
       /\ k.draft \in [saved : BOOLEAN, body : Text, base : Nat]
  BY <1>10 DEF GoodPhone, GoodSocket, PhoneRows
<1>12. draft \in [saved : BOOLEAN, body : Text, base : Nat]
       /\ (k.screen # k.uiServer => draft.saved /\ draft.body = k.screen)
  BY <1>3, <1>11 DEF Draft
<1>13. r \in PhoneRows
  <2>1. <<>> \in Seq(EventRows)
    OBVIOUS
  <2> QED BY <1>4, <1>11, <1>12, <2>1 DEF PhoneRows
<1>14. r.screen = k.screen /\ r.uiServer = k.uiServer /\ r.uiRevision = k.uiRevision
       /\ r.draft = draft /\ r.server = k.server /\ r.revision = k.revision /\ r.events = <<>>
  BY <1>4, <1>11 DEF PhoneRows
<1>15. GoodPhone(r, V)
  <2>1. <<>> \in Seq(Events(V))
    OBVIOUS
  <2> QED BY <1>10, <1>12, <1>13, <1>14, <2>1 DEF GoodPhone, GoodSocket, Drafted
<1>16. GoodPhone(r, Versions) /\ Kept(phone[c], r, Versions)
  BY <1>1, <1>6, <1>10, <1>14, <1>15 DEF Kept
<1>17. task' \in [Clients -> Tasks(Versions)] /\ down' \in [Clients -> Seq(Messages(Versions))]
  <2>1. <<>> \in Seq(Messages(Versions))
    OBVIOUS
  <2> QED BY <1>5, <2>1 DEF SyncInv
<1> QED BY <1>5, <1>16, <1>17, ScreenStep

\* The phone comes back to the note as it is now.
LEMMA ReturnStep ==
    ASSUME SyncInv, NEW c \in Clients, ReturnToEditor(c)
    PROVE  SyncInv'
<1>1. PICK k, body, revision : k = phone[c] /\ body = Body /\ revision = Revision
  OBVIOUS
<1>2. PICK r : r = ReconcileBody(c, k, body, revision)
  OBVIOUS
<1>3. phone' = [phone EXCEPT ![c] = r] /\ UNCHANGED <<serverVars, task, down, userVars>>
  BY <1>1, <1>2 DEF ReturnToEditor
<1>4. Version(body, revision) \in Versions /\ Versions \in SUBSET AnyVersion
      /\ GoodPhone(k, Versions)
  BY <1>1, HistoryFacts DEF SyncInv
<1>5. GoodPhone(r, Versions) /\ Kept(phone[c], r, Versions)
  BY <1>1, <1>2, <1>4, ReconcileGood
<1>6. task' \in [Clients -> Tasks(Versions)] /\ down' \in [Clients -> Seq(Messages(Versions))]
  BY <1>3 DEF SyncInv
<1> QED BY <1>3, <1>5, <1>6, ScreenStep

-----------------------------------------------------------------------------
(* The steps of the server, the sockets and the network.                    *)

\* Flags of the connection say nothing of the texts.
LEMMA LinkGood ==
    ASSUME NEW V, NEW k, GoodPhone(k, V), NEW linked \in BOOLEAN, NEW ready \in BOOLEAN,
           NEW up \in Seq([id : Ids, base : Nat, edit : Edits]),
           NEW r, r = [k EXCEPT !.linked = linked, !.ready = ready, !.up = up]
    PROVE  GoodPhone(r, V) /\ Kept(k, r, V)
<1>1. r \in PhoneRows
  BY DEF GoodPhone, GoodSocket, PhoneRows
<1>2. r.screen = k.screen /\ r.uiServer = k.uiServer /\ r.uiRevision = k.uiRevision
      /\ r.review = k.review /\ r.draft = k.draft
      /\ r.server = k.server /\ r.revision = k.revision /\ r.events = k.events
  BY DEF GoodPhone, GoodSocket, PhoneRows
<1> QED BY <1>1, <1>2 DEF GoodPhone, GoodSocket, Drafted, Kept

\* A connection is registered.
LEMMA JoinHubStep ==
    ASSUME SyncInv, NEW c \in Clients, JoinHub(c)
    PROVE  SyncInv'
<1>1. PICK k, r : k = phone[c] /\ r = [k EXCEPT !.linked = TRUE]
  OBVIOUS
<1>2. /\ phone' = [phone EXCEPT ![c] = r] /\ task' = [task EXCEPT ![c] = [at |-> "joined"]]
      /\ UNCHANGED <<serverVars, down, userVars>>
  BY <1>1 DEF JoinHub
<1>3. GoodPhone(k, Versions) /\ k \in PhoneRows
  BY <1>1 DEF SyncInv
<1>4. r = [k EXCEPT !.linked = TRUE, !.ready = k.ready, !.up = k.up]
  BY <1>1, <1>3 DEF PhoneRows
<1>5. k.ready \in BOOLEAN /\ k.up \in Seq([id : Ids, base : Nat, edit : Edits])
  BY <1>3 DEF PhoneRows
<1>6. GoodPhone(r, Versions) /\ Kept(phone[c], r, Versions)
  BY <1>1, <1>3, <1>4, <1>5, LinkGood
<1>7. task' \in [Clients -> Tasks(Versions)] /\ down' \in [Clients -> Seq(Messages(Versions))]
  <2>1. [at |-> "joined"] \in Tasks(Versions)
    BY DEF Tasks
  <2> QED BY <1>2, <2>1 DEF SyncInv
<1> QED BY <1>2, <1>6, <1>7, ScreenStep

\* A step of a server task that leaves the phones as they are.
LEMMA TaskStep ==
    ASSUME SyncInv, UNCHANGED serverVars, UNCHANGED userVars, phone' = phone,
           NEW c \in Clients,
           task' \in [Clients -> Tasks(Versions)], down' \in [Clients -> Seq(Messages(Versions))]
    PROVE  SyncInv'
<1>1. PICK k : k = phone[c]
  OBVIOUS
<1>2. phone' = [phone EXCEPT ![c] = k]
  BY <1>1 DEF SyncInv
<1>3. GoodPhone(k, Versions) /\ Kept(phone[c], k, Versions)
  BY <1>1 DEF SyncInv, Kept
<1> QED BY <1>2, <1>3, ScreenStep

\* The snapshot is the current version.
LEMMA ReadSnapshotStep ==
    ASSUME SyncInv, NEW c \in Clients, ReadSnapshot(c)
    PROVE  SyncInv'
<1>1. PICK m : m = Snapshot(Body, Revision)
  OBVIOUS
<1>2. m \in Messages(Versions)
  <2>1. PICK v \in Versions : v = Version(Body, Revision)
    BY HistoryFacts DEF SyncInv
  <2>2. m = Snapshot(v.body, v.revision)
    BY <1>1, <2>1 DEF Version
  <2> HIDE DEF Snapshot
  <2>3. m \in {Snapshot(w.body, w.revision) : w \in Versions}
    BY <2>2
  <2> QED BY <2>3 DEF Messages
<1>3. task' = [task EXCEPT ![c] = [at |-> "sending", message |-> m]]
      /\ UNCHANGED serverVars /\ UNCHANGED userVars /\ phone' = phone /\ down' = down
  BY <1>1 DEF ReadSnapshot
<1>4. [at |-> "sending", message |-> m] \in Tasks(Versions)
  BY <1>2 DEF Tasks
<1>5. task' \in [Clients -> Tasks(Versions)] /\ down' \in [Clients -> Seq(Messages(Versions))]
  BY <1>3, <1>4 DEF SyncInv
<1> QED BY <1>3, <1>5, TaskStep

\* What a task is about to send is a message.
LEMMA CarriedMessage ==
    ASSUME SyncInv, NEW c \in Clients, task[c].at \in {"sending", "result"}
    PROVE  task[c].message \in Messages(Versions)
<1>1. task[c] \in Tasks(Versions)
  BY DEF SyncInv
<1> QED BY <1>1 DEF Tasks

\* Sending and broadcasting move messages.
LEMMA DeliveryStep ==
    ASSUME SyncInv, NEW c \in Clients, SendSnapshot(c) \/ Broadcast(c)
    PROVE  SyncInv'
<1>1. PICK m : m = task[c].message
  OBVIOUS
<1>2. m \in Messages(Versions)
  BY <1>1, CarriedMessage DEF SendSnapshot, Broadcast
<1>3. /\ task' = [task EXCEPT ![c] = [at |-> "running"]]
      /\ UNCHANGED serverVars /\ UNCHANGED userVars /\ phone' = phone
  BY DEF SendSnapshot, Broadcast
<1>4. [at |-> "running"] \in Tasks(Versions)
  BY DEF Tasks
<1>5. \A d \in Clients : down[d] \in Seq(Messages(Versions))
                        /\ Append(down[d], m) \in Seq(Messages(Versions))
  BY <1>2, AppendProperties DEF SyncInv
<1>6. down' \in [Clients -> Seq(Messages(Versions))]
  <2>1. CASE SendSnapshot(c)
    <3>1. PICK q : q = IF phone[c].linked THEN Append(down[c], m) ELSE down[c]
      OBVIOUS
    <3>2. down' = [down EXCEPT ![c] = q]
      BY <1>1, <2>1, <3>1 DEF SendSnapshot
    <3>3. q \in Seq(Messages(Versions))
      BY <1>5, <3>1
    <3> QED BY <3>2, <3>3 DEF SyncInv
  <2>2. CASE Broadcast(c)
    <3>1. down' = [d \in Clients |-> IF phone[d].linked THEN Append(down[d], m) ELSE down[d]]
      BY <1>1, <2>2 DEF Broadcast
    <3> QED BY <1>5, <3>1
  <2> QED BY <2>1, <2>2
<1>7. task' \in [Clients -> Tasks(Versions)]
  BY <1>3, <1>4 DEF SyncInv
<1> QED BY <1>3, <1>6, <1>7, TaskStep

\* The server closes its end.
LEMMA HangUpStep ==
    ASSUME SyncInv, NEW c \in Clients, HangUp(c)
    PROVE  SyncInv'
<1>1. /\ task' = [task EXCEPT ![c] = [at |-> "closed"]]
      /\ UNCHANGED serverVars /\ UNCHANGED userVars /\ phone' = phone /\ down' = down
  BY DEF HangUp
<1>2. [at |-> "closed"] \in Tasks(Versions)
  BY DEF Tasks
<1>3. task' \in [Clients -> Tasks(Versions)] /\ down' \in [Clients -> Seq(Messages(Versions))]
  BY <1>1, <1>2 DEF SyncInv
<1> QED BY <1>1, <1>3, TaskStep

\* The socket thread handles a message.
LEMMA SocketMessageStep ==
    ASSUME SyncInv, NEW c \in Clients, SocketMessage(c)
    PROVE  SyncInv'
<1>1. PICK k, m : k = phone[c] /\ m = Head(down[c])
  OBVIOUS
<1>2. PICK r, rest : r = Handle(c, k, m) /\ rest = Tail(down[c])
  OBVIOUS
<1>3. /\ phone' = [phone EXCEPT ![c] = r] /\ down' = [down EXCEPT ![c] = rest] /\ down[c] # <<>>
      /\ UNCHANGED <<serverVars, task, userVars>>
  BY <1>1, <1>2 DEF SocketMessage
<1>4. down[c] \in Seq(Messages(Versions)) /\ GoodPhone(k, Versions)
      /\ Versions \in SUBSET AnyVersion
  BY <1>1, HistoryFacts DEF SyncInv
<1>5. m \in Messages(Versions) /\ rest \in Seq(Messages(Versions))
  BY <1>1, <1>2, <1>3, <1>4, HeadTailProperties
<1>6. GoodSocket(r, Versions) /\ SameScreen(k, r)
  BY <1>2, <1>4, <1>5, HandleGood DEF GoodPhone
<1>7. GoodPhone(r, Versions) /\ Kept(phone[c], r, Versions)
  BY <1>1, <1>4, <1>6 DEF GoodPhone, SameScreen, Drafted, Kept
<1>8. task' \in [Clients -> Tasks(Versions)] /\ down' \in [Clients -> Seq(Messages(Versions))]
  BY <1>3, <1>5 DEF SyncInv
<1> QED BY <1>3, <1>7, <1>8, ScreenStep

\* The UI thread runs a callback.
LEMMA UiCallbackStep ==
    ASSUME SyncInv, NEW c \in Clients, UiCallback(c)
    PROVE  SyncInv'
<1>1. PICK k, e, rest : k = phone[c] /\ e = Head(k.events) /\ rest = Tail(k.events)
  OBVIOUS
<1>2. PICK p : p = [k EXCEPT !.events = rest]
  OBVIOUS
<1>3. PICK r : r = ApplyEvent(c, p, e)
  OBVIOUS
<1>13. /\ phone' = [phone EXCEPT ![c] = ApplyEvent(c, [phone[c] EXCEPT !.events = Tail(phone[c].events)],
                                                   Head(phone[c].events))]
       /\ phone[c].events # <<>> /\ UNCHANGED <<serverVars, task, down, userVars>>
  BY DEF UiCallback
<1>14. p = [phone[c] EXCEPT !.events = Tail(phone[c].events)] /\ e = Head(phone[c].events)
  BY <1>1, <1>2
<1>4. /\ phone' = [phone EXCEPT ![c] = r] /\ k.events # <<>>
      /\ UNCHANGED <<serverVars, task, down, userVars>>
  BY <1>1, <1>3, <1>13, <1>14
<1>5. PICK V : V = Versions
  OBVIOUS
<1>6. GoodPhone(k, V) /\ k \in PhoneRows /\ k.events \in Seq(Events(V)) /\ k.events \in Seq(EventRows)
      /\ V \in SUBSET AnyVersion
  BY <1>1, <1>5, HistoryFacts DEF SyncInv, GoodPhone, GoodSocket, PhoneRows
<1>7. e \in Events(V) /\ rest \in Seq(Events(V)) /\ rest \in Seq(EventRows)
  BY <1>1, <1>4, <1>6, HeadTailProperties
<1>8. p \in PhoneRows /\ p.screen = k.screen /\ p.uiServer = k.uiServer
      /\ p.uiRevision = k.uiRevision /\ p.review = k.review /\ p.draft = k.draft
      /\ p.server = k.server /\ p.revision = k.revision /\ p.events = rest
  BY <1>2, <1>6, <1>7 DEF PhoneRows
<1>9. GoodPhone(p, V)
  BY <1>6, <1>7, <1>8 DEF GoodPhone, GoodSocket, Drafted
<1>10. GoodPhone(r, V) /\ Kept(p, r, V)
  BY <1>3, <1>6, <1>7, <1>9, EventGood
<1>11. GoodPhone(r, Versions) /\ Kept(phone[c], r, Versions)
  BY <1>1, <1>5, <1>8, <1>10 DEF Kept
<1>12. task' \in [Clients -> Tasks(Versions)] /\ down' \in [Clients -> Seq(Messages(Versions))]
  BY <1>4 DEF SyncInv
<1> QED BY <1>4, <1>11, <1>12, ScreenStep

\* A broken connection loses messages, never text.
LEMMA LoseConnectionStep ==
    ASSUME SyncInv, NEW c \in Clients, LoseConnection(c)
    PROVE  SyncInv'
<1>1. PICK k, p : k = phone[c] /\ p = [k EXCEPT !.linked = FALSE, !.ready = FALSE, !.up = <<>>]
  OBVIOUS
<1>2. PICK r : r = Post(p, Failure)
  OBVIOUS
<1>3. /\ phone' = [phone EXCEPT ![c] = r] /\ down' = [down EXCEPT ![c] = <<>>]
      /\ UNCHANGED <<serverVars, task, userVars>>
  BY <1>1, <1>2 DEF LoseConnection
<1>4. GoodPhone(k, Versions) /\ Versions \in SUBSET AnyVersion
  BY <1>1, HistoryFacts DEF SyncInv
<1>5. <<>> \in Seq([id : Ids, base : Nat, edit : Edits]) /\ <<>> \in Seq(Messages(Versions))
  OBVIOUS
<1>6. GoodPhone(p, Versions) /\ Kept(k, p, Versions)
  BY <1>1, <1>4, <1>5, LinkGood
<1>7. GoodSocket(r, Versions) /\ SameScreen(p, r)
  BY <1>2, <1>4, <1>6, PostGood DEF GoodPhone
<1>8. GoodPhone(r, Versions) /\ Kept(phone[c], r, Versions)
  BY <1>1, <1>6, <1>7 DEF GoodPhone, SameScreen, Drafted, Kept
<1>9. task' \in [Clients -> Tasks(Versions)] /\ down' \in [Clients -> Seq(Messages(Versions))]
  BY <1>3, <1>5 DEF SyncInv
<1> QED BY <1>3, <1>8, <1>9, ScreenStep

\* The message at the head of a phone's queue is typed, and taking it leaves a good phone.
LEMMA TakenGood ==
    ASSUME SyncInv, NEW c \in Clients, ApplyNoteEdit(c)
    PROVE  /\ Head(phone[c].up) \in [id : Ids, base : Nat, edit : Edits]
           /\ \E r : /\ phone' = [phone EXCEPT ![c] = r]
                    /\ GoodPhone(r, Versions) /\ r.screen = phone[c].screen
<1>1. PICK k, up : k = phone[c] /\ up = Tail(k.up)
  OBVIOUS
<1>2. PICK r : r = [k EXCEPT !.up = up]
  OBVIOUS
<1>3. GoodPhone(k, Versions) /\ k \in PhoneRows /\ k.ready \in BOOLEAN /\ k.linked \in BOOLEAN
      /\ k.up \in Seq([id : Ids, base : Nat, edit : Edits])
  BY <1>1 DEF SyncInv, PhoneRows
<1>4. phone[c].up # <<>> /\ phone' = [phone EXCEPT ![c].up = Tail(@)]
  BY DEF ApplyNoteEdit
<1>5. Head(k.up) \in [id : Ids, base : Nat, edit : Edits]
      /\ up \in Seq([id : Ids, base : Nat, edit : Edits])
  BY <1>1, <1>3, <1>4, HeadTailProperties
<1>6. phone' = [phone EXCEPT ![c] = r]
  BY <1>1, <1>2, <1>4
<1>7. r = [k EXCEPT !.linked = k.linked, !.ready = k.ready, !.up = up]
  BY <1>2, <1>3 DEF PhoneRows
<1>8. GoodPhone(r, Versions)
  BY <1>3, <1>5, <1>7, LinkGood
<1>9. r.screen = k.screen
  BY <1>2, <1>3 DEF PhoneRows
<1> QED BY <1>1, <1>5, <1>6, <1>8, <1>9

\* An accepted operation adds one version and its acknowledgement carries it.
LEMMA AcceptedGood ==
    ASSUME SyncInv, NEW id \in Ids, NEW edit \in Edits, NEW body \in Text,
           history' = Append(history, body),
           operations' = Append(operations, [id |-> id, edit |-> edit])
    PROVE  /\ HistoryOK' /\ Versions \subseteq Versions' /\ Written \subseteq Written'
           /\ Ack(id, body, Revision + 1, FALSE) \in Messages(Versions')
<1>1. Revision \in Nat /\ history \in Seq(Text) /\ Len(history) = Revision + 1
      /\ operations \in Seq([id : Ids, edit : Edits]) /\ Revision = Len(operations)
  BY HistoryFacts DEF SyncInv, HistoryOK, Revision
<1>2. PICK row \in [id : Ids, edit : Edits] : row = [id |-> id, edit |-> edit]
  OBVIOUS
<1>3. /\ operations' \in Seq([id : Ids, edit : Edits]) /\ Len(operations') = Revision + 1
      /\ history' \in Seq(Text) /\ Len(history') = Revision + 2
      /\ \A r \in 1..(Revision + 1) : history'[r] = history[r]
      /\ history'[Revision + 2] = body
  BY <1>1, <1>2, AppendProperties
<1>4. HistoryOK' /\ Revision' = Revision + 1
  BY <1>1, <1>3 DEF HistoryOK, Revision
<1>5. ASSUME NEW v \in Versions PROVE v \in Versions'
  <2>1. PICK r \in 0..Revision : v = Version(history[r + 1], r)
    BY DEF Versions
  <2>2. r \in 0..Revision' /\ history'[r + 1] = history[r + 1]
    BY <1>1, <1>3, <1>4
  <2> QED BY <2>1, <2>2 DEF Versions
<1>6. ASSUME NEW z \in Written PROVE z \in Written'
  <2>1. PICK r \in 1..Len(history) : z \in Chars(history[r])
    BY DEF Written
  <2>2. r \in 1..Len(history') /\ history'[r] = history[r]
    BY <1>1, <1>3
  <2>3. z \in Chars(history'[r])
    BY <2>1, <2>2
  <2> HIDE DEF Chars
  <2> QED BY <2>2, <2>3 DEF Written
<1>7. Ack(id, body, Revision + 1, FALSE) \in Messages(Versions')
  <2>1. PICK n : n = Revision + 1
    OBVIOUS
  <2>2. n \in 0..Revision' /\ history'[n + 1] = body
    BY <1>1, <1>3, <1>4, <2>1
  <2>3. PICK v \in Versions' : v = Version(body, n)
    BY <2>2 DEF Versions
  <2>4. Ack(id, body, n, FALSE) = Ack(id, v.body, v.revision, FALSE)
    BY <2>3 DEF Version
  <2>5. PICK W : W = Versions'
    OBVIOUS
  <2>6. Ack(id, v.body, v.revision, FALSE) \in Messages(W)
    BY <2>5, AckMade
  <2> QED BY <2>1, <2>4, <2>5, <2>6
<1> QED BY <1>4, <1>5, <1>6, <1>7

\* The step in which the server accepts an operation.
LEMMA AcceptStep ==
    ASSUME SyncInv, NEW c \in Clients, NEW k, GoodPhone(k, Versions),
           phone' = [phone EXCEPT ![c] = k], k.screen = phone[c].screen,
           UNCHANGED userVars, down' = down,
           HistoryOK', Versions \subseteq Versions', Written \subseteq Written',
           NEW m, m \in Messages(Versions'),
           task' = [task EXCEPT ![c] = [at |-> "result", message |-> m]]
    PROVE  SyncInv'
<1>1. PICK V, W : V = Versions /\ W = Versions'
  OBVIOUS
<1>2. V \subseteq W
  BY <1>1
<1>3. /\ Messages(V) \subseteq Messages(W) /\ Tasks(V) \subseteq Tasks(W)
      /\ \A j : GoodPhone(j, V) => GoodPhone(j, W)
      /\ \A q \in Seq(Messages(V)) : q \in Seq(Messages(W))
  BY <1>2, Wider
<1>4. [at |-> "result", message |-> m] \in Tasks(W)
  BY <1>1 DEF Tasks
<1>5. task' \in [Clients -> Tasks(W)] /\ down' \in [Clients -> Seq(Messages(W))]
  BY <1>1, <1>3, <1>4 DEF SyncInv
<1>6. \A d \in Clients : phone'[d] = IF d = c THEN k ELSE phone[d]
  BY DEF SyncInv
<1>7. phone' \in [Clients -> PhoneRows]
  BY DEF SyncInv, GoodPhone, GoodSocket
<1>8. \A d \in Clients : GoodPhone(phone'[d], W)
  BY <1>1, <1>3, <1>6 DEF SyncInv
<1>9. TypedTextSurvives'
  <2> SUFFICES ASSUME NEW d \in Clients
               PROVE  typed[d] \subseteq Chars(phone'[d].screen) \cup Written'
    BY DEF TypedTextSurvives, userVars
  <2>1. typed[d] \subseteq Chars(phone[d].screen) \cup Written
    BY DEF SyncInv, TypedTextSurvives
  <2>2. phone'[d].screen = phone[d].screen
    BY <1>6
  <2> QED BY <2>1, <2>2
<1>10. edited' \in [Clients -> Nat] /\ typed' \in [Clients -> SUBSET Characters]
  BY DEF SyncInv, userVars
<1>11. task' \in [Clients -> Tasks(Versions')] /\ down' \in [Clients -> Seq(Messages(Versions'))]
       /\ \A d \in Clients : GoodPhone(phone'[d], Versions')
  BY <1>1, <1>5, <1>8
<1> QED BY <1>7, <1>9, <1>10, <1>11 DEF SyncInv

\* apply_note_edit: a retry, a rejection or a new version.
LEMMA ApplyNoteEditStep ==
    ASSUME SyncInv, NEW c \in Clients, ApplyNoteEdit(c)
    PROVE  SyncInv'
<1>1. PICK m : m = Head(phone[c].up)
  OBVIOUS
<1>2. m \in [id : Ids, base : Nat, edit : Edits]
  BY <1>1, TakenGood
<1>3. PICK k : /\ phone' = [phone EXCEPT ![c] = k]
               /\ GoodPhone(k, Versions) /\ k.screen = phone[c].screen
  BY TakenGood
<1>4. down' = down /\ UNCHANGED userVars
  BY DEF ApplyNoteEdit
<1>5. Revision \in Nat /\ Body \in Text /\ Version(Body, Revision) \in Versions
  BY HistoryFacts DEF SyncInv
<1>6. ASSUME UNCHANGED serverVars, NEW e, e \in Messages(Versions),
             task' = [task EXCEPT ![c] = [at |-> "result", message |-> e]]
      PROVE  SyncInv'
  <2>1. [at |-> "result", message |-> e] \in Tasks(Versions)
    BY <1>6 DEF Tasks
  <2>2. task' \in [Clients -> Tasks(Versions)] /\ down' \in [Clients -> Seq(Messages(Versions))]
    BY <1>4, <1>6, <2>1 DEF SyncInv
  <2>3. Kept(phone[c], k, Versions)
    BY <1>3 DEF Kept
  <2> QED BY <1>3, <1>4, <1>6, <2>2, <2>3, ScreenStep
<1>7. CASE /\ task' = [task EXCEPT ![c] = [at |-> "result", message |-> DuplicateAck(m.id)]]
           /\ UNCHANGED serverVars
  <2>1. PICK v \in Versions : v = Version(Body, Revision)
    BY <1>5
  <2>2. DuplicateAck(m.id) = Ack(m.id, v.body, v.revision, TRUE) /\ m.id \in Ids
    BY <1>2, <2>1 DEF Version, DuplicateAck
  <2>3. Ack(m.id, v.body, v.revision, TRUE) \in Messages(Versions)
    BY <2>2, AckMade
  <2>4. DuplicateAck(m.id) \in Messages(Versions)
    BY <2>2, <2>3
  <2>5. PICK e : e = DuplicateAck(m.id)
    OBVIOUS
  <2> QED BY <1>6, <1>7, <2>4, <2>5
<1>8. CASE /\ task' = [task EXCEPT ![c] = [at |-> "result", message |-> Error]]
           /\ UNCHANGED serverVars
  <2>1. Error \in Messages(Versions)
    BY DEF Messages
  <2> QED BY <1>6, <1>8, <2>1
<1>9. ASSUME m.base <= Revision, NEW wins, NEW edit, edit = Transformed(m, wins),
             Applicable(edit, Len(Body)), NEW body, body = Apply(Body, edit),
             history' = Append(history, body),
             operations' = Append(operations, [id |-> m.id, edit |-> edit]),
             task' = [task EXCEPT ![c] = [at |-> "result",
                                         message |-> Ack(m.id, body, Revision + 1, FALSE)]]
      PROVE  SyncInv'
  <2>1. \A r \in 1..Revision : operations[r].edit \in Edits
    <3>1. operations \in Seq([id : Ids, edit : Edits])
      BY DEF SyncInv, HistoryOK
    <3>2. \A r \in 1..Len(operations) : operations[r] \in [id : Ids, edit : Edits]
      BY <3>1, ElementOfSeq
    <3> QED BY <3>2 DEF Revision
  <2>2. edit \in Edits
    BY <1>2, <1>5, <1>9, <2>1, TransformedTyped
  <2>3. body \in Text
    BY <1>5, <1>9, <2>2, ApplyTyped
  <2>4. m.id \in Ids
    BY <1>2
  <2>5. /\ HistoryOK' /\ Versions \subseteq Versions' /\ Written \subseteq Written'
        /\ Ack(m.id, body, Revision + 1, FALSE) \in Messages(Versions')
    BY <1>9, <2>2, <2>3, <2>4, AcceptedGood
  <2>6. PICK a : a = Ack(m.id, body, Revision + 1, FALSE)
    OBVIOUS
  <2>7. a \in Messages(Versions') /\ task' = [task EXCEPT ![c] = [at |-> "result", message |-> a]]
    BY <1>9, <2>5, <2>6
  <2> QED BY <1>3, <1>4, <2>5, <2>7, AcceptStep
<1>10. \/ /\ task' = [task EXCEPT ![c] = [at |-> "result", message |-> DuplicateAck(m.id)]]
          /\ UNCHANGED serverVars
       \/ /\ m.base <= Revision
          /\ \E wins \in SUBSET ((m.base + 1)..Revision) :
               LET edit == Transformed(m, wins) IN
               IF Applicable(edit, Len(Body))
               THEN LET body == Apply(Body, edit) IN
                    /\ history' = Append(history, body)
                    /\ operations' = Append(operations, [id |-> m.id, edit |-> edit])
                    /\ task' = [task EXCEPT ![c] =
                          [at |-> "result",
                           message |-> Ack(m.id, body, Revision + 1, FALSE)]]
               ELSE /\ task' = [task EXCEPT ![c] = [at |-> "result", message |-> Error]]
                    /\ UNCHANGED serverVars
  BY <1>1 DEF ApplyNoteEdit
<1> QED BY <1>7, <1>8, <1>9, <1>10

\* The invariant of the live editing holds in every behaviour.
THEOREM SyncSafe == Spec => []SyncInv
<1>1. Init => SyncInv
  BY SyncInit
<1>2. SyncInv /\ [Next]_vars => SyncInv'
  <2> SUFFICES ASSUME SyncInv, [Next]_vars PROVE SyncInv'
    OBVIOUS
  <2>1. ASSUME NEW c \in Clients,
               \/ TypeText(c) \/ EraseText(c) \/ AutosaveFires(c)
               \/ ChooseServer(c) \/ ChooseMerge(c) \/ LeaveEditor(c) \/ ReturnToEditor(c)
               \/ JoinHub(c) \/ ReadSnapshot(c) \/ SendSnapshot(c)
               \/ ApplyNoteEdit(c) \/ Broadcast(c) \/ HangUp(c)
               \/ SocketMessage(c) \/ UiCallback(c) \/ LoseConnection(c)
        PROVE  SyncInv'
    BY <2>1, TypeTextStep, EraseTextStep, AutosaveStep, ChooseServerStep, ChooseMergeStep,
       LeaveEditorStep, ReturnStep, JoinHubStep, ReadSnapshotStep, DeliveryStep,
       ApplyNoteEditStep, HangUpStep, SocketMessageStep, UiCallbackStep, LoseConnectionStep
  <2>2. CASE UNCHANGED vars
    BY <2>2 DEF vars, serverVars, userVars, SyncInv, HistoryOK, Versions, Revision,
                TypedTextSurvives, Written
  <2> QED BY <2>1, <2>2 DEF Next
<1> QED BY <1>1, <1>2, PTL DEF Spec

\* A version is what the server stored at its revision.
LEMMA GoodVersion ==
    ASSUME NEW b, NEW r, Version(b, r) \in Versions
    PROVE  b = history[r + 1]
<1>1. PICK q \in 0..Revision : Version(b, r) = Version(history[q + 1], q)
  BY DEF Versions
<1>2. b = history[q + 1] /\ r = q
  BY <1>1 DEF Version
<1> QED BY <1>2

\* What either thread of a phone takes for the note at a revision is what
\* apply_note_edit stored at that revision.
THEOREM VersionsReal == Spec => []VersionsAreReal
<1>1. SyncInv => VersionsAreReal
  <2> SUFFICES ASSUME SyncInv, NEW c \in Clients
               PROVE  /\ phone[c].server = history[phone[c].revision + 1]
                      /\ phone[c].uiServer = history[phone[c].uiRevision + 1]
    BY DEF VersionsAreReal
  <2>1. Version(phone[c].server, phone[c].revision) \in Versions
        /\ Version(phone[c].uiServer, phone[c].uiRevision) \in Versions
    BY DEF SyncInv, GoodPhone, GoodSocket
  <2> QED BY <2>1, GoodVersion
<1> QED BY <1>1, SyncSafe, PTL

\* Typed text stays on its author's screen or has reached the shared note, until
\* a user deletes it or gives it up.
THEOREM TypedTextKept == Spec => []TypedTextSurvives
<1>1. SyncInv => TypedTextSurvives
  BY DEF SyncInv
<1> QED BY <1>1, SyncSafe, PTL

\* Text the screen does not share with the server is in the draft store, except
\* under review.
THEOREM UnsavedDrafted == Spec => []UnsavedTextIsDrafted
<1>1. SyncInv => UnsavedTextIsDrafted
  BY DEF SyncInv, GoodPhone, Drafted, UnsavedTextIsDrafted
<1> QED BY <1>1, SyncSafe, PTL
=============================================================================
