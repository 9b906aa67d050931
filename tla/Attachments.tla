---------------------------- MODULE Attachments ----------------------------
(***************************************************************************)
(* Note attachments of one couple: reservation, chunked upload and         *)
(* deletion (routes/attachments.py), the media worker                      *)
(* (attachment_media.py), the byte accounting (attachment_quota.py) and    *)
(* the clean-up pass (attachment_maintenance.py, maintenance.py).          *)
(*                                                                         *)
(* Rows change in transactions, files do not: every step below is one      *)
(* transaction or one file operation, and a process may die between two.   *)
(* Handlers that lock the couple row are serialised by it; what they read  *)
(* before that lock is a step of its own. Deadlines are events: a lease,   *)
(* a back-off, an idle upload, a rejection or a file becomes old when the  *)
(* corresponding action says so. Bytes are counted in chunks; whether they *)
(* have the digest the client declared is a property of the upload.        *)
(***************************************************************************)
EXTENDS Integers, Sequences, FiniteSets

CONSTANTS
    Files,          \* attachment rows that can be created
    MediaWorkers,   \* media worker processes
    Requests,       \* concurrent chunk and DELETE requests
    Sizes,          \* size_bytes of an upload, in chunks
    FinalSizes,     \* sizes a sanitizer can produce
    MaxFile,        \* MAX_FILE_BYTES
    CoupleQuota,    \* COUPLE_QUOTA_BYTES
    GlobalQuota,    \* GLOBAL_QUOTA_BYTES
    MaxUploads,     \* MAX_CONCURRENT_UPLOADS_PER_COUPLE
    MaxAttempts,    \* MAX_JOB_ATTEMPTS
    MaxFaults       \* bound of the model: deaths and lost commits

ASSUME AttachmentAssumption ==
    /\ Sizes \cup FinalSizes \subseteq Nat \ {0}
    /\ {MaxFile, CoupleQuota, GlobalQuota} \subseteq Nat
    /\ MaxUploads \in Nat /\ MaxAttempts \in Nat \ {0} /\ MaxFaults \in Nat

VARIABLES
    att,       \* note_attachments rows
    job,       \* attachment_jobs rows
    staged,    \* number of chunks in staging/<key>.upload
    published, \* size of the bytes in available/<key>
    disk,      \* which files exist: pairs <<file, directory>>
    young,     \* those modified within the last hour
    reserved,  \* AttachmentStorageState.reserved_bytes
    media,     \* the media workers
    requests,  \* chunk and DELETE requests and what they read
    upkeep,    \* the maintenance pass
    faults,    \* faults so far
    swept,     \* history: keys a clean-up pass captured before a day-old upload was
               \* resumed, and whose files it removed although the row stayed
    drifted    \* history: a request released bytes for a row that had changed
               \* since its read; no clean-up has recomputed the counter since

attVars == <<att, job, staged, published, disk, young, reserved, media,
             requests, upkeep, faults, swept, drifted>>

Directories == {"staging", "processing", "available"}
Counted     == {"uploading", "pending_scan", "scanning", "available"}
Statuses    == Counted \cup {"absent", "rejected", "deleted", "purged"}

\* note_attachments and attachment_jobs, as far as they are told apart.
AttachmentRow == [status : Statuses, deleted : BOOLEAN, size : Nat, uploaded : Nat,
                  genuine : BOOLEAN, old : BOOLEAN]
JobRow == [status : {"none", "pending", "leased", "completed", "rejected"},
           attempts : 0..MaxAttempts, due : BOOLEAN]
NoJob == [status |-> "none", attempts |-> 0, due |-> FALSE]

AttachmentsTypeOK ==
    /\ att \in [Files -> AttachmentRow]
    /\ job \in [Files -> JobRow]
    /\ staged \in [Files -> Nat]
    /\ published \in [Files -> Nat]
    /\ disk \subseteq Files \X Directories /\ young \subseteq disk
    /\ reserved \in 0..GlobalQuota
    /\ faults \in 0..MaxFaults /\ drifted \in BOOLEAN /\ swept \subseteq Files

AttachmentsInit ==
    /\ att = [f \in Files |-> [status |-> "absent", deleted |-> FALSE, size |-> 0,
                               uploaded |-> 0, genuine |-> TRUE, old |-> FALSE]]
    /\ job = [f \in Files |-> NoJob]
    /\ staged = [f \in Files |-> 0]
    /\ published = [f \in Files |-> 0]
    /\ disk = {} /\ young = {}
    /\ reserved = 0
    /\ media = [w \in MediaWorkers |-> [pc |-> "idle"]]
    /\ requests = [d \in Requests |-> [pc |-> "idle"]]
    /\ upkeep = [pc |-> "idle"]
    /\ faults = 0 /\ drifted = FALSE /\ swept = {}

-----------------------------------------------------------------------------
(* Accounting and files.                                                    *)

Live(f) == att[f].status \in Counted /\ ~att[f].deleted
LiveFiles == {f \in Files : Live(f)}

\* The bytes of a set of files, and how many they are.
Bytes(S) == UNION {{f} \X (1..att[f].size) : f \in S}
Total(S) == Cardinality(Bytes(S))

\* What a row counts for.
KeptBytes(f) == IF Live(f) THEN att[f].size ELSE 0

\* adjust_storage raises above the ceiling and below zero.
CanAdjust(delta) == reserved + delta \in 0..GlobalQuota

\* _reject releases what the status says is reserved.
RejectedBytes(f) == IF att[f].status \in Counted THEN att[f].size ELSE 0

\* A removed file has no bytes.
Unlink(gone) ==
    /\ disk' = disk \ gone
    /\ young' = young \ gone
    /\ staged' = [f \in Files |-> IF <<f, "staging">> \in gone THEN 0 ELSE staged[f]]
    /\ published' = [f \in Files |-> IF <<f, "available">> \in gone THEN 0
                                     ELSE published[f]]
Wipe(f) == Unlink({f} \X Directories)

Write(f, dir) ==
    /\ disk' = disk \cup {<<f, dir>>}
    /\ young' = young \cup {<<f, dir>>}
Stage(f, chunks) ==
    /\ Write(f, "staging")
    /\ staged' = [staged EXCEPT ![f] = chunks]
    /\ UNCHANGED published

-----------------------------------------------------------------------------
(* Routes.                                                                  *)

\* _reserve_upload_capacity: concurrent uploads, couple quota, global ceiling.
HasCapacity(size) ==
    /\ Cardinality({f \in LiveFiles : att[f].status = "uploading"}) < MaxUploads
    /\ Total(LiveFiles) + size <= CoupleQuota
    /\ reserved + size <= GlobalQuota

\* create_attachment under the couple lock. A retry with the same operation id
\* finds the row and changes nothing.
CreateAttachment(f, size, genuine) ==
    /\ att[f].status = "absent"
    /\ HasCapacity(size)
    /\ att' = [att EXCEPT ![f] = [status |-> "uploading", deleted |-> FALSE,
                                  size |-> size, uploaded |-> 0,
                                  genuine |-> genuine, old |-> FALSE]]
    /\ reserved' = reserved + size
    /\ UNCHANGED <<job, staged, published, disk, young, media, requests, upkeep,
                   faults, swept, drifted>>

\* _authorized_attachment reads the row before the couple lock. The object is not
\* refreshed afterwards, not by SELECT FOR UPDATE either, so the rest of the
\* request works with what was read here. An upload is refused unless the row it
\* read is uploading; its chunk is the one at the offset it read.
ReadForRequest(r, f, kind) ==
    /\ requests[r].pc = "idle"
    /\ att[f].status \notin {"absent", "purged"} /\ ~att[f].deleted
    /\ kind = "append" => att[f].status = "uploading" /\ att[f].uploaded < att[f].size
    /\ requests' = [requests EXCEPT ![r] = [pc |-> kind, file |-> f,
                       status |-> att[f].status, size |-> att[f].size,
                       uploaded |-> att[f].uploaded]]
    /\ UNCHANGED <<att, job, staged, published, disk, young, reserved, media,
                   upkeep, faults, swept, drifted>>

Done(r) == requests' = [requests EXCEPT ![r] = [pc |-> "idle"]]

\* _append_chunk cuts off what lies beyond its offset and refuses a shorter file.
Appendable(seen) ==
    IF <<seen.file, "staging">> \in disk THEN staged[seen.file] >= seen.uploaded
                                         ELSE seen.uploaded = 0

LastChunk(seen) == seen.uploaded + 1 = seen.size

\* The digest of the whole file is compared after its last chunk.
FailsDigest(seen) == LastChunk(seen) /\ ~att[seen.file].genuine

\* The file operations of a chunk: append, remove when the digest is wrong.
AppendToFile(seen) ==
    IF FailsDigest(seen) THEN Unlink({<<seen.file, "staging">>})
                         ELSE Stage(seen.file, seen.uploaded + 1)

\* upload_attachment_chunk under the couple lock: append, and after the last
\* chunk queue the scan or reject and release the bytes.
CommitChunk(r) ==
    LET seen == requests[r]
        f    == seen.file
        last == LastChunk(seen)
        bad  == FailsDigest(seen)
    IN /\ seen.pc = "append"
       /\ Appendable(seen) /\ att[f].status # "purged"
       /\ bad => CanAdjust(-seen.size)
       /\ last /\ ~bad => job[f].status = "none"
       /\ att' = [att EXCEPT ![f].uploaded = seen.uploaded + 1, ![f].old = FALSE,
                             ![f].status = IF bad THEN "rejected"
                                           ELSE IF last THEN "pending_scan" ELSE @]
       /\ job' = IF last /\ ~bad
                 THEN [job EXCEPT ![f] = [NoJob EXCEPT !.status = "pending", !.due = TRUE]]
                 ELSE job
       /\ reserved' = IF bad THEN reserved - seen.size ELSE reserved
       /\ drifted' = (drifted \/ (bad /\ seen.size # KeptBytes(f)))
       /\ AppendToFile(seen)
       /\ Done(r)
       /\ UNCHANGED <<media, upkeep, faults, swept>>

\* The request fails after its file operations: the accounting refuses, the job
\* exists already, or the process dies before the commit.
LoseChunk(r) ==
    LET seen == requests[r] IN
    /\ seen.pc = "append" /\ Appendable(seen) /\ att[seen.file].status # "purged"
    /\ \/ FailsDigest(seen) /\ ~CanAdjust(-seen.size) /\ Stage(seen.file, seen.uploaded + 1)
          /\ UNCHANGED faults
       \/ LastChunk(seen) /\ ~FailsDigest(seen) /\ job[seen.file].status # "none"
          /\ AppendToFile(seen) /\ UNCHANGED faults
       \/ faults < MaxFaults /\ faults' = faults + 1 /\ AppendToFile(seen)
    /\ Done(r)
    /\ UNCHANGED <<att, job, reserved, media, upkeep, swept, drifted>>

\* The row is gone, or the stored offset is behind the committed one.
RefuseChunk(r) ==
    /\ requests[r].pc = "append"
    /\ ~Appendable(requests[r]) \/ att[requests[r].file].status = "purged"
    /\ Done(r)
    /\ UNCHANGED <<att, job, staged, published, disk, young, reserved, media,
                   upkeep, faults, swept, drifted>>

\* delete_attachment under the couple lock: release the bytes as they were read
\* and hide the row. adjust_storage may refuse, a purged row cannot be updated.
CommitDelete(d) ==
    LET seen  == requests[d]
        delta == IF seen.status \in Counted THEN -seen.size ELSE 0
    IN /\ seen.pc = "delete"
       /\ IF CanAdjust(delta) /\ att[seen.file].status # "purged"
          THEN /\ att' = [att EXCEPT ![seen.file].status = "deleted",
                                     ![seen.file].deleted = TRUE,
                                     ![seen.file].old = FALSE]
               /\ reserved' = reserved + delta
               /\ drifted' = (drifted \/ delta # -KeptBytes(seen.file))
               /\ requests' = [requests EXCEPT ![d].pc = "wipe"]
          ELSE /\ Done(d)
               /\ UNCHANGED <<att, reserved, drifted>>
       /\ UNCHANGED <<job, staged, published, disk, young, media, upkeep, faults, swept>>

WipeDeleted(d) ==
    /\ requests[d].pc = "wipe"
    /\ Wipe(requests[d].file)
    /\ Done(d)
    /\ UNCHANGED <<att, job, reserved, media, upkeep, faults, swept, drifted>>

DieDeleting(d) ==
    /\ requests[d].pc = "wipe" /\ faults < MaxFaults
    /\ faults' = faults + 1
    /\ Done(d)
    /\ UNCHANGED <<att, job, staged, published, disk, young, reserved, media,
                   upkeep, swept, drifted>>

-----------------------------------------------------------------------------
(* The media worker: scan_pending_once.                                     *)

At(w, pc) == media[w].pc = pc
Goto(w, pc) == media' = [media EXCEPT ![w].pc = pc]
Rest(w) == media' = [media EXCEPT ![w] = [pc |-> "idle"]]
Busy == {media[w].file : w \in {v \in MediaWorkers : ~At(v, "idle")}}
mediaOnly == <<att, job, staged, published, disk, young, reserved, requests,
               upkeep, faults, swept, drifted>>

\* Mutant: a lease is not respected, so a second worker starts on the same file.
ReadyAnyLease(f) ==
    /\ job[f].status \in {"pending", "leased"}
    /\ job[f].attempts < MaxAttempts
    /\ att[f].status \in {"pending_scan", "scanning"} /\ ~att[f].deleted

\* _job_is_ready and the other conditions of _claim_ready: the back-off has
\* passed or the lease has expired, and attempts are left.
Ready(f) ==
    /\ job[f].status \in {"pending", "leased"} /\ job[f].due
    /\ job[f].attempts < MaxAttempts
    /\ att[f].status \in {"pending_scan", "scanning"} /\ ~att[f].deleted

ClaimReady(w, f) ==
    /\ At(w, "idle") /\ Ready(f)
    /\ att' = [att EXCEPT ![f].status = "scanning", ![f].old = FALSE]
    /\ job' = [job EXCEPT ![f] = [status |-> "leased", attempts |-> @.attempts + 1,
                                  due |-> FALSE]]
    /\ media' = [media EXCEPT ![w] = [pc |-> "read", file |-> f, size |-> 0]]
    /\ UNCHANGED <<staged, published, disk, young, reserved, requests, upkeep,
                   faults, swept, drifted>>

\* _process reads the row again and returns when it is no longer scanning.
ReadClaimed(w) ==
    /\ At(w, "read")
    /\ IF att[media[w].file].status = "scanning" THEN Goto(w, "scan") ELSE Rest(w)
    /\ UNCHANGED mediaOnly

Intact(f) == <<f, "staging">> \in disk /\ staged[f] = att[f].size /\ att[f].genuine

\* The digest check and the scan: missing or changed bytes and malware are
\* rejected, an unreachable or confused scanner is tried again.
ScanFile(w) ==
    LET f == media[w].file IN
    /\ At(w, "scan")
    /\ \/ ~Intact(f) /\ Goto(w, "reject")
       \/ /\ Intact(f)
          /\ \E next \in {"sanitize", "reject", "retry"} : Goto(w, next)
    /\ UNCHANGED mediaOnly

\* _publish, sanitize_file: a work file of some size, or a failure.
Sanitize(w) ==
    LET f == media[w].file IN
    /\ At(w, "sanitize")
    /\ \/ /\ <<f, "staging">> \in disk
          /\ \E size \in FinalSizes :
                media' = [media EXCEPT ![w].pc = "replace", ![w].size = size]
          /\ Write(f, "processing") /\ UNCHANGED <<staged, published>>
       \/ /\ \E next \in {"reject", "retry"} : Goto(w, next)
          /\ Unlink({<<f, "processing">>})
    /\ UNCHANGED <<att, job, reserved, requests, upkeep, faults, swept, drifted>>

\* _publish, work.replace(target): fails when the work file is gone.
Replace(w) ==
    LET f == media[w].file IN
    /\ At(w, "replace")
    /\ IF media[w].size > MaxFile
       THEN /\ Goto(w, "reject") /\ Unlink({<<f, "processing">>})
       ELSE IF <<f, "processing">> \notin disk
       THEN Goto(w, "retry") /\ UNCHANGED <<disk, young, staged, published>>
       ELSE /\ Goto(w, "mark")
            /\ disk' = (disk \ {<<f, "processing">>}) \cup {<<f, "available">>}
            /\ young' = (young \ {<<f, "processing">>}) \cup {<<f, "available">>}
            /\ published' = [published EXCEPT ![f] = media[w].size]
            /\ UNCHANGED staged
    /\ UNCHANGED <<att, job, reserved, requests, upkeep, faults, swept, drifted>>

\* _mark_available, its conditions under the couple and row locks.
Markable(w) ==
    /\ att[media[w].file].status = "scanning"
    /\ Total(LiveFiles \ {media[w].file}) + media[w].size <= CoupleQuota

\* _mark_available: a full store is a rejection, an accounting error a retry.
MarkAvailable(w) ==
    LET f == media[w].file
        delta == media[w].size - att[f].size
    IN /\ At(w, "mark")
       /\ IF ~Markable(w) \/ reserved + delta > GlobalQuota
          THEN Goto(w, "reject") /\ UNCHANGED <<att, job, reserved>>
          ELSE IF reserved + delta < 0
          THEN Goto(w, "retry") /\ UNCHANGED <<att, job, reserved>>
          ELSE /\ Goto(w, "unlink")
               /\ att' = [att EXCEPT ![f].status = "available",
                             ![f].size = media[w].size,
                             ![f].uploaded = media[w].size, ![f].old = FALSE]
               /\ job' = [job EXCEPT ![f].status = "completed", ![f].due = FALSE]
               /\ reserved' = reserved + delta
       /\ UNCHANGED <<staged, published, disk, young, requests, upkeep, faults, swept, drifted>>

UnlinkSource(w) ==
    /\ At(w, "unlink")
    /\ Unlink({<<media[w].file, "staging">>})
    /\ Rest(w)
    /\ UNCHANGED <<att, job, reserved, requests, upkeep, faults, swept, drifted>>

\* _retry_or_reject: no look at the status, only at the attempts.
RetryOrReject(w) ==
    LET f == media[w].file IN
    /\ At(w, "retry")
    /\ IF att[f].status = "purged"
       THEN Rest(w) /\ UNCHANGED <<att, job>>
       ELSE IF job[f].attempts >= MaxAttempts
       THEN Goto(w, "reject") /\ UNCHANGED <<att, job>>
       ELSE /\ Rest(w)
            /\ att' = [att EXCEPT ![f].status = "pending_scan", ![f].old = FALSE]
            /\ job' = [job EXCEPT ![f].status = "pending", ![f].due = FALSE]
    /\ UNCHANGED <<staged, published, disk, young, reserved, requests, upkeep, faults, swept, drifted>>

\* _reject: an accounting error ends the cycle, otherwise the row is rejected
\* whatever it was.
Reject(w) ==
    LET f == media[w].file IN
    /\ At(w, "reject")
    /\ IF att[f].status = "purged" \/ ~CanAdjust(-RejectedBytes(f))
       THEN Rest(w) /\ UNCHANGED <<att, job, reserved>>
       ELSE /\ Goto(w, "wipe")
            /\ att' = [att EXCEPT ![f].status = "rejected", ![f].old = FALSE]
            /\ job' = [job EXCEPT ![f].status = "rejected", ![f].due = FALSE]
            /\ reserved' = reserved - RejectedBytes(f)
    /\ UNCHANGED <<staged, published, disk, young, requests, upkeep, faults, swept, drifted>>

WipeRejected(w) ==
    /\ At(w, "wipe")
    /\ Wipe(media[w].file)
    /\ Rest(w)
    /\ UNCHANGED <<att, job, reserved, requests, upkeep, faults, swept, drifted>>

DieScanning(w) ==
    /\ ~At(w, "idle") /\ faults < MaxFaults
    /\ faults' = faults + 1
    /\ Rest(w)
    /\ UNCHANGED <<att, job, staged, published, disk, young, reserved, requests,
                   upkeep, swept, drifted>>

-----------------------------------------------------------------------------
(* run_maintenance_once, as far as attachments are concerned.               *)

Expired(f) == att[f].old /\ att[f].status \in {"uploading", "rejected"}

\* prepare_attachment_cleanup, its SELECT: the keys to remove.
SelectExpired ==
    /\ upkeep.pc = "idle"
    /\ upkeep' = [pc |-> "delete", keys |-> {f \in Files : Expired(f)}]
    /\ UNCHANGED <<att, job, staged, published, disk, young, reserved, media,
                   requests, faults, swept, drifted>>

\* Its DELETEs (a row touched since the SELECT is spared), reconcile_storage,
\* which raises above the ceiling, the known keys and the commit.
CommitCleanup ==
    LET spared == {f \in LiveFiles : ~Expired(f)} IN
    /\ upkeep.pc = "delete"
    /\ IF Total(spared) > GlobalQuota
       THEN upkeep' = [pc |-> "idle"] /\ UNCHANGED <<att, job, reserved, drifted>>
       ELSE /\ att' = [f \in Files |-> IF Expired(f) THEN [att[f] EXCEPT !.status = "purged"]
                                       ELSE att[f]]
            /\ job' = [f \in Files |-> IF Expired(f) THEN NoJob ELSE job[f]]
            /\ reserved' = Total(spared) /\ drifted' = FALSE
            /\ upkeep' = [pc |-> "files", keys |-> upkeep.keys, known |-> spared]
    /\ UNCHANGED <<staged, published, disk, young, media, requests, faults, swept>>

\* delete_attachment_files for the keys of the SELECT.
RemoveExpiredFiles ==
    /\ upkeep.pc = "files"
    /\ Unlink(upkeep.keys \X Directories)
    /\ swept' = swept \cup {f \in upkeep.keys : att[f].status # "purged"}
    /\ upkeep' = [upkeep EXCEPT !.pc = "orphans"]
    /\ UNCHANGED <<att, job, reserved, media, requests, faults, drifted>>

\* Mutant: a recent file is removed as well.
OrphansOfAnyAge(known) == {p \in disk : p[1] \notin known}

\* Mutant: only the directory uploads are staged in is looked at.
OrphansInStaging(known) == {p \in disk \ young : p[1] \notin known /\ p[2] = "staging"}

\* _delete_orphans_sync: files without a live row, at least an hour old.
Orphans(known) == {p \in disk \ young : p[1] \notin known}

RemoveOrphans ==
    /\ upkeep.pc = "orphans"
    /\ Unlink(Orphans(upkeep.known))
    /\ upkeep' = [pc |-> "idle"]
    /\ UNCHANGED <<att, job, reserved, media, requests, faults, swept, drifted>>

DieCleaning ==
    /\ upkeep.pc \in {"files", "orphans"} /\ faults < MaxFaults
    /\ faults' = faults + 1
    /\ upkeep' = [pc |-> "idle"]
    /\ UNCHANGED <<att, job, staged, published, disk, young, reserved, media,
                   requests, swept, drifted>>

-----------------------------------------------------------------------------
(* Deadlines.                                                               *)

\* next_attempt_at is reached, or the lease of a worker that has died expires:
\* one attempt ends within JOB_LEASE_MINUTES.
AttemptDue(f) ==
    /\ job[f].status \in {"pending", "leased"} /\ ~job[f].due
    /\ f \notin Busy
    /\ job' = [job EXCEPT ![f].due = TRUE]
    /\ UNCHANGED <<att, staged, published, disk, young, reserved, media, requests,
                   upkeep, faults, swept, drifted>>

\* An upload is idle for a day, a rejection is a week old.
RowGrowsOld(f) ==
    /\ att[f].status \in {"uploading", "rejected"} /\ ~att[f].old
    /\ att' = [att EXCEPT ![f].old = TRUE]
    /\ UNCHANGED <<job, staged, published, disk, young, reserved, media, requests,
                   upkeep, faults, swept, drifted>>

\* A file is an hour old. The pass compares with the time it began at, and what
\* a worker has just written is younger than its attempt. The age of the files
\* of a live row is never looked at.
FileGrowsOld(p) ==
    /\ p \in young /\ ~Live(p[1]) /\ upkeep.pc = "idle"
    /\ p[2] # "staging" => p[1] \notin Busy
    /\ young' = young \ {p}
    /\ UNCHANGED <<att, job, staged, published, disk, reserved, media, requests,
                   upkeep, faults, swept, drifted>>

WorkerStep(w) ==
    \/ \E f \in Files : ClaimReady(w, f)
    \/ ReadClaimed(w) \/ ScanFile(w) \/ Sanitize(w) \/ Replace(w)
    \/ MarkAvailable(w) \/ UnlinkSource(w) \/ RetryOrReject(w) \/ Reject(w)
    \/ WipeRejected(w)

UpkeepStep == SelectExpired \/ CommitCleanup \/ RemoveExpiredFiles \/ RemoveOrphans

AttachmentsNext ==
    \/ \E f \in Files : \/ \E n \in Sizes, g \in BOOLEAN : CreateAttachment(f, n, g)
                        \/ AttemptDue(f) \/ RowGrowsOld(f)
    \/ \E p \in Files \X Directories : FileGrowsOld(p)
    \/ \E r \in Requests :
          \/ \E f \in Files, kind \in {"append", "delete"} : ReadForRequest(r, f, kind)
          \/ CommitChunk(r) \/ LoseChunk(r) \/ RefuseChunk(r)
          \/ CommitDelete(r) \/ WipeDeleted(r) \/ DieDeleting(r)
    \/ \E w \in MediaWorkers : WorkerStep(w) \/ DieScanning(w)
    \/ UpkeepStep \/ DieCleaning

AttachmentsSpec == AttachmentsInit /\ [][AttachmentsNext]_attVars

-----------------------------------------------------------------------------
(* Properties.                                                              *)

\* What download_attachment serves is there: an available attachment that is
\* not deleted has its published file, of the recorded size, although files
\* are written, renamed and removed outside the transactions, by a worker, a
\* delete request and the clean-up pass, each of which may die on the way. The
\* one exception is a key the pass had selected before its upload was resumed.
AvailableHasItsBytes ==
    \A f \in Files \ swept : att[f].status = "available" /\ ~att[f].deleted =>
        <<f, "available">> \in disk /\ published[f] = att[f].size

\* The counter is exact: reservations, rejections, changed sizes, deletions, lost
\* commits and dead workers all leave it equal to the bytes that are kept. The
\* one exception is a request that read its row before the couple lock and
\* releases bytes of a row that has changed; its error lasts until the next
\* clean-up pass.
AccountingIsExact == ~drifted => reserved = Total(LiveFiles)

\* Kept bytes can be served and are counted, whichever of the worker, the routes
\* and the clean-up pass dies between its transaction and its files.
AttachmentsAreKept == AvailableHasItsBytes /\ AccountingIsExact

\* What a client may rely on: an attachment is pending, then available or
\* rejected, for good, until it is removed.
Outcome(f) ==
    IF att[f].status = "absent" THEN "none"
    ELSE IF att[f].deleted \/ att[f].status = "purged" THEN "removed"
    ELSE IF att[f].status \in {"available", "rejected"} THEN att[f].status
    ELSE "pending"

Life == INSTANCE AttachmentLife WITH Items <- Files,
                                     life <- [f \in Files |-> Outcome(f)]

\* The worker, the routes and the clean-up pass together implement that life
\* cycle (AttachmentLife), although none of them holds a token that fences the
\* writes of another: as long as an attempt ends within its lease, taking it over
\* after a death is enough.
ImplementsLife == Life!Spec

\* Fairness of the worker and the maintenance loop, and of the clock.
AttachmentsFairness ==
    /\ \A w \in MediaWorkers : WF_attVars(WorkerStep(w))
    /\ WF_attVars(UpkeepStep)
    /\ \A f \in Files : WF_attVars(AttemptDue(f))
    /\ \A p \in Files \X Directories : SF_attVars(FileGrowsOld(p))

AttachmentsFairSpec == AttachmentsSpec /\ AttachmentsFairness

\* The bytes of a removed attachment leave the disk for good, whoever died on
\* the way and however late a worker published: the orphan pass removes them.
RemovedBytesVanish ==
    \A f \in Files :
        Outcome(f) = "removed" ~> [](\A dir \in Directories : <<f, dir>> \notin disk)
=============================================================================
