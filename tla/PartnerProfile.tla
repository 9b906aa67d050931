--------------------------- MODULE PartnerProfile ---------------------------
(***************************************************************************)
(* The name and the avatar one person gives the partner: the phone's       *)
(* NetworkProfileRepository with its single executor and stored pending    *)
(* change, relationship_name_service.py and routes/profile_photos.py, over *)
(* the couples the person is in one after the other.                       *)
(*                                                                         *)
(* A request looks up the couple (active_member), waits for the couple's   *)
(* row and does the rest under its lock, in one step.  One the phone has   *)
(* given up stays on its way and may be served later.  Any other failure   *)
(* of a call (no network, 429, 5xx, a killed process) is CallFails.  The   *)
(* partner's gifts in the other direction are other rows and the other     *)
(* phone's; what the phone displays is left out but for the revision it    *)
(* sends back.                                                             *)
(***************************************************************************)
EXTENDS Integers, FiniteSets

CONSTANTS
    Names,         \* what the phone's rules let through
    Unfit,         \* those of them the server's rules do not
    Images,
    NoGift,        \* no name (a reset), no image (a removal)
    MaxPairings,   \* bound: couples, one after the other
    MaxChanges,    \* bound: names typed
    MaxRequests    \* bound: requests sent

Pairings == 1..MaxPairings
Changes == 1..MaxChanges

ASSUME ProfileAssumption ==
    /\ {MaxPairings, MaxChanges, MaxRequests} \subseteq Nat
    /\ Unfit \subseteq Names /\ NoGift \notin Names \cup Images

VARIABLES
    paired,        \* the active couple, 0 when there is none
    pairings,      \* couples so far
    given,         \* relationship_names: [name, revision] by couple; revision 0 is no row
    replays,       \* relationship_name_operations: [change, couple]
    avatars,       \* relationship_avatars: [image, revision] by couple
    typed,         \* history: the changes begun, with the revision each expects
    pendingName,   \* the change in the phone's preferences, or NoChange
    knownRevision, \* partner_name_revision in the phone's preferences
    executor,      \* the phone's profile thread
    travelling,    \* requests not yet served; couple 0 before active_member
    requestsSent,
    answer,        \* the answer to the request the executor waits for
    applied,       \* history: how often each change was made in each couple
    acknowledged   \* history: changes it was told are made, [change, couple]

profileTables == <<paired, pairings, given, replays, avatars, applied>>
profilePhone == <<typed, pendingName, knownRevision, acknowledged>>
profileVars == <<profileTables, profilePhone, executor, travelling, requestsSent, answer>>

NoRow == [value |-> NoGift, revision |-> 0]
NoChange == [change |-> 0, expected |-> 0, value |-> NoGift]
NoAnswer == [code |-> "none", change |-> 0, couple |-> 0]
Idle == [at |-> "idle", task |-> "none", job |-> NoChange, request |-> 0, revision |-> 0]

Revisions == 0..MaxRequests
Row == [value : Names \cup Images \cup {NoGift}, revision : Revisions]
NameChange == [change : 0..MaxChanges, expected : Revisions, value : Names \cup {NoGift}]
Request == [number : 1..MaxRequests, kind : {"name", "avatar"}, change : 0..MaxChanges,
            expected : Revisions, value : Names \cup Images \cup {NoGift}, couple : 0..MaxPairings]

ProfileTypeOK ==
    /\ paired \in 0..MaxPairings /\ pairings \in 0..MaxPairings /\ paired <= pairings
    /\ given \in [Pairings -> Row] /\ avatars \in [Pairings -> Row]
    /\ replays \subseteq [change : Changes, couple : Pairings]
    /\ typed \subseteq NameChange /\ pendingName \in NameChange
    /\ knownRevision \in Revisions
    /\ executor \in [at : {"idle", "send", "wait", "fetch", "save"},
                     task : {"none", "mutate", "refresh", "photo"}, job : NameChange,
                     request : 0..MaxRequests, revision : Revisions]
    /\ travelling \subseteq Request /\ requestsSent \in 0..MaxRequests
    /\ answer \in [code : {"none", "done", "refused", "unfit", "inactive"},
                   change : 0..MaxChanges, couple : 0..MaxPairings]
    /\ applied \in [Changes \X Pairings -> Nat]
    /\ acknowledged \subseteq [change : Changes, couple : Pairings]

ProfileInit ==
    /\ paired = 0 /\ pairings = 0
    /\ given = [c \in Pairings |-> NoRow] /\ avatars = [c \in Pairings |-> NoRow]
    /\ replays = {} /\ typed = {} /\ pendingName = NoChange /\ knownRevision = 0
    /\ executor = Idle /\ travelling = {} /\ requestsSent = 0 /\ answer = NoAnswer
    /\ applied = [k \in Changes \X Pairings |-> 0] /\ acknowledged = {}

-----------------------------------------------------------------------------
(* The phone.                                                              *)

Works(at, task, job) ==
    executor' = [at |-> at, task |-> task, job |-> job, request |-> 0, revision |-> 0]

\* mutatePartnerName: the change is stored before it is sent.
TypeName(value) ==
    /\ executor = Idle /\ pendingName = NoChange /\ Cardinality(typed) < MaxChanges
    /\ LET job == [change |-> Cardinality(typed) + 1, expected |-> knownRevision, value |-> value]
       IN  /\ pendingName' = job /\ typed' = typed \cup {job}
           /\ Works("send", "mutate", job)
    /\ UNCHANGED <<profileTables, knownRevision, acknowledged, travelling, requestsSent, answer>>

\* refresh, and typing the pending name again.
Refresh(task) ==
    /\ executor = Idle
    /\ \/ pendingName # NoChange /\ Works("send", task, pendingName)
       \/ pendingName = NoChange /\ task = "refresh" /\ Works("fetch", task, NoChange)
    /\ UNCHANGED <<profileTables, profilePhone, travelling, requestsSent, answer>>

Sends(kind, task, job, value) ==
    /\ requestsSent < MaxRequests /\ requestsSent' = requestsSent + 1
    /\ travelling' = travelling \cup
          {[number |-> requestsSent + 1, kind |-> kind, change |-> job.change,
            expected |-> job.expected, value |-> value, couple |-> 0]}
    /\ executor' = [at |-> "wait", task |-> task, job |-> job, request |-> requestsSent + 1,
                    revision |-> 0]
    /\ answer' = NoAnswer

\* executePendingName's call; the change is the executor's own copy.
SendName ==
    /\ executor.at = "send" /\ Sends("name", executor.task, executor.job, executor.job.value)
    /\ UNCHANGED <<profileTables, profilePhone>>

\* uploadPartnerPhoto and deletePartnerPhoto.
SendAvatar(image) ==
    /\ executor = Idle /\ Sends("avatar", "photo", NoChange, image)
    /\ UNCHANGED <<profileTables, profilePhone>>

\* A name was accepted: nothing is pending, and the profile is fetched.
NameDone ==
    /\ executor.at = "wait" /\ executor.task # "photo" /\ answer.code = "done"
    /\ pendingName' = NoChange
    /\ acknowledged' = acknowledged \cup {[change |-> answer.change, couple |-> answer.couple]}
    /\ Works("fetch", executor.task, NoChange)
    /\ UNCHANGED <<profileTables, typed, knownRevision, travelling, requestsSent, answer>>

\* An avatar was: a pending name is resumed before the profile is fetched.
AvatarDone ==
    /\ executor.at = "wait" /\ executor.task = "photo" /\ answer.code = "done"
    /\ IF pendingName = NoChange THEN Works("fetch", "mutate", NoChange)
                                 ELSE Works("send", "mutate", pendingName)
    /\ UNCHANGED <<profileTables, profilePhone, travelling, requestsSent, answer>>

\* A 4xx drops the pending name; refresh alone goes on, to clear everything when there is
\* no couple and to fetch after a 409.
Refused ==
    /\ executor.at = "wait" /\ answer.code \in {"refused", "unfit", "inactive"}
    /\ pendingName' = IF executor.task = "photo" THEN pendingName ELSE NoChange
    /\ \/ executor.task = "refresh" /\ answer.code = "inactive"
          /\ executor' = Idle /\ knownRevision' = 0
       \/ executor.task = "refresh" /\ answer.code = "refused"
          /\ Works("fetch", "mutate", NoChange) /\ UNCHANGED knownRevision
       \/ (executor.task # "refresh" \/ answer.code = "unfit")
          /\ executor' = Idle /\ UNCHANGED knownRevision
    /\ UNCHANGED <<profileTables, typed, acknowledged, travelling, requestsSent, answer>>

\* fetchProfile asks for the profile ...
FetchProfile ==
    /\ executor.at = "fetch"
    /\ \/ /\ paired # 0
          /\ executor' = [executor EXCEPT !.at = "save", !.revision = given[paired].revision]
          /\ UNCHANGED <<pendingName, knownRevision>>
       \/ /\ paired = 0 /\ executor.task = "refresh"
          /\ executor' = Idle /\ pendingName' = NoChange /\ knownRevision' = 0
       \/ /\ paired = 0 /\ executor.task # "refresh" /\ executor' = Idle
          /\ UNCHANGED <<pendingName, knownRevision>>
    /\ UNCHANGED <<profileTables, typed, acknowledged, travelling, requestsSent, answer>>

\* ... and stores what it was told, whatever has happened since.
SaveProfile ==
    /\ executor.at = "save" /\ executor' = Idle /\ knownRevision' = executor.revision
    /\ UNCHANGED <<profileTables, typed, pendingName, acknowledged, travelling, requestsSent,
                   answer>>

\* No answer came, or the process ended: preferences and requests remain.
CallFails ==
    /\ executor # Idle /\ executor' = Idle /\ answer' = NoAnswer
    /\ UNCHANGED <<profileTables, profilePhone, travelling, requestsSent>>

\* Signing in or out, unpairing and purging clear the preferences from other threads.
ClearProfile ==
    /\ pendingName' = NoChange /\ knownRevision' = 0
    /\ UNCHANGED <<profileTables, typed, acknowledged, executor, travelling, requestsSent, answer>>

-----------------------------------------------------------------------------
(* The server.                                                             *)

Answers(r, code) ==
    answer' = IF executor.at = "wait" /\ executor.request = r.number
              THEN [code |-> code, change |-> r.change, couple |-> r.couple] ELSE answer

\* active_member, before the lock is asked for.
FindCouple(r) ==
    /\ r.couple = 0
    /\ \/ /\ paired # 0
          /\ travelling' = (travelling \ {r}) \cup {[r EXCEPT !.couple = paired]}
          /\ UNCHANGED answer
       \/ paired = 0 /\ travelling' = travelling \ {r} /\ Answers(r, "inactive")
    /\ UNCHANGED <<profileTables, profilePhone, executor, requestsSent>>

\* lock_couple found the couple still active.
StillPaired(r) == r.couple # 0 /\ r.couple = paired

Replayed(r) == [change |-> r.change, couple |-> r.couple] \in replays
ReplayedElsewhere(r) == \E o \in replays : o.change = r.change /\ o.couple # r.couple
ExpectsNoNewer(r) == r.expected <= given[r.couple].revision
Expects(r) == r.expected = given[r.couple].revision

\* mutate_partner_name makes the change ...
ApplyName(r) ==
    /\ StillPaired(r) /\ r.kind = "name" /\ r.value \notin Unfit
    /\ \A o \in replays : o.change # r.change
    /\ Expects(r) /\ given[r.couple].revision < MaxRequests
    /\ given' = [given EXCEPT ![r.couple] =
                    [value |-> r.value, revision |-> given[r.couple].revision + 1]]
    /\ replays' = replays \cup {[change |-> r.change, couple |-> r.couple]}
    /\ applied' = [applied EXCEPT ![<<r.change, r.couple>>] = @ + 1]
    /\ travelling' = travelling \ {r} /\ Answers(r, "done")
    /\ UNCHANGED <<paired, pairings, avatars, profilePhone, executor, requestsSent>>

\* ... or repeats its first answer (an operation id always comes with the same change) ...
ReplayName(r) ==
    /\ StillPaired(r) /\ r.kind = "name" /\ r.value \notin Unfit /\ Replayed(r)
    /\ travelling' = travelling \ {r} /\ Answers(r, "done")
    /\ UNCHANGED <<profileTables, profilePhone, executor, requestsSent>>

\* ... or refuses.
RefuseName(r) ==
    /\ StillPaired(r) /\ r.kind = "name"
    /\ \/ r.value \in Unfit
       \/ ~Replayed(r) /\ (ReplayedElsewhere(r) \/ ~Expects(r))
    /\ travelling' = travelling \ {r}
    /\ Answers(r, IF r.value \in Unfit THEN "unfit" ELSE "refused")
    /\ UNCHANGED <<profileTables, profilePhone, executor, requestsSent>>

\* put_partner_avatar and delete_partner_avatar: the same image is no change, and a
\* removal forgets the revision.
ChangeAvatar(r) ==
    /\ StillPaired(r) /\ r.kind = "avatar"
    /\ LET old == avatars[r.couple]
           new == IF r.value = NoGift THEN NoRow
                  ELSE IF r.value = old.value THEN old
                  ELSE [value |-> r.value, revision |-> old.revision + 1]
       IN  new.revision <= MaxRequests /\ avatars' = [avatars EXCEPT ![r.couple] = new]
    /\ travelling' = travelling \ {r} /\ Answers(r, "done")
    /\ UNCHANGED <<paired, pairings, given, replays, applied, profilePhone, executor, requestsSent>>

\* lock_couple found it ended.
CoupleEnded(r) ==
    /\ r.couple # 0 /\ r.couple # paired
    /\ travelling' = travelling \ {r} /\ Answers(r, "inactive")
    /\ UNCHANGED <<profileTables, profilePhone, executor, requestsSent>>

\* The couple's names, operations and avatars go in the transaction that ends it.
EndPairing ==
    /\ paired # 0 /\ paired' = 0
    /\ given' = [given EXCEPT ![paired] = NoRow] /\ avatars' = [avatars EXCEPT ![paired] = NoRow]
    /\ replays' = {o \in replays : o.couple # paired}
    /\ UNCHANGED <<pairings, applied, profilePhone, executor, travelling, requestsSent, answer>>

PairAgain ==
    /\ paired = 0 /\ pairings < MaxPairings
    /\ pairings' = pairings + 1 /\ paired' = pairings + 1
    /\ UNCHANGED <<given, replays, avatars, applied, profilePhone, executor, travelling,
                   requestsSent, answer>>

\* Maintenance removes operations of thirty days ago.
ForgetReplay(o) ==
    /\ replays' = replays \ {o}
    /\ UNCHANGED <<paired, pairings, given, avatars, applied, profilePhone, executor, travelling,
                   requestsSent, answer>>

ProfileNext ==
    \/ \E value \in Names \cup {NoGift} : TypeName(value)
    \/ \E task \in {"mutate", "refresh"} : Refresh(task)
    \/ \E image \in Images \cup {NoGift} : SendAvatar(image)
    \/ SendName \/ NameDone \/ AvatarDone \/ Refused \/ FetchProfile \/ SaveProfile
    \/ CallFails \/ ClearProfile
    \/ \E r \in travelling :
          \/ FindCouple(r) \/ ApplyName(r) \/ ReplayName(r) \/ RefuseName(r)
          \/ ChangeAvatar(r) \/ CoupleEnded(r)
    \/ EndPairing \/ PairAgain
    \/ \E o \in replays : ForgetReplay(o)

ProfileSpec == ProfileInit /\ [][ProfileNext]_profileVars

-----------------------------------------------------------------------------
(* Properties.                                                             *)

\* However often it is sent, a change is made once in a couple, also after its
\* replay record is gone.
NameGivenOnce == \A k \in Changes \X Pairings : applied[k] <= 1

\* The phone is told that a name is given only if it is, in that couple.
ToldWasGiven == \A t \in acknowledged : applied[<<t.change, t.couple>>] > 0

\* Nothing given in a couple outlives it, and no late request brings it back.
EndedIsForgotten ==
    /\ \A c \in Pairings \ {paired} : given[c] = NoRow /\ avatars[c] = NoRow
    /\ \A o \in replays : o.couple = paired

\* Names and avatars are given once, acknowledged truthfully and end with the couple.
ProfileIsSound == NameGivenOnce /\ ToldWasGiven /\ EndedIsForgotten
=============================================================================
