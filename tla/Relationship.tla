---------------------------- MODULE Relationship ----------------------------
(***************************************************************************)
(* How two accounts become a couple and stop being one: pair codes and     *)
(* their confirmation (routes/pairing.py), the account-first locking and   *)
(* the teardown of relationship_service.py, consent and location samples   *)
(* (routes/couples.py, routes/together_time_v2.py), the deletion of an     *)
(* account (routes/account.py) and its erasure (account_deletion.py).      *)
(*                                                                         *)
(* A request is one database session. Every statement that reads something *)
(* the request later relies on is a step of its own, row locks are taken   *)
(* one by one and kept until the transaction ends, and writes become       *)
(* visible at the commit. Accounts are verified and numbered in UUID       *)
(* order; suspension, names and the contents of samples are left out.      *)
(***************************************************************************)
EXTENDS Integers, FiniteSets

CONSTANTS
    Accounts,  \* account ids, in UUID order
    Codes,     \* pair codes that can be created
    Couples,   \* couple ids that can be created
    Requests,  \* database sessions that can be open at once
    Ops,       \* operations the requests of this instance perform
    None       \* an SQL NULL, or nobody holding a lock

ASSUME RelationshipAssumption ==
    /\ Accounts \subseteq Nat
    /\ IsFiniteSet(Requests)  \* the database accepts so many connections
    /\ None \notin Accounts \cup Codes \cup Couples \cup Requests

Operations == {"redeem", "confirm", "unpair", "delete", "on", "off", "upload",
               "erase"}

VARIABLES
    account,   \* Account: "active", "deleted" (deleted_at) or "erased"
    code,      \* PairCode: [status, creator, partner]
    couple,    \* Couple: "absent", "active", "ended" or "erased"
    members,   \* accounts with a CoupleMember row of the couple
    active,    \* those whose left_at is NULL
    consent,   \* those whose location_enabled is TRUE
    samples,   \* accounts with a LocationSample of the couple
    origin,    \* the pair code each couple was made from
    wish,      \* the preference each account was last told is in force
    acctLock,  \* the request that locks the account row
    coupleLock,\* the request that locks the couple row
    pc, op, actor,
    about,     \* the code a request works on
    other,     \* the creator or the pending partner it has read
    mine,      \* the couple it has read
    seen,      \* location_enabled as its member object was loaded
    want       \* accounts lock_accounts still has to lock

dataVars  == <<account, code, couple, members, active, consent, samples,
               origin, wish>>
lockVars  == <<acctLock, coupleLock>>
localVars == <<op, actor, about, other, mine, seen, want>>
vars == <<dataVars, lockVars, pc, localVars>>

Stages == {"idle", "members", "lock", "check", "couple", "self", "commit"}

TypeOK ==
    /\ account \in [Accounts -> {"active", "deleted", "erased"}]
    /\ code \in [Codes -> [status : {"absent", "open", "expired", "consumed"},
                           creator : Accounts \cup {None},
                           partner : Accounts \cup {None}]]
    /\ couple \in [Couples -> {"absent", "active", "ended", "erased"}]
    /\ members \in [Couples -> SUBSET Accounts]
    /\ active \in [Couples -> SUBSET Accounts]
    /\ consent \in [Couples -> SUBSET Accounts]
    /\ samples \in [Couples -> SUBSET Accounts]
    /\ origin \in [Couples -> Codes \cup {None}]
    /\ wish \in [Accounts -> BOOLEAN]
    /\ acctLock \in [Accounts -> Requests \cup {None}]
    /\ coupleLock \in [Couples -> Requests \cup {None}]
    /\ pc \in [Requests -> Stages]
    /\ op \in [Requests -> Operations \cup {None}]
    /\ actor \in [Requests -> Accounts \cup {None}]
    /\ about \in [Requests -> Codes \cup {None}]
    /\ other \in [Requests -> Accounts \cup {None}]
    /\ mine \in [Requests -> Couples \cup {None}]
    /\ seen \in [Requests -> BOOLEAN]
    /\ want \in [Requests -> SUBSET Accounts]

Init ==
    /\ account = [a \in Accounts |-> "active"]
    /\ code = [k \in Codes |-> [status |-> "absent", creator |-> None,
                                partner |-> None]]
    /\ couple = [c \in Couples |-> "absent"]
    /\ members = [c \in Couples |-> {}]
    /\ active = [c \in Couples |-> {}]
    /\ consent = [c \in Couples |-> {}]
    /\ samples = [c \in Couples |-> {}]
    /\ origin = [c \in Couples |-> None]
    /\ wish = [a \in Accounts |-> FALSE]
    /\ acctLock = [a \in Accounts |-> None]
    /\ coupleLock = [c \in Couples |-> None]
    /\ pc = [r \in Requests |-> "idle"]
    /\ op = [r \in Requests |-> None]
    /\ actor = [r \in Requests |-> None]
    /\ about = [r \in Requests |-> None]
    /\ other = [r \in Requests |-> None]
    /\ mine = [r \in Requests |-> None]
    /\ seen = [r \in Requests |-> FALSE]
    /\ want = [r \in Requests |-> {}]

-----------------------------------------------------------------------------
(* Helpers                                                                 *)

Go(r, label) == pc' = [pc EXCEPT ![r] = label]

\* A handler returns or raises: the session closes and its locks are freed.
Finish(r) ==
    /\ Go(r, "idle")
    /\ acctLock' = [a \in Accounts |-> IF acctLock[a] = r THEN None ELSE acctLock[a]]
    /\ coupleLock' = [c \in Couples |-> IF coupleLock[c] = r THEN None ELSE coupleLock[c]]
    /\ op' = [op EXCEPT ![r] = None]
    /\ actor' = [actor EXCEPT ![r] = None]
    /\ about' = [about EXCEPT ![r] = None]
    /\ other' = [other EXCEPT ![r] = None]
    /\ mine' = [mine EXCEPT ![r] = None]
    /\ seen' = [seen EXCEPT ![r] = FALSE]
    /\ want' = [want EXCEPT ![r] = {}]

\* current_account authenticates a, and the handler of operation o begins.
Open(r, o, a) ==
    /\ pc[r] = "idle" /\ o \in Ops /\ account[a] = "active"
    /\ op' = [op EXCEPT ![r] = o]
    /\ actor' = [actor EXCEPT ![r] = a]

\* _eligible, for an account that has been verified.
Eligible(a) == account[a] = "active"

Single(a) == \A c \in Couples : a \notin active[c]

\* The two accounts lock_accounts was called with in redeem and confirm.
Pair(r) == {actor[r], other[r]}

-----------------------------------------------------------------------------
(* Pair codes                                                              *)

\* create_code: one lock, so nothing comes between its statements.
CreateCode(a, k) ==
    /\ "redeem" \in Ops
    /\ account[a] = "active" /\ acctLock[a] = None
    /\ Eligible(a) /\ Single(a)
    /\ code[k].status = "absent"
    /\ code' = [code EXCEPT ![k] = [status |-> "open", creator |-> a,
                                    partner |-> None]]
    /\ UNCHANGED <<account, couple, members, active, consent, samples, origin,
                   wish, lockVars, pc, localVars>>

\* Ten minutes pass.
Expire(k) ==
    /\ code[k].status = "open"
    /\ code' = [code EXCEPT ![k].status = "expired"]
    /\ UNCHANGED <<account, couple, members, active, consent, samples, origin,
                   wish, lockVars, pc, localVars>>

\* redeem_code reads the code without a lock ...
PreviewRedeem(r, a, k) ==
    /\ Open(r, "redeem", a)
    /\ code[k].status = "open" /\ code[k].creator # a
    /\ about' = [about EXCEPT ![r] = k]
    /\ other' = [other EXCEPT ![r] = code[k].creator]
    /\ want' = [want EXCEPT ![r] = {a, code[k].creator}]
    /\ Go(r, "lock")
    /\ UNCHANGED <<dataVars, lockVars, mine, seen>>

\* Mutant: a code nobody has redeemed can be confirmed.
PreviewConfirmUnreserved(r, a, k) ==
    /\ Open(r, "confirm", a)
    /\ code[k].status = "open" /\ code[k].creator = a
    /\ about' = [about EXCEPT ![r] = k]
    /\ other' = [other EXCEPT ![r] = code[k].partner]
    /\ want' = [want EXCEPT ![r] = {a, code[k].partner}]
    /\ Go(r, "lock")
    /\ UNCHANGED <<dataVars, lockVars, mine, seen>>

\* Mutant: only the account of the caller is locked.
PreviewConfirmAlone(r, a, k) ==
    /\ Open(r, "confirm", a)
    /\ code[k].status = "open" /\ code[k].creator = a
    /\ code[k].partner # None
    /\ about' = [about EXCEPT ![r] = k]
    /\ other' = [other EXCEPT ![r] = code[k].partner]
    /\ want' = [want EXCEPT ![r] = {a}]
    /\ Go(r, "lock")
    /\ UNCHANGED <<dataVars, lockVars, mine, seen>>

\* ... and so does confirm_pairing.
PreviewConfirm(r, a, k) ==
    /\ Open(r, "confirm", a)
    /\ code[k].status = "open" /\ code[k].creator = a
    /\ code[k].partner # None
    /\ about' = [about EXCEPT ![r] = k]
    /\ other' = [other EXCEPT ![r] = code[k].partner]
    /\ want' = [want EXCEPT ![r] = {a, code[k].partner}]
    /\ Go(r, "lock")
    /\ UNCHANGED <<dataVars, lockVars, mine, seen>>

\* Mutant: the rows are locked in the order the caller names them.
NextLockUnsorted(r) ==
    IF actor[r] \in want[r] THEN actor[r]
    ELSE CHOOSE a \in want[r] : \A b \in want[r] : a <= b

\* The next row of "ORDER BY accounts.id FOR UPDATE".
NextLock(r) == CHOOSE a \in want[r] : \A b \in want[r] : a <= b

\* lock_accounts locks one row more; a row that is gone is not returned.
LockAccount(r) ==
    /\ pc[r] = "lock" /\ want[r] # {}
    /\ LET a == NextLock(r) IN
       /\ acctLock[a] = None
       /\ acctLock' = IF account[a] = "erased" THEN acctLock
                      ELSE [acctLock EXCEPT ![a] = r]
       /\ want' = [want EXCEPT ![r] = @ \ {a}]
    /\ UNCHANGED <<dataVars, coupleLock, pc, op, actor, about, other, mine, seen>>

AccountsLocked(r) == pc[r] = "lock" /\ want[r] = {}

MayRedeem(r) ==
    /\ code[about[r]].status = "open" /\ code[about[r]].partner = None
    /\ \A a \in Pair(r) : Eligible(a) /\ Single(a)

MayConfirm(r) ==
    /\ code[about[r]].status = "open" /\ code[about[r]].partner = other[r]
    /\ \A a \in Pair(r) : Eligible(a) /\ Single(a)

\* Under the locks everything is read again.
CheckPairing(r) ==
    /\ AccountsLocked(r) /\ op[r] \in {"redeem", "confirm"}
    /\ IF (op[r] = "redeem" /\ MayRedeem(r)) \/ (op[r] = "confirm" /\ MayConfirm(r))
       THEN Go(r, "commit") /\ UNCHANGED <<lockVars, localVars>>
       ELSE Finish(r)
    /\ UNCHANGED dataVars

CommitRedeem(r) ==
    /\ pc[r] = "commit" /\ op[r] = "redeem"
    /\ code' = [code EXCEPT ![about[r]].partner = actor[r]]
    /\ Finish(r)
    /\ UNCHANGED <<account, couple, members, active, consent, samples, origin, wish>>

\* Mutant: the code is not consumed.
CommitConfirmReusable(r) ==
    /\ pc[r] = "commit" /\ op[r] = "confirm"
    /\ \E c \in Couples :
          /\ couple[c] = "absent"
          /\ couple' = [couple EXCEPT ![c] = "active"]
          /\ members' = [members EXCEPT ![c] = Pair(r)]
          /\ active' = [active EXCEPT ![c] = Pair(r)]
          /\ origin' = [origin EXCEPT ![c] = about[r]]
    /\ wish' = [a \in Accounts |-> a \notin Pair(r) /\ wish[a]]
    /\ Finish(r)
    /\ UNCHANGED <<account, code, consent, samples>>

\* The couple, its two members and the consumption of the code.
CommitConfirm(r) ==
    /\ pc[r] = "commit" /\ op[r] = "confirm"
    /\ \E c \in Couples :
          /\ couple[c] = "absent"
          /\ couple' = [couple EXCEPT ![c] = "active"]
          /\ members' = [members EXCEPT ![c] = Pair(r)]
          /\ active' = [active EXCEPT ![c] = Pair(r)]
          /\ origin' = [origin EXCEPT ![c] = about[r]]
    /\ code' = [code EXCEPT ![about[r]].status = "consumed"]
    /\ wish' = [a \in Accounts |-> a \notin Pair(r) /\ wish[a]]
    /\ Finish(r)
    /\ UNCHANGED <<account, consent, samples>>

-----------------------------------------------------------------------------
(* The end of a relationship                                               *)

\* lock_active_relationship reads the couple of the actor. Without one,
\* unpair answers relationship_inactive and schedule_deletion goes on.
ReadCouple(r, o, a) ==
    /\ o \in {"unpair", "delete"} /\ Open(r, o, a)
    /\ \/ \E c \in Couples : /\ a \in active[c]
                             /\ mine' = [mine EXCEPT ![r] = c]
                             /\ Go(r, "members")
       \/ o = "delete" /\ Single(a) /\ Go(r, "self") /\ UNCHANGED mine
    /\ UNCHANGED <<dataVars, lockVars, about, other, seen, want>>

ReadMembers(r) ==
    /\ pc[r] = "members"
    /\ want' = [want EXCEPT ![r] = active[mine[r]]]
    /\ Go(r, "lock")
    /\ UNCHANGED <<dataVars, lockVars, op, actor, about, other, mine, seen>>

\* The recheck after the locks: gone, replaced (409) or the same couple.
RecheckCouple(r) ==
    /\ AccountsLocked(r) /\ op[r] \in {"unpair", "delete"}
    /\ \/ /\ actor[r] \in active[mine[r]]
          /\ Go(r, "couple")
          /\ UNCHANGED <<lockVars, localVars>>
       \/ /\ Single(actor[r]) /\ op[r] = "delete"
          /\ Go(r, "self")
          /\ mine' = [mine EXCEPT ![r] = None]
          /\ UNCHANGED <<lockVars, op, actor, about, other, seen, want>>
       \/ /\ actor[r] \notin active[mine[r]]
          /\ op[r] = "unpair" \/ ~Single(actor[r])
          /\ Finish(r)
    /\ UNCHANGED dataVars

\* Waits for the couple row, then refuses one that has ended: lock_couple,
\* _locked_couple and lock_active_relationship alike.
LockCouple(r) ==
    /\ pc[r] = "couple" /\ coupleLock[mine[r]] = None
    /\ IF couple[mine[r]] = "active"
       THEN /\ coupleLock' = [coupleLock EXCEPT ![mine[r]] = r]
            /\ Go(r, CASE op[r] = "delete" -> "self"
                       [] op[r] = "upload" -> "check"
                       [] OTHER -> "commit")
            /\ UNCHANGED <<acctLock, localVars>>
       ELSE Finish(r)
    /\ UNCHANGED dataVars

\* Mutant: left_at is not set.
EndCoupleStay(c) ==
    /\ couple' = [couple EXCEPT ![c] = "ended"]
    /\ consent' = [consent EXCEPT ![c] = {}]
    /\ samples' = [samples EXCEPT ![c] = {}]
    /\ wish' = [a \in Accounts |-> a \notin active[c] /\ wish[a]]
    /\ UNCHANGED active

\* end_active_relationship: both members leave, consent and the ephemeral
\* rows of the couple go.
EndCouple(c) ==
    /\ couple' = [couple EXCEPT ![c] = "ended"]
    /\ active' = [active EXCEPT ![c] = {}]
    /\ consent' = [consent EXCEPT ![c] = {}]
    /\ samples' = [samples EXCEPT ![c] = {}]
    /\ wish' = [a \in Accounts |-> a \notin active[c] /\ wish[a]]

CommitUnpair(r) ==
    /\ pc[r] = "commit" /\ op[r] = "unpair"
    /\ EndCouple(mine[r])
    /\ Finish(r)
    /\ UNCHANGED <<account, code, members, origin>>

\* schedule_deletion locks the actor, looks again and commits everything.
CommitDelete(r) ==
    /\ pc[r] = "self" /\ acctLock[actor[r]] \in {None, r}
    /\ IF account[actor[r]] = "active"
       THEN /\ account' = [account EXCEPT ![actor[r]] = "deleted"]
            /\ IF mine[r] # None THEN EndCouple(mine[r])
               ELSE UNCHANGED <<couple, active, consent, samples, wish>>
       ELSE UNCHANGED <<account, couple, active, consent, samples, wish>>
    /\ Finish(r)
    /\ UNCHANGED <<code, members, origin>>

\* run_maintenance_once, seven days later: the account row is locked ...
BeginErase(r, a) ==
    /\ pc[r] = "idle" /\ "erase" \in Ops /\ account[a] = "deleted"
    /\ acctLock[a] = None
    /\ acctLock' = [acctLock EXCEPT ![a] = r]
    /\ op' = [op EXCEPT ![r] = "erase"]
    /\ actor' = [actor EXCEPT ![r] = a]
    /\ Go(r, "commit")
    /\ UNCHANGED <<dataVars, coupleLock, about, other, mine, seen, want>>

\* ... and every couple the account was in is deleted with all it owns, and so
\* are its codes (as good as expired here).
CommitErase(r) ==
    /\ pc[r] = "commit" /\ op[r] = "erase"
    /\ LET gone == {c \in Couples : actor[r] \in members[c]} IN
       /\ \A c \in gone : coupleLock[c] = None
       /\ couple' = [c \in Couples |-> IF c \in gone THEN "erased" ELSE couple[c]]
       /\ members' = [c \in Couples |-> IF c \in gone THEN {} ELSE members[c]]
       /\ active' = [c \in Couples |-> IF c \in gone THEN {} ELSE active[c]]
       /\ consent' = [c \in Couples |-> IF c \in gone THEN {} ELSE consent[c]]
       /\ samples' = [c \in Couples |-> IF c \in gone THEN {} ELSE samples[c]]
       /\ wish' = [a \in Accounts |-> wish[a] /\ \A c \in gone : a \notin active[c]]
    /\ account' = [account EXCEPT ![actor[r]] = "erased"]
    /\ code' = [k \in Codes |->
          IF code[k].creator = actor[r]
          THEN [status |-> "expired", creator |-> None, partner |-> None]
          ELSE IF code[k].partner = actor[r] THEN [code[k] EXCEPT !.partner = None]
          ELSE code[k]]
    /\ Finish(r)
    /\ UNCHANGED origin

-----------------------------------------------------------------------------
(* Consent and location samples, under the couple's lock                   *)

\* active_member loads the membership, without a lock.
ReadMember(r, o, a) ==
    /\ o \in {"on", "off", "upload"} /\ Open(r, o, a)
    /\ \E c \in Couples :
          /\ a \in active[c]
          /\ mine' = [mine EXCEPT ![r] = c]
          /\ seen' = [seen EXCEPT ![r] = a \in consent[c]]
    /\ Go(r, "couple")
    /\ UNCHANGED <<dataVars, lockVars, about, other, want>>

\* Mutant: withdrawing consent keeps the samples collected so far.
CommitPreferenceKeeps(r) ==
    /\ pc[r] = "commit" /\ op[r] \in {"on", "off"}
    /\ LET c == mine[r]
           a == actor[r]
           value == op[r] = "on" IN
       /\ consent' = IF value = seen[r] THEN consent
                     ELSE IF value THEN [consent EXCEPT ![c] = @ \cup {a}]
                     ELSE [consent EXCEPT ![c] = @ \ {a}]
       /\ wish' = [wish EXCEPT ![a] = value]
    /\ Finish(r)
    /\ UNCHANGED <<account, code, couple, members, active, samples, origin>>

\* update_preferences. The object loaded before the lock is written back, and
\* the flush emits an UPDATE only for a value that differs from the loaded one.
CommitPreference(r) ==
    /\ pc[r] = "commit" /\ op[r] \in {"on", "off"}
    /\ LET c == mine[r]
           a == actor[r]
           value == op[r] = "on" IN
       /\ consent' = IF value = seen[r] THEN consent
                     ELSE IF value THEN [consent EXCEPT ![c] = @ \cup {a}]
                     ELSE [consent EXCEPT ![c] = @ \ {a}]
       /\ samples' = IF value THEN samples ELSE [samples EXCEPT ![c] = {}]
       /\ wish' = [wish EXCEPT ![a] = value]
    /\ Finish(r)
    /\ UNCHANGED <<account, code, couple, members, active, origin>>

\* upload_locations_v2 asks for mutual consent under the lock ...
CheckConsent(r) ==
    /\ pc[r] = "check"
    /\ IF Cardinality(consent[mine[r]] \cap active[mine[r]]) = 2
       THEN Go(r, "commit") /\ UNCHANGED <<lockVars, localVars>>
       ELSE Finish(r)
    /\ UNCHANGED dataVars

\* ... and inserts the samples. Their foreign key takes a KEY SHARE lock of the
\* account row, which waits while another request holds it FOR UPDATE.
CommitUpload(r) ==
    /\ pc[r] = "commit" /\ op[r] = "upload"
    /\ acctLock[actor[r]] = None
    /\ samples' = [samples EXCEPT ![mine[r]] = @ \cup {actor[r]}]
    /\ Finish(r)
    /\ UNCHANGED <<account, code, couple, members, active, consent, origin, wish>>

-----------------------------------------------------------------------------
(* The database's deadlock detector                                        *)

\* r can only go on once q ends its transaction.
WaitsFor(r, q) ==
    /\ q # r
    /\ \/ pc[r] = "lock" /\ want[r] # {} /\ acctLock[NextLock(r)] = q
       \/ pc[r] = "couple" /\ coupleLock[mine[r]] = q
       \/ pc[r] = "self" /\ acctLock[actor[r]] = q
       \/ pc[r] = "commit" /\ op[r] = "upload" /\ acctLock[actor[r]] = q
       \/ /\ pc[r] = "commit" /\ op[r] = "erase"
          /\ \E c \in Couples : actor[r] \in members[c] /\ coupleLock[c] = q

Deadlocked(S) == S # {} /\ \A r \in S : \E q \in S : WaitsFor(r, q)

\* One transaction of the cycle is rolled back; its request fails.
AbortVictim(r) ==
    /\ \E S \in SUBSET Requests : r \in S /\ Deadlocked(S)
    /\ Finish(r)
    /\ UNCHANGED dataVars

-----------------------------------------------------------------------------
Step(r) ==
    \/ LockAccount(r) \/ CheckPairing(r) \/ CommitRedeem(r) \/ CommitConfirm(r)
    \/ ReadMembers(r) \/ RecheckCouple(r) \/ LockCouple(r)
    \/ CommitUnpair(r) \/ CommitDelete(r) \/ CommitErase(r)
    \/ CommitPreference(r) \/ CheckConsent(r) \/ CommitUpload(r)
    \/ AbortVictim(r)

Next ==
    \/ \E k \in Codes : Expire(k) \/ \E a \in Accounts : CreateCode(a, k)
    \/ \E r \in Requests, a \in Accounts :
          \/ \E k \in Codes : PreviewRedeem(r, a, k) \/ PreviewConfirm(r, a, k)
          \/ \E o \in Operations : ReadCouple(r, o, a) \/ ReadMember(r, o, a)
          \/ BeginErase(r, a)
    \/ \E r \in Requests : Step(r)

Spec == Init /\ [][Next]_vars

-----------------------------------------------------------------------------
(* Properties                                                              *)

\* The code a request is about to commit for is neither consumed nor reserved
\* for anyone else, and both accounts can still be paired.
StillPairable(r, partner) ==
    /\ code[about[r]].status \in {"open", "expired"}
    /\ code[about[r]].partner = partner
    /\ \A a \in Pair(r) : Eligible(a) /\ Single(a)

\* What redeem_code, confirm_pairing and end_active_relationship checked is
\* still true when they commit (a code may expire after its check): the account
\* locks cover every statement in between, so that the unique index on active
\* memberships never has to refuse a couple.
ChecksStillHold ==
    \A r \in Requests : pc[r] = "commit" =>
        /\ op[r] = "redeem" => StillPairable(r, None)
        /\ op[r] = "confirm" => StillPairable(r, other[r])
        /\ op[r] = "unpair" => couple[mine[r]] = "active"
                               /\ actor[r] \in active[mine[r]]

\* An active couple has exactly two members, nobody is in two of them, and of
\* a couple that ended nothing is shared any more: no membership, no consent,
\* no sample.
CouplesAreWhole ==
    /\ \A c \in Couples :
          IF couple[c] = "active"
          THEN Cardinality(active[c]) = 2 /\ active[c] = members[c]
               /\ consent[c] \subseteq active[c]
          ELSE active[c] = {} /\ consent[c] = {} /\ samples[c] = {}
    /\ \A c, d \in Couples : c # d => active[c] \cap active[d] = {}

\* A code makes at most one couple, even if that couple has ended again while
\* another confirmation of the same code was waiting for its locks.
CodeMakesOneCouple ==
    \A c, d \in Couples : origin[c] # None /\ origin[c] = origin[d] => c = d

\* A raw location is only kept while both partners consent to sharing it.
SamplesNeedMutualConsent ==
    \A c \in Couples : samples[c] # {} => consent[c] = members[c]

\* Accounts in UUID order, then the couple: pairing, unpairing, preferences,
\* deletion and erasure never wait for each other in a circle. Only a location
\* upload, whose insert asks for the account after the couple, closes one.
NoLockCycle ==
    \A S \in SUBSET Requests : Deadlocked(S) => \E r \in S : op[r] = "upload"

\* "Apply revocable member consent ... transactionally": the row agrees with
\* what the last request of the account was told.
PreferenceInForce ==
    \A c \in Couples, a \in Accounts :
        a \in active[c] => (a \in consent[c] <=> wish[a])

\* schedule_deletion stops all sharing: a deleted account is in no couple.
DeletedMeansUnpaired ==
    \A a \in Accounts : account[a] # "active" => Single(a)
=============================================================================
