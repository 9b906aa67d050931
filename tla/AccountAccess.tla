--------------------------- MODULE AccountAccess ---------------------------
(***************************************************************************)
(* One account of the API: registration, verification and recovery links,  *)
(* password sessions and their rotation (routes/auth.py, account_entry.py, *)
(* dependencies.py), and the two administrator actions that end sessions   *)
(* (routes/admin_console.py).                                              *)
(*                                                                         *)
(* Every transaction that holds the account row lock is one action.  What  *)
(* a request read before it had the lock is kept in its slot of `asking`,  *)
(* and other requests run in between.  A link is usable from the moment it *)
(* is written: the mail that carries it may arrive at any time.            *)
(* Throttling is modelled in Throttle and mail in MailDelivery; a refused  *)
(* request changes nothing here.                                           *)
(***************************************************************************)
EXTENDS Integers, Sequences

CONSTANTS
    AuthSlots,      \* requests being handled at the same time
    MaxLinks,       \* bound on the one-use links written
    MaxLogins,      \* bound on the sessions issued
    MaxPasswords,   \* bound on password changes
    AuthEnd,        \* bound on the clock
    VerifyLife,     \* 24 hours
    ResetLife,      \* 30 minutes
    SessionLife,    \* session_minutes
    LinkCooldown    \* five minutes

ASSUME AccessAssumption ==
    /\ {MaxLinks, MaxLogins, MaxPasswords, AuthEnd} \subseteq Nat
    /\ {VerifyLife, ResetLife, SessionLife, LinkCooldown} \subseteq Nat \ {0}

VARIABLES
    clockNow,   \* SystemClock
    account,    \* the account row, `known` once it is registered
    links,      \* every OneUseToken row, in the order they were written
    logins,     \* every Session row, in the order they were issued
    asking      \* what each request has read so far

accessVars == <<clockNow, account, links, logins, asking>>

Purposes == {"verify_email", "password_reset"}
Passwords == 0..MaxPasswords
Instants == 0..AuthEnd
NotAsking == [op |-> "none", of |-> 0]

AccountRows ==
    [known : BOOLEAN, verified : BOOLEAN, suspended : BOOLEAN,
     deleted : BOOLEAN, password : Passwords]

\* `used` counts the times the link took effect.
LinkRows ==
    [purpose : Purposes, created : Instants, expires : Nat,
     consumed : BOOLEAN, used : 0..2]

\* `proof` is the password the holder showed when the chain of sessions began,
\* `heirs` the number of sessions that rotation issued in place of this one.
LoginRows ==
    [expires : Nat, revoked : BOOLEAN, proof : Passwords, heirs : 0..2]

Askings ==
    [op : {"none", "rotate", "logout", "reset", "verify"}, of : Nat]

AccessInit ==
    /\ clockNow = 0
    /\ account = [known |-> FALSE, verified |-> FALSE, suspended |-> FALSE,
                  deleted |-> FALSE, password |-> 0]
    /\ links = <<>>
    /\ logins = <<>>
    /\ asking = [r \in AuthSlots |-> NotAsking]

-----------------------------------------------------------------------------
(* One-use links *)

\* The unconsumed links of one purpose, locked under the account lock.
Outstanding(purpose) ==
    {i \in DOMAIN links : links[i].purpose = purpose /\ ~links[i].consumed}

\* Only the newest outstanding link is looked at.
InsideCooldown(open) ==
    \E i \in open : /\ \A j \in open : links[j].created <= links[i].created
                    /\ links[i].created > clockNow - LinkCooldown

ConsumeLinks(rows, open) ==
    [i \in DOMAIN rows |->
        IF i \in open THEN [rows[i] EXCEPT !.consumed = TRUE] ELSE rows[i]]

CreateLink(rows, purpose, life) ==
    Append(rows, [purpose |-> purpose, created |-> clockNow,
                  expires |-> clockNow + life, consumed |-> FALSE, used |-> 0])

\* The token rows locked by a verification that does not yet hold the account.
HeldLinks == {asking[r].of : r \in {q \in AuthSlots : asking[q].op = "verify"}}

\* The account and its first verification link are inserted together.
CreateRegistration ==
    /\ account' = [account EXCEPT !.known = TRUE]
    /\ links' = CreateLink(links, "verify_email", VerifyLife)

\* A second registration of the address finds it taken and changes nothing, as
\* one does while registration is closed.
Register ==
    /\ ~account.known
    /\ Len(links) < MaxLinks
    /\ CreateRegistration
    /\ UNCHANGED <<clockNow, logins, asking>>

\* A resend or a recovery request whose turn it is to hold the account row and
\* whose token rows nobody holds.
IssueLink(purpose, life) ==
    LET open == Outstanding(purpose) IN
    /\ account.known /\ ~account.deleted
    /\ Len(links) < MaxLinks
    /\ open \cap HeldLinks = {}
    /\ ~InsideCooldown(open)
    /\ links' = CreateLink(ConsumeLinks(links, open), purpose, life)
    /\ UNCHANGED <<clockNow, account, logins, asking>>

ResendVerification == ~account.verified /\ IssueLink("verify_email", VerifyLife)

ForgotPassword == IssueLink("password_reset", ResetLife)

\* A resend or a deletion holds the account and waits for a token row, the
\* verification holds that row and waits for the account: the database ends
\* the cycle by aborting one of them.  Here the verification loses; a resend
\* that loses changes nothing.
VerificationAborted(r) ==
    /\ asking[r].op = "verify"
    /\ asking' = [asking EXCEPT ![r] = NotAsking]
    /\ UNCHANGED <<clockNow, account, links, logins>>

Usable(i, purpose) ==
    /\ links[i].purpose = purpose
    /\ ~links[i].consumed
    /\ links[i].expires > clockNow

\* Verification locks the token row first.
LockLink(r) ==
    /\ asking[r] = NotAsking
    /\ \E i \in DOMAIN links \ HeldLinks :
          /\ Usable(i, "verify_email")
          /\ asking' = [asking EXCEPT ![r] = [op |-> "verify", of |-> i]]
    /\ UNCHANGED <<clockNow, account, links, logins>>

Take(rows, i) ==
    [rows EXCEPT ![i].consumed = TRUE, ![i].used = @ + 1]

VerifyEmail(r) ==
    /\ asking[r].op = "verify"
    /\ links' = Take(links, asking[r].of)
    /\ account' = [account EXCEPT !.verified = TRUE]
    /\ asking' = [asking EXCEPT ![r] = NotAsking]
    /\ UNCHANGED <<clockNow, logins>>

\* Recovery finds the account of a usable link without any lock.
FindReset(r) ==
    /\ asking[r] = NotAsking
    /\ \E i \in DOMAIN links :
          /\ Usable(i, "password_reset")
          /\ asking' = [asking EXCEPT ![r] = [op |-> "reset", of |-> i]]
    /\ UNCHANGED <<clockNow, account, links, logins>>

\* The proof is examined again among the links locked under the account lock.
ResetStillValid(i) ==
    /\ ~account.deleted
    /\ i \in Outstanding("password_reset")
    /\ links[i].expires > clockNow

RevokeAll(rows) == [i \in DOMAIN rows |-> [rows[i] EXCEPT !.revoked = TRUE]]

\* Every outstanding recovery link is consumed with the one that was shown, the
\* password is replaced and every session ends.
ResetPassword(r) ==
    LET i == asking[r].of IN
    /\ asking[r].op = "reset"
    /\ \/ /\ ResetStillValid(i)
          /\ account.password < MaxPasswords
          /\ links' = Take(ConsumeLinks(links, Outstanding("password_reset")), i)
          /\ account' = [account EXCEPT !.password = @ + 1]
          /\ logins' = RevokeAll(logins)
       \/ /\ ~ResetStillValid(i)
          /\ UNCHANGED <<account, links, logins>>
    /\ asking' = [asking EXCEPT ![r] = NotAsking]
    /\ UNCHANGED clockNow

-----------------------------------------------------------------------------
(* Sessions *)

\* Mutant: the password is compared with a row read before the lock, which may
\* hold an earlier password.
MayLogInStale(given) ==
    /\ account.known /\ account.verified
    /\ ~account.suspended /\ ~account.deleted
    /\ given <= account.password

\* The password is compared under the lock that a reset also takes.
MayLogIn(given) ==
    /\ account.known /\ account.verified
    /\ ~account.suspended /\ ~account.deleted
    /\ given = account.password

NewSession(proof) ==
    [expires |-> clockNow + SessionLife, revoked |-> FALSE, proof |-> proof, heirs |-> 0]

Login ==
    /\ \E given \in Passwords :
          /\ MayLogIn(given)
          /\ Len(logins) < MaxLogins
          /\ logins' = Append(logins, NewSession(given))
    /\ UNCHANGED <<clockNow, account, links, asking>>

\* current_account: one unlocked read of session and account.
CurrentAccount(i) ==
    /\ ~logins[i].revoked
    /\ logins[i].expires > clockNow
    /\ ~account.suspended /\ ~account.deleted

Authenticate(r, op) ==
    /\ asking[r] = NotAsking
    /\ \E i \in DOMAIN logins :
          /\ CurrentAccount(i)
          /\ asking' = [asking EXCEPT ![r] = [op |-> op, of |-> i]]
    /\ UNCHANGED <<clockNow, account, links, logins>>

\* Under the lock: the account is read again and the session must still be live.
StillCurrent(i) == ~account.suspended /\ ~account.deleted /\ ~logins[i].revoked

\* The old session ends and a successor takes its place in one transaction.
SessionRotated(rows, i) ==
    Append([rows EXCEPT ![i].revoked = TRUE, ![i].heirs = @ + 1],
           NewSession(rows[i].proof))

RotateSession(r) ==
    LET i == asking[r].of IN
    /\ asking[r].op = "rotate"
    /\ \/ /\ StillCurrent(i)
          /\ Len(logins) < MaxLogins
          /\ logins' = SessionRotated(logins, i)
       \/ ~StillCurrent(i) /\ UNCHANGED logins
    /\ asking' = [asking EXCEPT ![r] = NotAsking]
    /\ UNCHANGED <<clockNow, account, links>>

\* Sign-out goes by the session row alone: the account it loaded before the
\* lock is not read again.
Logout(r) ==
    /\ asking[r].op = "logout"
    /\ logins' = [logins EXCEPT ![asking[r].of].revoked = TRUE]
    /\ asking' = [asking EXCEPT ![r] = NotAsking]
    /\ UNCHANGED <<clockNow, account, links>>

-----------------------------------------------------------------------------
(* Administration, deletion and time *)

SetSuspended(suspended) ==
    /\ account.known /\ ~account.deleted
    /\ account' = [account EXCEPT !.suspended = suspended]
    /\ logins' = IF suspended THEN RevokeAll(logins) ELSE logins
    /\ UNCHANGED <<clockNow, links, asking>>

RevokeSessions ==
    /\ \E i \in DOMAIN logins : ~logins[i].revoked
    /\ logins' = RevokeAll(logins)
    /\ UNCHANGED <<clockNow, account, links, asking>>

\* What schedule_deletion does to these rows; Relationship models the rest.  The
\* token rows it deletes are kept here as consumed, which no query tells apart.
ScheduleDeletion ==
    /\ account.known /\ ~account.suspended /\ ~account.deleted
    /\ \E i \in DOMAIN logins : CurrentAccount(i)
    /\ HeldLinks = {}
    /\ account' = [account EXCEPT !.deleted = TRUE]
    /\ logins' = RevokeAll(logins)
    /\ links' = ConsumeLinks(links, DOMAIN links)
    /\ UNCHANGED <<clockNow, asking>>

AuthClockTick ==
    /\ clockNow < AuthEnd
    /\ clockNow' = clockNow + 1
    /\ UNCHANGED <<account, links, logins, asking>>

AccessNext ==
    \/ Register \/ ResendVerification \/ ForgotPassword
    \/ Login \/ RevokeSessions \/ ScheduleDeletion \/ AuthClockTick
    \/ \E suspended \in BOOLEAN : SetSuspended(suspended)
    \/ \E r \in AuthSlots :
          \/ LockLink(r) \/ VerifyEmail(r) \/ VerificationAborted(r)
          \/ FindReset(r) \/ ResetPassword(r)
          \/ Authenticate(r, "rotate") \/ RotateSession(r)
          \/ Authenticate(r, "logout") \/ Logout(r)

AccessSpec == AccessInit /\ [][AccessNext]_accessVars

-----------------------------------------------------------------------------
(* Properties *)

\* Every variable has its type.
AccessTypeOK ==
    /\ clockNow \in Instants
    /\ account \in AccountRows
    /\ links \in Seq(LinkRows) /\ Len(links) <= MaxLinks
    /\ logins \in Seq(LoginRows) /\ Len(logins) <= MaxLogins
    /\ asking \in [AuthSlots -> Askings]

\* Whoever holds a live session has shown the password the account has now: no
\* interleaving of sign-in, rotation and recovery carries a session across a
\* password change (reset_password, rotate_session, login).
SessionsFollowPassword ==
    \A i \in DOMAIN logins :
        ~logins[i].revoked => logins[i].proof = account.password

\* A suspended or deleted account has no live session left, so lifting the
\* suspension brings none back (update_account, schedule_deletion).
StoppedAccountsHaveNoSession ==
    account.suspended \/ account.deleted =>
        \A i \in DOMAIN logins : logins[i].revoked

\* A link takes effect at most once, however many requests show it at the same
\* time (verify_email, _lock_valid_reset, _consume_reset_set).
LinksWorkOnce == \A i \in DOMAIN links : links[i].used <= 1

\* The newest link of a purpose is the only usable one ("queue at most one
\* current link", account_entry.py).
OneCurrentLink ==
    \A i, j \in DOMAIN links :
        /\ links[i].purpose = links[j].purpose
        /\ ~links[i].consumed /\ ~links[j].consumed
        => i = j

\* Replaying a rotated token never yields a second successor (rotate_session).
RotationIsLinear == \A i \in DOMAIN logins : logins[i].heirs <= 1

\* Every way into the account is warranted: a session by the password, the account
\* and the rotation behind it, a link by being the newest of its purpose and unused,
\* in every interleaving of sign-in, rotation, sign-out, verification, recovery,
\* suspension and deletion (routes/auth.py, account_entry.py).
AccessIsWarranted ==
    /\ SessionsFollowPassword /\ StoppedAccountsHaveNoSession /\ RotationIsLinear
    /\ LinksWorkOnce /\ OneCurrentLink

=============================================================================
