------------------------ MODULE AccountAccessProofs ------------------------
(***************************************************************************)
(* Proofs about AccountAccess, for any number of concurrent requests,      *)
(* links, sessions and password changes, and for every life and cool-down. *)
(*                                                                         *)
(* AccessIsWarranted is not inductive: that a link works once rests on the *)
(* row lock a verification holds while it waits for the account, and that  *)
(* a session has one successor on the mark its rotation leaves.  AccessInv *)
(* adds both.                                                              *)
(*                                                                         *)
(* And about Throttle, for any addresses, subjects, limits and window: the *)
(* bound on every interval rests on what the open window's counter says of *)
(* the requests since it opened (ThrottleInv).                             *)
(***************************************************************************)
EXTENDS AccountAccess, Throttle, FiniteSetTheorems, SequenceTheorems, TLAPS

\* A request refers to a row that exists.
AskingRefers ==
    \A r \in AuthSlots :
        /\ asking[r].op \in {"rotate", "logout"} => asking[r].of \in DOMAIN logins
        /\ asking[r].op \in {"reset", "verify"} => asking[r].of \in DOMAIN links

\* A verification that has locked its link finds it as it was, and alone.
LinksHeld ==
    /\ \A r \in AuthSlots : asking[r].op = "verify" =>
          /\ links[asking[r].of].purpose = "verify_email"
          /\ ~links[asking[r].of].consumed
    /\ \A q, r \in AuthSlots :
          asking[q].op = "verify" /\ asking[r].op = "verify" /\ asking[q].of = asking[r].of
          => q = r

\* What has taken effect bears the mark of it.
EffectsMarked ==
    /\ \A i \in DOMAIN links : links[i].used = 0 \/ (links[i].used = 1 /\ links[i].consumed)
    /\ \A i \in DOMAIN logins : logins[i].heirs = 0 \/ (logins[i].heirs = 1 /\ logins[i].revoked)

\* Nothing is mailed before the account exists.
NoLinkBeforeAccount == account.known \/ links = <<>>

AccessInv ==
    /\ AccessTypeOK /\ AskingRefers /\ LinksHeld /\ EffectsMarked /\ NoLinkBeforeAccount
    /\ SessionsFollowPassword /\ StoppedAccountsHaveNoSession /\ OneCurrentLink

\* The invariant gives what the runs check.
LEMMA AccessInvImplies == AccessInv => AccessIsWarranted
  BY DEF AccessInv, AccessIsWarranted, EffectsMarked, RotationIsLinear, LinksWorkOnce

-----------------------------------------------------------------------------
(* Sequences of rows                                                       *)

\* A table updated row by row has the same rows, in number and place.
LEMMA Updated ==
    ASSUME NEW S, NEW s \in Seq(S), NEW f \in [DOMAIN s -> S]
    PROVE  f \in Seq(S) /\ DOMAIN f = DOMAIN s /\ Len(f) = Len(s)
  <1>1. DOMAIN s = 1..Len(s) /\ Len(s) \in Nat
    OBVIOUS
  <1>2. f \in Seq(S)
    BY <1>1, SeqDef
  <1> QED BY <1>1, <1>2

\* Consuming links keeps the table and every link outside the set.
LEMMA Consumed ==
    ASSUME NEW rows \in Seq(LinkRows), NEW open
    PROVE  /\ ConsumeLinks(rows, open) \in Seq(LinkRows)
           /\ DOMAIN ConsumeLinks(rows, open) = DOMAIN rows
           /\ Len(ConsumeLinks(rows, open)) = Len(rows)
           /\ \A i \in DOMAIN rows : ConsumeLinks(rows, open)[i] =
                 IF i \in open THEN [rows[i] EXCEPT !.consumed = TRUE] ELSE rows[i]
  <1>1. \A i \in DOMAIN rows : rows[i] \in LinkRows
    OBVIOUS
  <1>2. ConsumeLinks(rows, open) \in [DOMAIN rows -> LinkRows]
    BY <1>1 DEF ConsumeLinks, LinkRows
  <1> QED BY <1>2, Updated DEF ConsumeLinks

\* Ending every session keeps the table.
LEMMA AllRevoked ==
    ASSUME NEW rows \in Seq(LoginRows)
    PROVE  /\ RevokeAll(rows) \in Seq(LoginRows)
           /\ DOMAIN RevokeAll(rows) = DOMAIN rows
           /\ Len(RevokeAll(rows)) = Len(rows)
           /\ \A i \in DOMAIN rows : RevokeAll(rows)[i] = [rows[i] EXCEPT !.revoked = TRUE]
  <1>1. \A i \in DOMAIN rows : rows[i] \in LoginRows
    OBVIOUS
  <1>2. RevokeAll(rows) \in [DOMAIN rows -> LoginRows]
    BY <1>1 DEF RevokeAll, LoginRows
  <1> QED BY <1>2, Updated DEF RevokeAll

-----------------------------------------------------------------------------
(* Steps that only change what a request remembers, or nothing             *)

\* The bounds and lives are numbers.
LEMMA AccessNumbers ==
    /\ MaxLinks \in Nat /\ MaxLogins \in Nat /\ MaxPasswords \in Nat /\ AuthEnd \in Nat
    /\ VerifyLife \in Nat /\ ResetLife \in Nat /\ SessionLife \in Nat
  BY AccessAssumption

\* The empty database satisfies the invariant.
LEMMA AccessInitInv == AccessInit => AccessInv
  <1> SUFFICES ASSUME AccessInit PROVE AccessInv
    OBVIOUS
  <1> USE AccessAssumption DEF AccessInit, NotAsking
  <1>1. AccessTypeOK
    BY DEF AccessTypeOK, Instants, AccountRows, Passwords, Askings
  <1>2. AskingRefers /\ LinksHeld /\ EffectsMarked /\ NoLinkBeforeAccount
    BY DEF AskingRefers, LinksHeld, EffectsMarked, NoLinkBeforeAccount
  <1>3. SessionsFollowPassword /\ StoppedAccountsHaveNoSession /\ OneCurrentLink
    BY DEF SessionsFollowPassword, StoppedAccountsHaveNoSession, OneCurrentLink
  <1> QED BY <1>1, <1>2, <1>3 DEF AccessInv

\* A request that ends leaves the tables to the others.
LEMMA RequestEnds ==
    ASSUME AccessInv, NEW r \in AuthSlots,
           asking' = [asking EXCEPT ![r] = NotAsking],
           UNCHANGED <<clockNow, account, links, logins>>
    PROVE  AccessInv'
  <1> USE DEF AccessInv
  <1>1. AccessTypeOK'
    BY DEF AccessTypeOK, Askings, NotAsking
  <1>2. AskingRefers' /\ LinksHeld'
    BY DEF AskingRefers, LinksHeld, AccessTypeOK, NotAsking
  <1>3. EffectsMarked' /\ NoLinkBeforeAccount' /\ SessionsFollowPassword'
        /\ StoppedAccountsHaveNoSession' /\ OneCurrentLink'
    BY DEF EffectsMarked, NoLinkBeforeAccount, SessionsFollowPassword,
           StoppedAccountsHaveNoSession, OneCurrentLink
  <1> QED BY <1>1, <1>2, <1>3

\* A link is locked by one verification at a time.
LEMMA LockLinkInv ==
    ASSUME AccessInv, NEW r \in AuthSlots, LockLink(r) PROVE AccessInv'
  <1> USE DEF AccessInv
  <1>1. PICK i \in DOMAIN links \ HeldLinks :
            Usable(i, "verify_email")
            /\ asking' = [asking EXCEPT ![r] = [op |-> "verify", of |-> i]]
    BY DEF LockLink
  <1>2. UNCHANGED <<clockNow, account, links, logins>> /\ i \in Nat
    BY DEF LockLink, AccessTypeOK
  <1>3. AccessTypeOK'
    BY <1>1, <1>2 DEF AccessTypeOK, Askings
  <1>4. AskingRefers'
    BY <1>1, <1>2 DEF AskingRefers, AccessTypeOK
  <1>5. \A q \in AuthSlots : asking[q].op = "verify" => asking[q].of # i
    BY <1>1 DEF HeldLinks
  <1>6. LinksHeld'
    BY <1>1, <1>2, <1>5 DEF LinksHeld, Usable, AccessTypeOK
  <1>7. EffectsMarked' /\ NoLinkBeforeAccount' /\ SessionsFollowPassword'
        /\ StoppedAccountsHaveNoSession' /\ OneCurrentLink'
    BY <1>2 DEF EffectsMarked, NoLinkBeforeAccount, SessionsFollowPassword,
           StoppedAccountsHaveNoSession, OneCurrentLink
  <1> QED BY <1>3, <1>4, <1>6, <1>7

\* A request remembers the row it has read without a lock.
LEMMA RequestReads ==
    ASSUME AccessInv, NEW r \in AuthSlots, NEW op \in {"rotate", "logout", "reset"}, NEW i,
           op = "reset" => i \in DOMAIN links,
           op # "reset" => i \in DOMAIN logins,
           asking' = [asking EXCEPT ![r] = [op |-> op, of |-> i]],
           UNCHANGED <<clockNow, account, links, logins>>
    PROVE  AccessInv'
  <1> USE DEF AccessInv
  <1>1. i \in Nat
    BY DEF AccessTypeOK
  <1>2. AccessTypeOK'
    BY <1>1 DEF AccessTypeOK, Askings
  <1>3. AskingRefers' /\ LinksHeld'
    BY DEF AskingRefers, LinksHeld, AccessTypeOK
  <1>4. EffectsMarked' /\ NoLinkBeforeAccount' /\ SessionsFollowPassword'
        /\ StoppedAccountsHaveNoSession' /\ OneCurrentLink'
    BY DEF EffectsMarked, NoLinkBeforeAccount, SessionsFollowPassword,
           StoppedAccountsHaveNoSession, OneCurrentLink
  <1> QED BY <1>2, <1>3, <1>4

-----------------------------------------------------------------------------
(* Links                                                                   *)

\* The first link comes with the account.
LEMMA RegisterInv ==
    ASSUME AccessInv, Register PROVE AccessInv'
  <1> USE DEF AccessInv
  <1> DEFINE row == [purpose |-> "verify_email", created |-> clockNow,
                     expires |-> clockNow + VerifyLife, consumed |-> FALSE, used |-> 0]
  <1>1. /\ links = <<>> /\ links' = Append(links, row) /\ Len(links) < MaxLinks
        /\ account' = [account EXCEPT !.known = TRUE]
        /\ UNCHANGED <<clockNow, logins, asking>>
    BY DEF Register, CreateRegistration, CreateLink, NoLinkBeforeAccount
  <1>2. row \in LinkRows
    BY AccessAssumption DEF AccessTypeOK, LinkRows, Purposes, Instants
  <1>3. links' \in Seq(LinkRows) /\ Len(links') = 1 /\ links'[1] = row
    BY <1>1, <1>2
  <1>4. AccessTypeOK'
    <2>1. account' \in AccountRows
      BY <1>1 DEF AccessTypeOK, AccountRows
    <2>2. Len(links') <= MaxLinks
      BY <1>1, <1>3, AccessNumbers
    <2> QED BY <1>1, <1>3, <2>1, <2>2 DEF AccessTypeOK
  <1>5. AskingRefers' /\ LinksHeld'
    BY <1>1 DEF AskingRefers, LinksHeld
  <1>6. EffectsMarked' /\ NoLinkBeforeAccount' /\ OneCurrentLink'
    BY <1>1, <1>3 DEF EffectsMarked, NoLinkBeforeAccount, OneCurrentLink, AccessTypeOK, AccountRows
  <1>7. SessionsFollowPassword' /\ StoppedAccountsHaveNoSession'
    BY <1>1 DEF SessionsFollowPassword, StoppedAccountsHaveNoSession, AccessTypeOK, AccountRows
  <1> QED BY <1>4, <1>5, <1>6, <1>7

\* A new link replaces every outstanding one of its purpose, none of which a
\* verification holds.
LEMMA IssueLinkInv ==
    ASSUME AccessInv, NEW purpose \in Purposes, NEW life \in Nat,
           IssueLink(purpose, life)
    PROVE  AccessInv'
  <1> USE DEF AccessInv
  <1> DEFINE open == Outstanding(purpose)
             old == ConsumeLinks(links, open)
             row == [purpose |-> purpose, created |-> clockNow,
                     expires |-> clockNow + life, consumed |-> FALSE, used |-> 0]
  <1>1. /\ account.known /\ Len(links) < MaxLinks /\ open \cap HeldLinks = {}
        /\ links' = Append(old, row)
        /\ UNCHANGED <<clockNow, account, logins, asking>>
    BY DEF IssueLink, CreateLink
  <1>2. row \in LinkRows
    BY DEF AccessTypeOK, LinkRows, Instants
  <1>3. /\ old \in Seq(LinkRows) /\ DOMAIN old = DOMAIN links /\ Len(old) = Len(links)
        /\ \A i \in DOMAIN links : old[i] =
              IF i \in open THEN [links[i] EXCEPT !.consumed = TRUE] ELSE links[i]
    BY Consumed DEF AccessTypeOK
  <1> HIDE DEF open, old, row
  <1>4. /\ links' \in Seq(LinkRows) /\ Len(links') = Len(links) + 1
        /\ \A i \in DOMAIN links : links'[i] = old[i]
        /\ links'[Len(links) + 1] = row
        /\ DOMAIN links' = DOMAIN links \cup {Len(links) + 1}
    BY <1>1, <1>2, <1>3
  <1>5. \A i \in DOMAIN links : links[i] \in LinkRows
    BY DEF AccessTypeOK
  <1>6. \A i \in DOMAIN links :
            /\ links'[i].purpose = links[i].purpose /\ links'[i].used = links[i].used
            /\ links'[i].consumed = (links[i].consumed \/ i \in open)
    BY <1>3, <1>4, <1>5 DEF LinkRows
  <1>7. AccessTypeOK'
    BY <1>1, <1>4, AccessNumbers DEF AccessTypeOK
  <1>8. AskingRefers'
    BY <1>1, <1>4 DEF AskingRefers
  <1>9. \A r \in AuthSlots : asking[r].op = "verify" => asking[r].of \notin open
    BY <1>1 DEF HeldLinks
  <1>10. LinksHeld'
    BY <1>1, <1>6, <1>9 DEF LinksHeld, AskingRefers
  <1>11. EffectsMarked'
    <2>1. links'[Len(links) + 1].used = 0
      BY <1>4 DEF row
    <2>2. \A i \in DOMAIN links :
              links'[i].used = 0 \/ (links'[i].used = 1 /\ links'[i].consumed)
      BY <1>6 DEF EffectsMarked
    <2>3. \A i \in DOMAIN links' :
              links'[i].used = 0 \/ (links'[i].used = 1 /\ links'[i].consumed)
      BY <1>4, <2>1, <2>2
    <2> QED BY <1>1, <2>3 DEF EffectsMarked
  <1>12. OneCurrentLink'
    <2>1. \A i \in DOMAIN links :
              ~links'[i].consumed => ~links[i].consumed /\ links'[i].purpose # purpose
      BY <1>6 DEF open, Outstanding
    <2>2. links'[Len(links) + 1].purpose = purpose
      BY <1>4 DEF row
    <2> QED BY <1>4, <1>6, <2>1, <2>2 DEF OneCurrentLink
  <1>13. NoLinkBeforeAccount' /\ SessionsFollowPassword' /\ StoppedAccountsHaveNoSession'
    BY <1>1 DEF NoLinkBeforeAccount, SessionsFollowPassword, StoppedAccountsHaveNoSession
  <1> QED BY <1>7, <1>8, <1>10, <1>11, <1>12, <1>13

\* A row updated in one field at a time keeps its type.
LEMMA LinkRowTaken ==
    ASSUME NEW row \in LinkRows
    PROVE  /\ [row EXCEPT !.consumed = TRUE, !.used = 1] \in LinkRows
           /\ [row EXCEPT !.consumed = TRUE, !.used = 1].consumed
           /\ [row EXCEPT !.consumed = TRUE, !.used = 1].used = 1
           /\ [row EXCEPT !.consumed = TRUE, !.used = 1].purpose = row.purpose
  <1> DEFINE half == [row EXCEPT !.consumed = TRUE]
  <1>1. half \in LinkRows /\ half.consumed /\ half.purpose = row.purpose
    BY DEF LinkRows
  <1> HIDE DEF half
  <1>2. /\ [half EXCEPT !.used = 1] \in LinkRows
        /\ [half EXCEPT !.used = 1].consumed /\ [half EXCEPT !.used = 1].used = 1
        /\ [half EXCEPT !.used = 1].purpose = row.purpose
    BY <1>1 DEF LinkRows
  <1> QED BY <1>2 DEF half

\* Showing an unconsumed link consumes it and counts.
LEMMA Taken ==
    ASSUME NEW rows \in Seq(LinkRows), NEW i \in DOMAIN rows, rows[i].used = 0
    PROVE  /\ Take(rows, i) \in Seq(LinkRows)
           /\ DOMAIN Take(rows, i) = DOMAIN rows /\ Len(Take(rows, i)) = Len(rows)
           /\ \A j \in DOMAIN rows : j # i => Take(rows, i)[j] = rows[j]
           /\ Take(rows, i)[i].consumed /\ Take(rows, i)[i].used = 1
           /\ Take(rows, i)[i].purpose = rows[i].purpose
  <1> DEFINE row == [rows[i] EXCEPT !.consumed = TRUE, !.used = 1]
  <1>1. rows[i] \in LinkRows /\ \A j \in DOMAIN rows : rows[j] \in LinkRows
    OBVIOUS
  <1>2. /\ row \in LinkRows /\ row.consumed /\ row.used = 1
        /\ row.purpose = rows[i].purpose
    BY <1>1, LinkRowTaken
  <1>3. Take(rows, i)[i] = row
    BY <1>1 DEF Take, LinkRows
  <1>4. /\ DOMAIN Take(rows, i) = DOMAIN rows
        /\ \A j \in DOMAIN rows : j # i => Take(rows, i)[j] = rows[j]
    BY DEF Take
  <1> HIDE DEF row
  <1>5. Take(rows, i) \in [DOMAIN rows -> LinkRows]
    <2>1. Take(rows, i) = [j \in DOMAIN rows |-> Take(rows, i)[j]]
      BY DEF Take
    <2>2. \A j \in DOMAIN rows : Take(rows, i)[j] \in LinkRows
      BY <1>1, <1>2, <1>3, <1>4
    <2> QED BY <2>1, <2>2
  <1>6. Take(rows, i) \in Seq(LinkRows) /\ Len(Take(rows, i)) = Len(rows)
    BY <1>5, Updated
  <1> QED BY <1>2, <1>3, <1>4, <1>6

\* The verified link was the locked one: it takes effect for the first time.
LEMMA VerifyEmailInv ==
    ASSUME AccessInv, NEW r \in AuthSlots, VerifyEmail(r) PROVE AccessInv'
  <1> USE DEF AccessInv
  <1> DEFINE i == asking[r].of
  <1>1. /\ asking[r].op = "verify" /\ links' = Take(links, i)
        /\ account' = [account EXCEPT !.verified = TRUE]
        /\ asking' = [asking EXCEPT ![r] = NotAsking]
        /\ UNCHANGED <<clockNow, logins>>
    BY DEF VerifyEmail
  <1>2. /\ i \in DOMAIN links /\ links[i].used = 0
        /\ links[i].purpose = "verify_email" /\ links[i] \in LinkRows
    BY <1>1 DEF AskingRefers, LinksHeld, EffectsMarked, AccessTypeOK
  <1> HIDE DEF i
  <1>3. /\ links' \in Seq(LinkRows) /\ DOMAIN links' = DOMAIN links /\ Len(links') = Len(links)
        /\ \A j \in DOMAIN links : j # i => links'[j] = links[j]
        /\ links'[i].consumed /\ links'[i].used = 1 /\ links'[i].purpose = links[i].purpose
    <2>1. links \in Seq(LinkRows)
      BY DEF AccessTypeOK
    <2> QED BY <1>1, <1>2, <2>1, Taken
  <1>5. AccessTypeOK'
    BY <1>1, <1>3 DEF AccessTypeOK, AccountRows, Askings, NotAsking
  <1>6. AskingRefers'
    BY <1>1, <1>3 DEF AskingRefers, AccessTypeOK, NotAsking
  <1>7. LinksHeld'
    <2>1. \A q \in AuthSlots : asking'[q].op = "verify" => q # r /\ asking'[q] = asking[q]
      BY <1>1 DEF NotAsking, AccessTypeOK
    <2>2. \A q \in AuthSlots : asking'[q].op = "verify" => asking'[q].of # i
      BY <1>1, <2>1 DEF LinksHeld, i
    <2> QED BY <1>3, <2>1, <2>2 DEF LinksHeld, AskingRefers
  <1>8. EffectsMarked'
    BY <1>1, <1>2, <1>3 DEF EffectsMarked
  <1>4. OneCurrentLink'
    BY <1>2, <1>3 DEF OneCurrentLink
  <1>9. NoLinkBeforeAccount'
    BY <1>1, <1>2 DEF NoLinkBeforeAccount, AccessTypeOK, AccountRows
  <1>10. SessionsFollowPassword' /\ StoppedAccountsHaveNoSession'
    BY <1>1 DEF SessionsFollowPassword, StoppedAccountsHaveNoSession, AccessTypeOK, AccountRows
  <1> QED BY <1>4, <1>5, <1>6, <1>7, <1>8, <1>9, <1>10

\* Recovery consumes every outstanding link of its purpose with the one shown,
\* none of which a verification holds, and ends every session.
LEMMA ResetPasswordInv ==
    ASSUME AccessInv, NEW r \in AuthSlots, ResetPassword(r) PROVE AccessInv'
  <1> USE DEF AccessInv
  <1> DEFINE i == asking[r].of
             open == Outstanding("password_reset")
             old == ConsumeLinks(links, open)
  <1>1. asking' = [asking EXCEPT ![r] = NotAsking] /\ UNCHANGED clockNow
    BY DEF ResetPassword
  <1>2. CASE ~ResetStillValid(i)
    BY <1>1, <1>2, RequestEnds DEF ResetPassword
  <1>3. CASE ResetStillValid(i)
    <2>1. /\ i \in open /\ account.password < MaxPasswords
          /\ links' = Take(old, i) /\ logins' = RevokeAll(logins)
          /\ account' = [account EXCEPT !.password = @ + 1]
      BY <1>3 DEF ResetPassword, ResetStillValid
    <2>2. /\ i \in DOMAIN links /\ links[i].purpose = "password_reset" /\ ~links[i].consumed
          /\ links \in Seq(LinkRows) /\ links[i] \in LinkRows /\ links[i].used = 0
      BY <2>1 DEF Outstanding, AccessTypeOK, EffectsMarked
    <2>3. /\ old \in Seq(LinkRows) /\ DOMAIN old = DOMAIN links /\ Len(old) = Len(links)
          /\ \A j \in DOMAIN links : old[j] =
                IF j \in open THEN [links[j] EXCEPT !.consumed = TRUE] ELSE links[j]
      BY <2>2, Consumed
    <2> HIDE DEF i, open, old
    <2>4. \A j \in DOMAIN links :
              /\ old[j].purpose = links[j].purpose /\ old[j].used = links[j].used
              /\ old[j].consumed = (links[j].consumed \/ j \in open)
      <3>1. \A j \in DOMAIN links : links[j] \in LinkRows
        BY <2>2
      <3> QED BY <2>3, <3>1 DEF LinkRows
    <2>5. /\ links' \in Seq(LinkRows) /\ DOMAIN links' = DOMAIN links /\ Len(links') = Len(links)
          /\ \A j \in DOMAIN links : j # i => links'[j] = old[j]
          /\ links'[i].consumed /\ links'[i].used = 1 /\ links'[i].purpose = links[i].purpose
      <3>1. i \in DOMAIN old /\ old[i].used = 0 /\ old[i].purpose = links[i].purpose
        BY <2>2, <2>3, <2>4
      <3> QED BY <2>1, <2>3, <3>1, Taken
    <2>6. /\ logins' \in Seq(LoginRows) /\ DOMAIN logins' = DOMAIN logins /\ Len(logins') = Len(logins)
          /\ \A j \in DOMAIN logins : logins'[j].revoked /\ logins'[j].heirs = logins[j].heirs
      <3>1. logins \in Seq(LoginRows) /\ \A j \in DOMAIN logins : logins[j] \in LoginRows
        BY DEF AccessTypeOK
      <3>2. \A j \in DOMAIN logins :
                /\ [logins[j] EXCEPT !.revoked = TRUE].revoked
                /\ [logins[j] EXCEPT !.revoked = TRUE].heirs = logins[j].heirs
        BY <3>1 DEF LoginRows
      <3>3. /\ logins' \in Seq(LoginRows) /\ DOMAIN logins' = DOMAIN logins
            /\ Len(logins') = Len(logins)
            /\ \A j \in DOMAIN logins : logins'[j] = [logins[j] EXCEPT !.revoked = TRUE]
        BY <2>1, <3>1, AllRevoked
      <3> QED BY <3>2, <3>3
    <2>7. AccessTypeOK'
      <3>1. account' \in AccountRows
        BY <2>1, AccessNumbers DEF AccessTypeOK, AccountRows, Passwords
      <3> QED BY <1>1, <2>5, <2>6, <3>1 DEF AccessTypeOK, Askings, NotAsking
    <2>8. AskingRefers'
      BY <1>1, <2>5, <2>6 DEF AskingRefers, AccessTypeOK, NotAsking
    <2>9. LinksHeld'
      <3>1. \A q \in AuthSlots : asking'[q].op = "verify" => q # r /\ asking'[q] = asking[q]
        BY <1>1 DEF NotAsking, AccessTypeOK
      <3>2. \A q \in AuthSlots : asking'[q].op = "verify" =>
                asking'[q].of \in DOMAIN links /\ asking'[q].of # i /\ asking'[q].of \notin open
        BY <2>2, <3>1 DEF LinksHeld, AskingRefers, open, Outstanding
      <3>3. \A q \in AuthSlots : asking'[q].op = "verify" =>
                links'[asking'[q].of] = links[asking[q].of]
        BY <2>3, <2>5, <3>1, <3>2
      <3> QED BY <3>1, <3>3 DEF LinksHeld
    <2>10. EffectsMarked'
      <3>1. \A j \in DOMAIN links :
                links'[j].used = 0 \/ (links'[j].used = 1 /\ links'[j].consumed)
        BY <2>4, <2>5 DEF EffectsMarked
      <3>2. \A j \in DOMAIN logins :
                logins'[j].heirs = 0 \/ (logins'[j].heirs = 1 /\ logins'[j].revoked)
        BY <2>6 DEF EffectsMarked
      <3> QED BY <2>5, <2>6, <3>1, <3>2 DEF EffectsMarked
    <2>11. OneCurrentLink'
      <3>1. \A j \in DOMAIN links : links'[j].purpose = links[j].purpose
                                    /\ (~links'[j].consumed => ~links[j].consumed)
        BY <2>4, <2>5
      <3> QED BY <2>5, <3>1 DEF OneCurrentLink
    <2>12. SessionsFollowPassword' /\ StoppedAccountsHaveNoSession'
      BY <2>6 DEF SessionsFollowPassword, StoppedAccountsHaveNoSession
    <2>13. NoLinkBeforeAccount'
      BY <2>1, <2>2 DEF NoLinkBeforeAccount, AccessTypeOK, AccountRows
    <2> QED BY <2>7, <2>8, <2>9, <2>10, <2>11, <2>12, <2>13
  <1> QED BY <1>2, <1>3

-----------------------------------------------------------------------------
(* Sessions                                                                *)

\* A session is issued to the password of this moment.
LEMMA LoginInv ==
    ASSUME AccessInv, Login PROVE AccessInv'
  <1> USE DEF AccessInv
  <1> DEFINE row == NewSession(account.password)
  <1>1. /\ ~account.suspended /\ ~account.deleted /\ Len(logins) < MaxLogins
        /\ logins' = Append(logins, row)
        /\ UNCHANGED <<clockNow, account, links, asking>>
    BY DEF Login, MayLogIn
  <1>2. row \in LoginRows /\ ~row.revoked /\ row.proof = account.password /\ row.heirs = 0
    BY AccessNumbers DEF NewSession, LoginRows, AccessTypeOK, AccountRows, Instants
  <1> HIDE DEF row
  <1>3. /\ logins' \in Seq(LoginRows) /\ Len(logins') = Len(logins) + 1
        /\ \A i \in DOMAIN logins : logins'[i] = logins[i]
        /\ logins'[Len(logins) + 1] = row
        /\ DOMAIN logins' = DOMAIN logins \cup {Len(logins) + 1}
    BY <1>1, <1>2 DEF AccessTypeOK
  <1>4. AccessTypeOK'
    BY <1>1, <1>3, AccessNumbers DEF AccessTypeOK
  <1>5. AskingRefers' /\ LinksHeld' /\ NoLinkBeforeAccount' /\ OneCurrentLink'
    BY <1>1, <1>3 DEF AskingRefers, LinksHeld, NoLinkBeforeAccount, OneCurrentLink
  <1>6. EffectsMarked'
    BY <1>1, <1>2, <1>3 DEF EffectsMarked
  <1>7. SessionsFollowPassword' /\ StoppedAccountsHaveNoSession'
    BY <1>1, <1>2, <1>3 DEF SessionsFollowPassword, StoppedAccountsHaveNoSession
  <1> QED BY <1>4, <1>5, <1>6, <1>7

\* A session that ends, with or without a successor counted, keeps its type.
LEMMA LoginRowEnds ==
    ASSUME NEW row \in LoginRows, NEW n \in 0..2
    PROVE  /\ [row EXCEPT !.revoked = TRUE] \in LoginRows
           /\ [row EXCEPT !.revoked = TRUE].heirs = row.heirs
           /\ [row EXCEPT !.revoked = TRUE].revoked
           /\ [row EXCEPT !.revoked = TRUE, !.heirs = n] \in LoginRows
           /\ [row EXCEPT !.revoked = TRUE, !.heirs = n].heirs = n
           /\ [row EXCEPT !.revoked = TRUE, !.heirs = n].revoked
  <1> DEFINE half == [row EXCEPT !.revoked = TRUE]
  <1>1. half \in LoginRows /\ half.heirs = row.heirs /\ half.revoked
    BY DEF LoginRows
  <1>2. /\ [half EXCEPT !.heirs = n] \in LoginRows
        /\ [half EXCEPT !.heirs = n].heirs = n /\ [half EXCEPT !.heirs = n].revoked
    <2> HIDE DEF half
    <2> QED BY <1>1 DEF LoginRows
  <1> QED BY <1>1, <1>2

\* The locked session ends and its successor inherits the proof it was issued to.
LEMMA RotateSessionInv ==
    ASSUME AccessInv, NEW r \in AuthSlots, RotateSession(r) PROVE AccessInv'
  <1> USE DEF AccessInv
  <1> DEFINE i == asking[r].of
             row == NewSession(logins[i].proof)
             old == [logins EXCEPT ![i].revoked = TRUE, ![i].heirs = @ + 1]
             heir == [logins[i] EXCEPT !.revoked = TRUE, !.heirs = 1]
  <1>1. /\ asking' = [asking EXCEPT ![r] = NotAsking] /\ UNCHANGED <<clockNow, account, links>>
        /\ asking[r].op = "rotate"
    BY DEF RotateSession
  <1>2. CASE ~StillCurrent(i)
    BY <1>1, <1>2, RequestEnds DEF RotateSession
  <1>3. CASE StillCurrent(i)
    <2>1. /\ ~account.suspended /\ ~account.deleted /\ ~logins[i].revoked
          /\ Len(logins) < MaxLogins /\ logins' = Append(old, row)
      BY <1>3 DEF RotateSession, SessionRotated, StillCurrent
    <2>2. /\ i \in DOMAIN logins /\ logins \in Seq(LoginRows) /\ logins[i] \in LoginRows
          /\ logins[i].heirs = 0 /\ logins[i].proof = account.password
      BY <1>1, <2>1 DEF AskingRefers, AccessTypeOK, EffectsMarked, SessionsFollowPassword
    <2>3. row \in LoginRows /\ ~row.revoked /\ row.proof = account.password /\ row.heirs = 0
      BY <2>2, AccessNumbers DEF NewSession, LoginRows, AccessTypeOK, Instants
    <2>4. heir \in LoginRows /\ heir.revoked /\ heir.heirs = 1
      <3>1. 1 \in 0..2
        OBVIOUS
      <3> QED BY ONLY <2>2, <3>1, LoginRowEnds, Zenon
    <2>5. old[i] = heir /\ DOMAIN old = DOMAIN logins
          /\ \A j \in DOMAIN logins : j # i => old[j] = logins[j]
      BY <2>2 DEF LoginRows
    <2>6. old \in [DOMAIN logins -> LoginRows]
      <3>1. old = [j \in DOMAIN logins |-> old[j]]
        OBVIOUS
      <3> HIDE DEF old, heir, i
      <3>2. \A j \in DOMAIN logins : old[j] \in LoginRows
        BY <2>2, <2>4, <2>5
      <3> QED BY <3>1, <3>2
    <2> HIDE DEF i, row, old, heir
    <2>7. old \in Seq(LoginRows) /\ Len(old) = Len(logins)
      BY <2>2, <2>6, Updated
    <2>8. /\ logins' \in Seq(LoginRows) /\ Len(logins') = Len(logins) + 1
          /\ \A j \in DOMAIN logins : logins'[j] = old[j]
          /\ logins'[Len(logins) + 1] = row
          /\ DOMAIN logins' = DOMAIN logins \cup {Len(logins) + 1}
      BY <2>1, <2>3, <2>5, <2>7
    <2>9. AccessTypeOK'
      BY <1>1, <2>1, <2>8, AccessNumbers DEF AccessTypeOK, Askings, NotAsking
    <2>10. AskingRefers' /\ LinksHeld'
      BY <1>1, <2>8 DEF AskingRefers, LinksHeld, AccessTypeOK, NotAsking
    <2>11. EffectsMarked'
      BY <1>1, <2>3, <2>4, <2>5, <2>8 DEF EffectsMarked
    <2>12. SessionsFollowPassword'
      BY <1>1, <2>3, <2>4, <2>5, <2>8 DEF SessionsFollowPassword
    <2>13. StoppedAccountsHaveNoSession' /\ NoLinkBeforeAccount' /\ OneCurrentLink'
      BY <1>1, <2>1 DEF StoppedAccountsHaveNoSession, NoLinkBeforeAccount, OneCurrentLink
    <2> QED BY <2>9, <2>10, <2>11, <2>12, <2>13
  <1> QED BY <1>2, <1>3

\* Ending sessions, one or all, with the account as it was or newly stopped and
\* links as they were or consumed while no verification holds one.
LEMMA SessionsEnd ==
    ASSUME AccessInv, AccessTypeOK', AskingRefers',
           DOMAIN logins' = DOMAIN logins, DOMAIN links' = DOMAIN links,
           \A j \in DOMAIN logins : logins'[j] = logins[j]
              \/ (logins'[j].revoked /\ logins'[j].heirs = logins[j].heirs),
           account'.password = account.password, account.known => account'.known,
           account'.suspended \/ account'.deleted =>
              account.suspended \/ account.deleted
              \/ \A j \in DOMAIN logins : logins'[j].revoked,
           \A j \in DOMAIN links :
              /\ links'[j].purpose = links[j].purpose /\ links'[j].used = links[j].used
              /\ links[j].consumed => links'[j].consumed,
           \A q \in AuthSlots : asking'[q].op = "verify" =>
              asking'[q] = asking[q] /\ links'[asking[q].of] = links[asking[q].of],
           links = <<>> => links' = <<>>
    PROVE  AccessInv'
  <1> USE DEF AccessInv
  <1>1. LinksHeld'
    BY DEF LinksHeld
  <1>2. EffectsMarked'
    BY DEF EffectsMarked
  <1>3. SessionsFollowPassword'
    BY DEF SessionsFollowPassword
  <1>4. StoppedAccountsHaveNoSession'
    BY DEF StoppedAccountsHaveNoSession
  <1>5. NoLinkBeforeAccount' /\ OneCurrentLink'
    BY DEF NoLinkBeforeAccount, OneCurrentLink
  <1> QED BY <1>1, <1>2, <1>3, <1>4, <1>5

\* Ending every session keeps the table, whatever else the step does.
LEMMA EverySessionEnds ==
    ASSUME AccessInv, logins' = RevokeAll(logins)
    PROVE  /\ logins' \in Seq(LoginRows) /\ Len(logins') <= MaxLogins
           /\ DOMAIN logins' = DOMAIN logins
           /\ \A j \in DOMAIN logins : logins'[j].revoked /\ logins'[j].heirs = logins[j].heirs
  <1>1. /\ logins \in Seq(LoginRows) /\ Len(logins) <= MaxLogins
        /\ \A j \in DOMAIN logins : logins[j] \in LoginRows
    BY DEF AccessInv, AccessTypeOK
  <1>2. /\ logins' \in Seq(LoginRows) /\ Len(logins') = Len(logins)
        /\ DOMAIN logins' = DOMAIN logins
        /\ \A j \in DOMAIN logins : logins'[j] = [logins[j] EXCEPT !.revoked = TRUE]
    BY <1>1, AllRevoked
  <1>3. \A j \in DOMAIN logins : logins'[j].revoked /\ logins'[j].heirs = logins[j].heirs
    BY <1>1, <1>2 DEF LoginRows
  <1> QED BY <1>1, <1>2, <1>3

\* Signing out ends the one session.
LEMMA LogoutInv ==
    ASSUME AccessInv, NEW r \in AuthSlots, Logout(r) PROVE AccessInv'
  <1> DEFINE i == asking[r].of
             old == [logins EXCEPT ![i].revoked = TRUE]
  <1>1. /\ asking[r].op = "logout" /\ logins' = old
        /\ asking' = [asking EXCEPT ![r] = NotAsking]
        /\ UNCHANGED <<clockNow, account, links>>
    BY DEF Logout
  <1>2. /\ i \in DOMAIN logins /\ logins \in Seq(LoginRows) /\ logins[i] \in LoginRows
        /\ \A j \in DOMAIN logins : logins[j] \in LoginRows
    BY <1>1 DEF AccessInv, AskingRefers, AccessTypeOK
  <1>3. old \in [DOMAIN logins -> LoginRows]
    BY <1>2 DEF LoginRows
  <1>4. old \in Seq(LoginRows) /\ DOMAIN old = DOMAIN logins /\ Len(old) = Len(logins)
    BY <1>2, <1>3, Updated
  <1>5. \A j \in DOMAIN logins : old[j] = logins[j]
            \/ (old[j].revoked /\ old[j].heirs = logins[j].heirs)
    BY <1>2 DEF LoginRows
  <1> HIDE DEF old
  <1>6. AccessTypeOK' /\ AskingRefers'
    BY <1>1, <1>4 DEF AccessInv, AccessTypeOK, AskingRefers, Askings, NotAsking
  <1>7. \A q \in AuthSlots : asking'[q].op = "verify" => asking'[q] = asking[q]
    BY <1>1 DEF AccessInv, AccessTypeOK, NotAsking
  <1> QED BY <1>1, <1>4, <1>5, <1>6, <1>7, SessionsEnd

\* Suspension ends every session; lifting it brings none back.
LEMMA SetSuspendedInv ==
    ASSUME AccessInv, NEW suspended \in BOOLEAN, SetSuspended(suspended) PROVE AccessInv'
  <1>1. /\ account.known /\ ~account.deleted
        /\ account' = [account EXCEPT !.suspended = suspended]
        /\ UNCHANGED <<clockNow, links, asking>>
        /\ logins' = IF suspended THEN RevokeAll(logins) ELSE logins
    BY DEF SetSuspended
  <1>2. /\ account' \in AccountRows /\ account'.suspended = suspended
        /\ account'.password = account.password
        /\ account'.known /\ ~account'.deleted
    BY <1>1 DEF AccessInv, AccessTypeOK, AccountRows
  <1>3. CASE suspended
    <2>1. logins' = RevokeAll(logins)
      BY <1>1, <1>3
    <2>2. AccessTypeOK' /\ AskingRefers'
      BY <1>1, <1>2, <2>1, EverySessionEnds DEF AccessInv, AccessTypeOK, AskingRefers
    <2> QED BY <1>1, <1>2, <2>1, <2>2, EverySessionEnds, SessionsEnd
  <1>4. CASE ~suspended
    <2>1. logins' = logins
      BY <1>1, <1>4
    <2>2. AccessTypeOK' /\ AskingRefers'
      BY <1>1, <1>2, <2>1 DEF AccessInv, AccessTypeOK, AskingRefers
    <2>3. ~account'.suspended
      BY <1>2, <1>4
    <2> QED BY <1>1, <1>2, <2>1, <2>2, <2>3, SessionsEnd
  <1> QED BY <1>3, <1>4

\* The administrator's revocation ends every session.
LEMMA RevokeSessionsInv ==
    ASSUME AccessInv, RevokeSessions PROVE AccessInv'
  <1>1. logins' = RevokeAll(logins) /\ UNCHANGED <<clockNow, account, links, asking>>
    BY DEF RevokeSessions
  <1>2. AccessTypeOK' /\ AskingRefers'
    BY <1>1, EverySessionEnds DEF AccessInv, AccessTypeOK, AskingRefers
  <1> QED BY <1>1, <1>2, EverySessionEnds, SessionsEnd

\* Deletion ends every session and every link, while no verification holds one.
LEMMA ScheduleDeletionInv ==
    ASSUME AccessInv, ScheduleDeletion PROVE AccessInv'
  <1>1. /\ account.known /\ HeldLinks = {}
        /\ account' = [account EXCEPT !.deleted = TRUE]
        /\ logins' = RevokeAll(logins)
        /\ links' = ConsumeLinks(links, DOMAIN links)
        /\ UNCHANGED <<clockNow, asking>>
    BY DEF ScheduleDeletion
  <1>2. /\ account' \in AccountRows /\ account'.password = account.password /\ account'.known
    BY <1>1 DEF AccessInv, AccessTypeOK, AccountRows
  <1>3. /\ links \in Seq(LinkRows) /\ \A j \in DOMAIN links : links[j] \in LinkRows
    BY DEF AccessInv, AccessTypeOK
  <1>4. /\ links' \in Seq(LinkRows) /\ DOMAIN links' = DOMAIN links /\ Len(links') = Len(links)
        /\ \A j \in DOMAIN links : links'[j] = [links[j] EXCEPT !.consumed = TRUE]
    BY <1>1, <1>3, Consumed
  <1>5. \A j \in DOMAIN links :
            links'[j].purpose = links[j].purpose /\ links'[j].used = links[j].used
            /\ links'[j].consumed
    BY <1>3, <1>4 DEF LinkRows
  <1>6. AccessTypeOK' /\ AskingRefers'
    BY <1>1, <1>2, <1>4, EverySessionEnds DEF AccessInv, AccessTypeOK, AskingRefers
  <1>7. \A q \in AuthSlots : asking'[q].op # "verify"
    BY <1>1 DEF HeldLinks
  <1>8. links = <<>> => links' = <<>>
    BY <1>4
  <1> QED BY <1>1, <1>2, <1>4, <1>5, <1>6, <1>7, <1>8, EverySessionEnds, SessionsEnd

\* Time alone ends and issues nothing.
LEMMA AuthClockTickInv ==
    ASSUME AccessInv, AuthClockTick PROVE AccessInv'
  <1>1. clockNow' \in Instants /\ UNCHANGED <<account, links, logins, asking>>
    BY AccessNumbers DEF AuthClockTick, AccessInv, AccessTypeOK, Instants
  <1>2. AccessTypeOK' /\ AskingRefers'
    BY <1>1 DEF AccessInv, AccessTypeOK, AskingRefers
  <1> QED BY <1>1, <1>2, SessionsEnd

\* Every step of every request keeps the invariant.
LEMMA AccessNextInv == AccessInv /\ [AccessNext]_accessVars => AccessInv'
  <1> SUFFICES ASSUME AccessInv, [AccessNext]_accessVars PROVE AccessInv'
    OBVIOUS
  <1>1. CASE UNCHANGED accessVars
    BY <1>1 DEF accessVars, AccessInv, AccessTypeOK, AskingRefers, LinksHeld, EffectsMarked,
        NoLinkBeforeAccount, SessionsFollowPassword, StoppedAccountsHaveNoSession, OneCurrentLink
  <1>2. CASE Register \/ Login \/ RevokeSessions \/ ScheduleDeletion \/ AuthClockTick
    BY <1>2, RegisterInv, LoginInv, RevokeSessionsInv, ScheduleDeletionInv, AuthClockTickInv
  <1>3. CASE ResendVerification \/ ForgotPassword
    BY <1>3, IssueLinkInv, AccessNumbers DEF ResendVerification, ForgotPassword, Purposes
  <1>4. CASE \E suspended \in BOOLEAN : SetSuspended(suspended)
    BY <1>4, SetSuspendedInv
  <1>5. ASSUME NEW r \in AuthSlots, LockLink(r) \/ VerifyEmail(r) \/ VerificationAborted(r)
        PROVE  AccessInv'
    BY <1>5, LockLinkInv, VerifyEmailInv, RequestEnds DEF VerificationAborted
  <1>6. ASSUME NEW r \in AuthSlots, FindReset(r) \/ ResetPassword(r)
        PROVE  AccessInv'
    BY <1>6, ResetPasswordInv, RequestReads DEF FindReset
  <1>7. ASSUME NEW r \in AuthSlots, NEW op \in {"rotate", "logout"}, Authenticate(r, op)
        PROVE  AccessInv'
    BY <1>7, RequestReads DEF Authenticate
  <1>8. ASSUME NEW r \in AuthSlots, RotateSession(r) \/ Logout(r)
        PROVE  AccessInv'
    BY <1>8, RotateSessionInv, LogoutInv
  <1> QED BY <1>1, <1>2, <1>3, <1>4, <1>5, <1>6, <1>7, <1>8 DEF AccessNext

\* In every interleaving of any number of sign-ins, rotations, sign-outs,
\* verifications, recoveries, suspensions and deletions, every live session rests
\* on the account's present password, a stopped account has none, a rotated token
\* has one successor, a link works once and only the newest of its purpose does.
THEOREM AccessWarranted == AccessSpec => []AccessIsWarranted
  <1>1. AccessInv => AccessIsWarranted
    BY AccessInvImplies
  <1> QED BY <1>1, AccessInitInv, AccessNextInv, PTL DEF AccessSpec

-----------------------------------------------------------------------------
(* The throttle.                                                           *)

\* The requests let through from instant a on.
Since(P, a) == {p \in P : a <= p[1]}

BucketTypes == [started : Nat, count : Nat, updated : Nat]

\* The requests let through are numbered within an instant.
Numbered(P, n) ==
    /\ P \subseteq Nat \X Nat /\ IsFiniteSet(P)
    /\ \A p \in P : p[1] <= n /\ (p[1] = n => p[2] < Cardinality(Between(P, n, n + 1)))

\* While a window is open: nothing was let through after it, and it let through no more
\* than it counted, its first instant included or not; what was let through within a
\* window's length before it left room for one more request.
OpenWindow(P, row, l, n) ==
    /\ row.started <= row.updated /\ row.updated <= n
    /\ \A p \in P : p[1] < row.started + RateWindow
    /\ Cardinality(Since(P, row.started)) <= row.count
    /\ Cardinality(Since(P, row.started)) <= l
    /\ Cardinality(Since(P, row.started + 1)) <= row.count - 1
    /\ Cardinality(Since(P, row.started + 1)) <= l - 1
    /\ \A t \in Nat : t < row.started /\ t + RateWindow > row.started =>
          Cardinality(Between(P, t, row.started)) <= l - 1

\* While none is: what a window that opened now would find before it.
NoWindow(P, l, n) ==
    /\ Since(P, n) = {}
    /\ \A t \in Nat : t + RateWindow > n => Cardinality(Since(P, t)) <= l - 1

\* One counter and what it let through.
CounterOK(P, row, l, n) ==
    /\ Numbered(P, n) /\ row \in BucketTypes
    /\ row.count > 0 => OpenWindow(P, row, l, n)
    /\ row.count = 0 => NoWindow(P, l, n)
    /\ \A t \in Nat : Cardinality(Between(P, t, t + RateWindow)) <= 2 * l - 1

LEMMA ThrottleNumbers ==
    /\ RateWindow \in Nat /\ RateWindow > 0 /\ Retention \in Nat /\ RateWindow <= Retention
    /\ \A k \in RateKeys : LimitOf(k) \in Nat /\ LimitOf(k) > 0
BY ThrottleAssumption DEF LimitOf

\* Parts of a finite set are counted.
LEMMA PartsCount ==
    ASSUME NEW P, IsFiniteSet(P), NEW Q \in SUBSET P
    PROVE  /\ IsFiniteSet(Q) /\ Cardinality(Q) \in Nat
           /\ \A R \in SUBSET Q : Cardinality(R) <= Cardinality(Q)
<1>1. IsFiniteSet(Q)
  BY FS_Subset
<1>2. \A R \in SUBSET Q : Cardinality(R) <= Cardinality(Q)
  BY <1>1, FS_Subset
<1> QED BY <1>1, <1>2, FS_CardinalityType

\* A union counts at most as much as its parts.
LEMMA UnionCount ==
    ASSUME NEW P, IsFiniteSet(P), NEW Q \in SUBSET P, NEW R \in SUBSET P
    PROVE  Cardinality(Q \cup R) <= Cardinality(Q) + Cardinality(R)
<1>1. IsFiniteSet(Q) /\ IsFiniteSet(R)
  BY PartsCount
<1>2. Cardinality(Q \cup R) = Cardinality(Q) + Cardinality(R) - Cardinality(Q \cap R)
  BY <1>1, FS_Union
<1>3. IsFiniteSet(Q \cap R) /\ Cardinality(Q \cap R) \in Nat
  BY PartsCount
<1>4. Cardinality(Q) \in Nat /\ Cardinality(R) \in Nat
  BY <1>1, FS_CardinalityType
<1> QED BY <1>2, <1>3, <1>4

\* What lies in an interval, counted.
LEMMA IntervalCounts ==
    ASSUME NEW P, IsFiniteSet(P)
    PROVE  /\ \A a : IsFiniteSet(Since(P, a)) /\ Cardinality(Since(P, a)) \in Nat
           /\ \A a, b : IsFiniteSet(Between(P, a, b)) /\ Cardinality(Between(P, a, b)) \in Nat
<1>1. \A a : Since(P, a) \in SUBSET P
  BY DEF Since
<1>2. \A a, b : Between(P, a, b) \in SUBSET P
  BY DEF Between
<1> QED BY <1>1, <1>2, PartsCount

\* An expired counter can be forgotten.
LEMMA ForgottenCounter ==
    ASSUME NEW P, NEW row, NEW l \in Nat, l > 0, NEW n \in Nat, CounterOK(P, row, l, n),
           row.count > 0 => row.started + RateWindow <= n
    PROVE  CounterOK(P, NoBucket, l, n)
<1> USE ThrottleNumbers
<1>1. NoBucket \in BucketTypes /\ NoBucket.count = 0
  BY DEF NoBucket, BucketTypes
<1>0. IsFiniteSet(P) /\ P \subseteq Nat \X Nat /\ row \in BucketTypes
  BY DEF CounterOK, Numbered
<1>2. NoWindow(P, l, n)
  <2>1. CASE row.count > 0
    <3>1. row.started \in Nat /\ OpenWindow(P, row, l, n)
      BY <2>1, <1>0 DEF CounterOK, BucketTypes
    <3>2. Since(P, n) = {}
      BY <1>0, <3>1, <2>1 DEF Since, OpenWindow
    <3>3. ASSUME NEW t \in Nat, t + RateWindow > n
          PROVE  Cardinality(Since(P, t)) <= l - 1
      <4>1. t >= row.started + 1
        BY <2>1, <3>1, <3>3
      <4>2. Since(P, t) \in SUBSET Since(P, row.started + 1)
            /\ Since(P, row.started + 1) \in SUBSET P
        BY <1>0, <3>1, <4>1 DEF Since
      <4>3. Cardinality(Since(P, t)) <= Cardinality(Since(P, row.started + 1))
        BY <1>0, <4>2, PartsCount
      <4>4. Cardinality(Since(P, row.started + 1)) <= l - 1
        BY <3>1 DEF OpenWindow
      <4> QED BY <4>3, <4>4, <1>0, IntervalCounts
    <3> QED BY <3>2, <3>3 DEF NoWindow
  <2>2. CASE row.count = 0
    BY <2>2 DEF CounterOK
  <2> QED BY <1>0, <2>1, <2>2 DEF BucketTypes
<1> QED BY <1>1, <1>2 DEF CounterOK

\* There is room for the request the counter has just counted.
Room(P, row, n) ==
    /\ row.count > 0 /\ n < row.started + RateWindow
    /\ Cardinality(Since(P, row.started)) <= row.count - 1
    /\ row.started = n \/ Cardinality(Since(P, row.started + 1)) <= row.count - 2

LEMMA MinOfTwo ==
    ASSUME NEW a \in Nat, NEW b \in Nat
    PROVE  Min({a, b}) = IF a <= b THEN a ELSE b
<1> DEFINE m == IF a <= b THEN a ELSE b
<1>1. m \in {a, b} /\ \A y \in {a, b} : m <= y
  OBVIOUS
<1>2. \A x \in {a, b} : (\A y \in {a, b} : x <= y) => x = m
  OBVIOUS
<1> QED BY <1>1, <1>2 DEF Min

\* A request is counted in the open window, or opens one.
LEMMA CountedCounter ==
    ASSUME NEW P, NEW row, NEW l \in Nat, l > 0, rateNow \in Nat, CounterOK(P, row, l, rateNow),
           row.count > 0 => row.started + RateWindow > rateNow
    PROVE  /\ CounterOK(P, CountedRow(row, l), l, rateNow)
           /\ CountedRow(row, l).count <= l => Room(P, CountedRow(row, l), rateNow)
<1> USE ThrottleNumbers
<1> DEFINE new == CountedRow(row, l)
<1>0. IsFiniteSet(P) /\ P \subseteq Nat \X Nat /\ row \in BucketTypes
  BY DEF CounterOK, Numbered
<1>1. CASE row.count = 0
  <2>1. new = [started |-> rateNow, count |-> 1, updated |-> rateNow]
    BY <1>1 DEF CountedRow
  <2>2. new \in BucketTypes /\ new.started = rateNow /\ new.count = 1 /\ new.updated = rateNow
    BY <2>1 DEF BucketTypes
  <2> HIDE DEF new
  <2>3. NoWindow(P, l, rateNow)
    BY <1>1 DEF CounterOK
  <2>4. Since(P, rateNow) = {} /\ Since(P, rateNow + 1) = {}
    BY <1>0, <2>3 DEF Since, NoWindow
  <2>5. Cardinality(Since(P, rateNow)) = 0 /\ Cardinality(Since(P, rateNow + 1)) = 0
    BY <2>4, FS_EmptySet
  <2>6. ASSUME NEW t \in Nat, t < rateNow, t + RateWindow > rateNow
        PROVE  Cardinality(Between(P, t, rateNow)) <= l - 1
    <3>1. Between(P, t, rateNow) \in SUBSET Since(P, t) /\ Since(P, t) \in SUBSET P
      BY DEF Between, Since
    <3>2. Cardinality(Between(P, t, rateNow)) <= Cardinality(Since(P, t))
      BY <1>0, <3>1, PartsCount
    <3>3. Cardinality(Since(P, t)) <= l - 1
      BY <2>3, <2>6 DEF NoWindow
    <3> QED BY <3>2, <3>3, <1>0, IntervalCounts
  <2>7. \A p \in P : p[1] < rateNow + RateWindow
    BY <1>0 DEF CounterOK, Numbered
  <2>8. OpenWindow(P, new, l, rateNow)
    BY <2>2, <2>5, <2>6, <2>7 DEF OpenWindow
  <2>9. Room(P, new, rateNow)
    BY <2>2, <2>5 DEF Room
  <2> QED BY <2>2, <2>8, <2>9 DEF CounterOK, new
<1>2. CASE row.count > 0
  <2>0. row.count \in Nat /\ row.started \in Nat /\ row.updated \in Nat
    BY <1>0 DEF BucketTypes
  <2> DEFINE c == IF row.count + 1 <= l + 1 THEN row.count + 1 ELSE l + 1
  <2>1. c = Min({row.count + 1, l + 1})
    BY <2>0, MinOfTwo
  <2>2. c \in Nat /\ c > 0
    BY <2>0
  <2> HIDE DEF c
  <2>3. new = [row EXCEPT !.count = c, !.updated = rateNow]
    <3>1. new = [row EXCEPT !.count = Min({row.count + 1, l + 1}), !.updated = rateNow]
      BY <1>2, <2>0 DEF CountedRow
    <3> QED BY <2>1, <3>1
  <2>4. new \in BucketTypes /\ new.started = row.started /\ new.count = c /\ new.updated = rateNow
    <3> HIDE DEF new
    <3> QED BY <1>0, <2>2, <2>3 DEF BucketTypes
  <2> HIDE DEF new
  <2> USE DEF c
  <2>5. OpenWindow(P, row, l, rateNow)
    BY <1>2 DEF CounterOK
  <2>6. /\ Cardinality(Since(P, row.started)) \in Nat
        /\ Cardinality(Since(P, row.started + 1)) \in Nat
    BY <1>0, IntervalCounts
  <2>7. OpenWindow(P, new, l, rateNow)
    BY <2>0, <2>4, <2>5, <2>6 DEF OpenWindow
  <2>8. ASSUME new.count <= l PROVE Room(P, new, rateNow)
    BY <1>2, <2>0, <2>2, <2>4, <2>5, <2>6, <2>8 DEF OpenWindow, Room
  <2> QED BY <2>2, <2>4, <2>7, <2>8 DEF CounterOK, new
<1> QED BY <1>0, <1>1, <1>2 DEF BucketTypes

\* One more request let through.
Passing(P, n) == P \cup {<<n, Cardinality(Between(P, n, n + 1))>>}

LEMMA OneMore ==
    ASSUME NEW P, IsFiniteSet(P), NEW Q \in SUBSET P, NEW R, NEW x, R \subseteq Q \cup {x}
    PROVE  IsFiniteSet(R) /\ Cardinality(R) <= Cardinality(Q) + 1
<1>1. IsFiniteSet(Q) /\ Cardinality(Q) \in Nat
  BY PartsCount
<1>2. IsFiniteSet(Q \cup {x})
      /\ Cardinality(Q \cup {x}) = IF x \in Q THEN Cardinality(Q) ELSE Cardinality(Q) + 1
  BY <1>1, FS_AddElement
<1>3. IsFiniteSet(R) /\ Cardinality(R) <= Cardinality(Q \cup {x}) /\ Cardinality(R) \in Nat
  BY <1>2, PartsCount
<1> QED BY <1>1, <1>2, <1>3

LEMMA PassedCounter ==
    ASSUME NEW P, NEW row, NEW l \in Nat, l > 0, NEW n \in Nat, CounterOK(P, row, l, n),
           row.count <= l, Room(P, row, n)
    PROVE  CounterOK(Passing(P, n), row, l, n)
<1> USE ThrottleNumbers
<1> DEFINE x == <<n, Cardinality(Between(P, n, n + 1))>>
           PP == P \cup {x}
           S == row.started
<1>0. /\ IsFiniteSet(P) /\ P \subseteq Nat \X Nat /\ row \in BucketTypes
      /\ row.started \in Nat /\ row.count \in Nat /\ row.updated \in Nat
  BY DEF CounterOK, Numbered, BucketTypes
<1>1. OpenWindow(P, row, l, n)
  BY DEF CounterOK, Room
<1>2. x \in Nat \X Nat /\ x[1] = n /\ x[2] = Cardinality(Between(P, n, n + 1))
  BY <1>0, IntervalCounts
<1> HIDE DEF x
<1>3. IsFiniteSet(PP) /\ PP \subseteq Nat \X Nat
  BY <1>0, <1>2, FS_AddElement
<1>4. Numbered(PP, n)
  <2>1. Between(PP, n, n + 1) = Between(P, n, n + 1) \cup {x}
    BY <1>0, <1>2 DEF Between
  <2>2. x \notin P
    BY <1>2 DEF CounterOK, Numbered
  <2>3. Cardinality(Between(PP, n, n + 1)) = Cardinality(Between(P, n, n + 1)) + 1
    <3>1. x \notin Between(P, n, n + 1)
      BY <2>2 DEF Between
    <3> QED BY <1>0, <2>1, <3>1, IntervalCounts, FS_AddElement
  <2>4. ASSUME NEW p \in PP PROVE p[1] <= n /\ (p[1] = n => p[2] < Cardinality(Between(PP, n, n + 1)))
    <3>1. CASE p \in P
      <4>1. p[1] <= n /\ (p[1] = n => p[2] < Cardinality(Between(P, n, n + 1))) /\ p[2] \in Nat
        BY <3>1, <1>0 DEF CounterOK, Numbered
      <4> QED BY <4>1, <2>3, <1>0, IntervalCounts
    <3>2. CASE p = x
      BY <3>2, <1>2, <2>3, <1>0, IntervalCounts
    <3> QED BY <3>1, <3>2
  <2> QED BY <1>3, <2>4 DEF Numbered
<1>5. /\ Cardinality(Since(PP, S)) \in Nat
      /\ Cardinality(Since(PP, S)) <= Cardinality(Since(P, S)) + 1
  <2>1. Since(P, S) \in SUBSET P /\ Since(PP, S) \subseteq Since(P, S) \cup {x}
    BY DEF Since
  <2> QED BY <1>0, <1>3, <2>1, OneMore, IntervalCounts
<1>6. /\ Cardinality(Since(PP, S + 1)) \in Nat
      /\ Cardinality(Since(PP, S + 1)) <= row.count - 1
  <2>1. CASE S = n
    <3>1. Since(PP, S + 1) = {}
      BY <1>3, <1>4, <2>1 DEF Since, Numbered
    <3>2. row.count - 1 >= 0
      BY <1>0 DEF Room
    <3> HIDE DEF PP
    <3> QED BY <3>1, <3>2, FS_EmptySet
  <2>2. CASE Cardinality(Since(P, S + 1)) <= row.count - 2
    <3>1. Since(P, S + 1) \in SUBSET P /\ Since(PP, S + 1) \subseteq Since(P, S + 1) \cup {x}
      BY DEF Since
    <3>2. Cardinality(Since(P, S + 1)) \in Nat /\ Cardinality(Since(PP, S + 1)) \in Nat
      BY <1>0, <1>3, IntervalCounts
    <3>3. Cardinality(Since(PP, S + 1)) <= Cardinality(Since(P, S + 1)) + 1
      BY <1>0, <3>1, OneMore
    <3> HIDE DEF PP
    <3> QED BY <1>0, <2>2, <3>2, <3>3
  <2> QED BY <2>1, <2>2 DEF Room
<1>7. ASSUME NEW t \in Nat, t < S, t + RateWindow > S
      PROVE  Between(PP, t, S) = Between(P, t, S)
  <2>1. S <= n
    BY <1>0, <1>1 DEF OpenWindow
  <2> QED BY <1>0, <1>2, <2>1 DEF Between
<1>8. OpenWindow(PP, row, l, n)
  <2>1. \A p \in PP : p[1] < S + RateWindow
    BY <1>1, <1>2 DEF OpenWindow, Room
  <2>2. \A t \in Nat : t < S /\ t + RateWindow > S => Cardinality(Between(PP, t, S)) <= l - 1
    BY <1>1, <1>7 DEF OpenWindow
  <2>3. Cardinality(Since(PP, S)) <= row.count /\ Cardinality(Since(PP, S)) <= l
    BY <1>0, <1>5, IntervalCounts DEF Room
  <2>4. Cardinality(Since(PP, S + 1)) <= row.count - 1 /\ Cardinality(Since(PP, S + 1)) <= l - 1
    BY <1>0, <1>6
  <2> HIDE DEF PP
  <2> QED BY <1>1, <2>1, <2>2, <2>3, <2>4 DEF OpenWindow
<1>9. ASSUME NEW t \in Nat
      PROVE  Cardinality(Between(PP, t, t + RateWindow)) <= 2 * l - 1
  <2>1. CASE t + RateWindow <= S
    <3>1. S <= n
      BY <1>0, <1>1 DEF OpenWindow
    <3>2. Between(PP, t, t + RateWindow) = Between(P, t, t + RateWindow)
      BY <1>0, <1>2, <2>1, <3>1 DEF Between
    <3> QED BY <3>2 DEF CounterOK
  <2>2. CASE t >= S
    <3>1. Between(PP, t, t + RateWindow) \in SUBSET Since(PP, S) /\ Since(PP, S) \in SUBSET PP
      BY <1>0, <1>3, <2>2 DEF Between, Since
    <3>2. Cardinality(Between(PP, t, t + RateWindow)) <= Cardinality(Since(PP, S))
      BY <1>3, <3>1, PartsCount
    <3>3. Cardinality(Since(PP, S)) <= l
      BY <1>8 DEF OpenWindow
    <3> HIDE DEF PP
    <3> QED BY <1>3, <3>2, <3>3, IntervalCounts
  <2>3. CASE t < S /\ t + RateWindow > S
    <3> DEFINE before == Between(PP, t, S)
               since == Since(PP, S)
    <3>1. before \in SUBSET PP /\ since \in SUBSET PP
      BY DEF Between, Since
    <3>2. Between(PP, t, t + RateWindow) \in SUBSET (before \cup since)
      BY <1>0, <1>3 DEF Between, Since
    <3>3. Cardinality(before) <= l - 1 /\ Cardinality(since) <= l
      BY <1>8, <2>3 DEF OpenWindow
    <3>4. Cardinality(before) \in Nat /\ Cardinality(since) \in Nat
      BY <1>3, IntervalCounts
    <3> HIDE DEF before, since, PP
    <3>5. Cardinality(before \cup since) <= Cardinality(before) + Cardinality(since)
      BY <1>3, <3>1, UnionCount
    <3>6. before \cup since \in SUBSET PP
      BY <3>1
    <3>7. Cardinality(Between(PP, t, t + RateWindow)) <= Cardinality(before \cup since)
          /\ Cardinality(before \cup since) \in Nat
      BY <1>3, <3>2, <3>6, PartsCount
    <3> QED BY <1>3, <3>3, <3>4, <3>5, <3>7, IntervalCounts
  <2> QED BY <1>0, <2>1, <2>2, <2>3
<1>10. row.count > 0
  BY DEF Room
<1> HIDE DEF PP
<1>11. CounterOK(PP, row, l, n)
  BY <1>0, <1>4, <1>8, <1>9, <1>10 DEF CounterOK
<1> QED BY <1>11 DEF Passing, PP, x

\* Time passes.
LEMMA TickedCounter ==
    ASSUME NEW P, NEW row, NEW l \in Nat, NEW n \in Nat, CounterOK(P, row, l, n)
    PROVE  CounterOK(P, row, l, n + 1)
<1> USE ThrottleNumbers
<1>0. IsFiniteSet(P) /\ P \subseteq Nat \X Nat /\ row \in BucketTypes
      /\ row.updated \in Nat
  BY DEF CounterOK, Numbered, BucketTypes
<1>1. Numbered(P, n + 1)
  BY <1>0 DEF CounterOK, Numbered
<1>2. ASSUME row.count > 0 PROVE OpenWindow(P, row, l, n + 1)
  BY <1>0, <1>2 DEF CounterOK, OpenWindow
<1>3. ASSUME row.count = 0 PROVE NoWindow(P, l, n + 1)
  <2>1. Since(P, n + 1) = {}
    BY <1>0 DEF CounterOK, Numbered, Since
  <2>2. \A t \in Nat : t + RateWindow > n + 1 => Cardinality(Since(P, t)) <= l - 1
    BY <1>3 DEF CounterOK, NoWindow
  <2> QED BY <2>1, <2>2 DEF NoWindow
<1> QED BY <1>0, <1>1, <1>2, <1>3 DEF CounterOK

CountersOK(rows) ==
    /\ DOMAIN rows = RateKeys
    /\ \A k \in RateKeys : CounterOK(passed[k], rows[k], LimitOf(k), rateNow)

\* The inductive invariant: every counter bounds what its subject was let through.
ThrottleInv ==
    /\ rateNow \in Nat /\ DOMAIN passed = RateKeys
    /\ CountersOK(buckets)

\* _consume_rule keeps every counter right, and leaves the other scope alone.
LEMMA RuleConsumed ==
    ASSUME NEW rows, NEW k \in RateKeys, rateNow \in Nat, CountersOK(rows)
    PROVE  /\ CountersOK(ConsumeRule(rows, k))
           /\ Within(ConsumeRule(rows, k), k) =>
                 Room(passed[k], ConsumeRule(rows, k)[k], rateNow)
           /\ \A q \in RateKeys : q[1] # k[1] => ConsumeRule(rows, k)[q] = rows[q]
<1> USE ThrottleNumbers
<1> DEFINE kept == [q \in RateKeys |->
                     IF q[1] = k[1] /\ WindowOver(rows[q]) THEN NoBucket ELSE rows[q]]
           new == [kept EXCEPT ![k] = CountedRow(kept[k], LimitOf(k))]
<1>1. ConsumeRule(rows, k) = new
  BY DEF ConsumeRule
<1>2. ASSUME NEW q \in RateKeys PROVE CounterOK(passed[q], kept[q], LimitOf(q), rateNow)
  <2>0. CounterOK(passed[q], rows[q], LimitOf(q), rateNow) /\ rows[q].started \in Nat
    BY DEF CountersOK, CounterOK, BucketTypes
  <2>1. CASE q[1] = k[1] /\ WindowOver(rows[q])
    <3>1. kept[q] = NoBucket /\ rows[q].started + RateWindow <= rateNow
      BY <2>0, <2>1 DEF WindowOver
    <3> QED BY <2>0, <3>1, ForgottenCounter
  <2>2. CASE ~(q[1] = k[1] /\ WindowOver(rows[q]))
    BY <2>0, <2>2
  <2> QED BY <2>1, <2>2
<1>3. kept[k].count > 0 => kept[k].started + RateWindow > rateNow
  <2>1. CASE WindowOver(rows[k])
    BY <2>1 DEF NoBucket
  <2>2. CASE ~WindowOver(rows[k])
    <3>1. kept[k] = rows[k] /\ rows[k] \in BucketTypes
      BY <2>2 DEF CountersOK, CounterOK
    <3>2. rows[k].started \in Nat
      BY <3>1 DEF BucketTypes
    <3> QED BY <2>2, <3>1, <3>2 DEF WindowOver
  <2> QED BY <2>1, <2>2
<1>4. DOMAIN kept = RateKeys /\ DOMAIN new = RateKeys
  OBVIOUS
<1>5. new[k] = CountedRow(kept[k], LimitOf(k)) /\ \A q \in RateKeys \ {k} : new[q] = kept[q]
  BY <1>4
<1>6. /\ CounterOK(passed[k], new[k], LimitOf(k), rateNow)
      /\ new[k].count <= LimitOf(k) => Room(passed[k], new[k], rateNow)
  <2> HIDE DEF new, kept
  <2> QED BY <1>2, <1>3, <1>5, CountedCounter
<1>7. \A q \in RateKeys : q[1] # k[1] => new[q] = rows[q]
  BY <1>5
<1> HIDE DEF new, kept
<1>8. CountersOK(new)
  BY <1>2, <1>4, <1>5, <1>6 DEF CountersOK
<1> QED BY <1>1, <1>6, <1>7, <1>8 DEF Within

LEMMA ThrottleInvStart == ThrottleInit => ThrottleInv
<1> USE ThrottleNumbers
<1> SUFFICES ASSUME ThrottleInit PROVE ThrottleInv
  OBVIOUS
<1>1. rateNow = 0 /\ DOMAIN buckets = RateKeys /\ DOMAIN passed = RateKeys
  BY DEF ThrottleInit
<1>2. ASSUME NEW k \in RateKeys PROVE CounterOK(passed[k], buckets[k], LimitOf(k), rateNow)
  <2>1. passed[k] = {} /\ buckets[k] = NoBucket
    BY DEF ThrottleInit
  <2>2. NoBucket \in BucketTypes /\ NoBucket.count = 0
    BY DEF NoBucket, BucketTypes
  <2>3. (\A t : Since({}, t) = {}) /\ (\A a, b : Between({}, a, b) = {})
    BY DEF Since, Between
  <2>4. Cardinality({}) = 0 /\ IsFiniteSet({})
    BY FS_EmptySet
  <2>5. Numbered({}, 0)
    BY <2>4 DEF Numbered
  <2>6. NoWindow({}, LimitOf(k), 0)
    BY <2>3, <2>4 DEF NoWindow
  <2>7. \A t \in Nat : Cardinality(Between({}, t, t + RateWindow)) <= 2 * LimitOf(k) - 1
    BY <2>3, <2>4
  <2> QED BY <1>1, <2>1, <2>2, <2>5, <2>6, <2>7 DEF CounterOK
<1> QED BY <1>1, <1>2 DEF ThrottleInv, CountersOK

LEMMA RequestKeepsCounters ==
    ASSUME ThrottleInv, NEW c \in Clients, NEW s \in Subjects, AskThrottle(c, s)
    PROVE  ThrottleInv'
<1> USE ThrottleNumbers
<1> DEFINE ip    == <<"ip", c>>
           mail  == <<"subject", s>>
           first == ConsumeRule(buckets, ip)
           both  == ConsumeRule(first, mail)
<1>1. ip \in RateKeys /\ mail \in RateKeys /\ ip[1] # mail[1] /\ ip # mail
  BY DEF RateKeys
<1>0. rateNow \in Nat /\ CountersOK(buckets) /\ DOMAIN passed = RateKeys /\ rateNow' = rateNow
  BY DEF ThrottleInv, AskThrottle
<1> HIDE DEF ip, mail
<1>2. CountersOK(first) /\ (Within(first, ip) => Room(passed[ip], first[ip], rateNow))
  BY <1>0, <1>1, RuleConsumed
<1> HIDE DEF first
<1>3. /\ CountersOK(both) /\ (Within(both, mail) => Room(passed[mail], both[mail], rateNow))
      /\ both[ip] = first[ip]
  BY <1>0, <1>1, <1>2, RuleConsumed
<1> HIDE DEF both
<1>4. CASE ~Within(first, ip)
  <2>1. buckets' = first /\ passed' = passed
    BY <1>4 DEF AskThrottle, first, ip
  <2> QED BY <1>0, <1>2, <2>1 DEF ThrottleInv, CountersOK
<1>5. CASE Within(first, ip) /\ ~Within(both, mail)
  <2>1. buckets' = both /\ passed' = passed
    BY <1>5 DEF AskThrottle, first, both, ip, mail
  <2> QED BY <1>0, <1>3, <2>1 DEF ThrottleInv, CountersOK
<1>6. CASE Within(first, ip) /\ Within(both, mail)
  <2>1. /\ buckets' = both
        /\ passed' = [k \in RateKeys |-> IF k \in {ip, mail} THEN LetThrough(passed[k])
                                         ELSE passed[k]]
    BY <1>6 DEF AskThrottle, first, both, ip, mail
  <2>2. ASSUME NEW k \in RateKeys
        PROVE  CounterOK(passed'[k], both[k], LimitOf(k), rateNow)
    <3>1. CounterOK(passed[k], both[k], LimitOf(k), rateNow)
      BY <1>3 DEF CountersOK
    <3>2. CASE k \in {ip, mail}
      <4>1. Room(passed[k], both[k], rateNow) /\ both[k].count <= LimitOf(k)
        BY <1>2, <1>3, <1>6, <3>2 DEF Within
      <4>2. passed'[k] = Passing(passed[k], rateNow)
        BY <2>1, <3>2 DEF LetThrough, Passing
      <4> QED BY <1>0, <3>1, <4>1, <4>2, PassedCounter
    <3>3. CASE k \notin {ip, mail}
      BY <2>1, <3>1, <3>3
    <3> QED BY <3>2, <3>3
  <2>3. DOMAIN passed' = RateKeys
    BY <2>1
  <2> QED BY <1>0, <1>3, <2>1, <2>2, <2>3 DEF ThrottleInv, CountersOK
<1> QED BY <1>4, <1>5, <1>6

LEMMA PurgeKeepsCounters ==
    ASSUME ThrottleInv, PurgeBuckets
    PROVE  ThrottleInv'
<1> USE ThrottleNumbers
<1>0. rateNow \in Nat /\ CountersOK(buckets) /\ DOMAIN passed = RateKeys
      /\ rateNow' = rateNow /\ passed' = passed
  BY DEF ThrottleInv, PurgeBuckets
<1>1. ASSUME NEW k \in RateKeys
      PROVE  CounterOK(passed[k], buckets'[k], LimitOf(k), rateNow)
  <2>0. CounterOK(passed[k], buckets[k], LimitOf(k), rateNow) /\ buckets[k] \in BucketTypes
    BY <1>0 DEF CountersOK, CounterOK
  <2>1. CASE buckets[k].updated <= rateNow - Retention
    <3>1. buckets'[k] = NoBucket
      BY <2>1 DEF PurgeBuckets
    <3>2. buckets[k].count > 0 => buckets[k].started + RateWindow <= rateNow
      <4>1. buckets[k].count > 0 => buckets[k].started <= buckets[k].updated
        BY <2>0 DEF CounterOK, OpenWindow
      <4>2. buckets[k].started \in Nat /\ buckets[k].updated \in Nat
        BY <2>0 DEF BucketTypes
      <4> QED BY <1>0, <2>1, <4>1, <4>2
    <3> QED BY <1>0, <2>0, <3>1, <3>2, ForgottenCounter
  <2>2. CASE ~(buckets[k].updated <= rateNow - Retention)
    BY <2>0, <2>2 DEF PurgeBuckets
  <2> QED BY <2>1, <2>2
<1>2. DOMAIN buckets' = RateKeys
  BY DEF PurgeBuckets
<1> QED BY <1>0, <1>1, <1>2 DEF ThrottleInv, CountersOK

\* Every interval as long as a window, wherever it begins, lets less than twice the limit
\* through, for any number of addresses and subjects, any limits and any window.
THEOREM ThrottleBounds == ThrottleSpec => []ThrottleHolds
<1> USE ThrottleNumbers
<1>1. ThrottleInit => ThrottleInv
  BY ThrottleInvStart
<1>2. ThrottleInv /\ [ThrottleNext]_throttleVars => ThrottleInv'
  <2> SUFFICES ASSUME ThrottleInv, [ThrottleNext]_throttleVars PROVE ThrottleInv'
    OBVIOUS
  <2>1. CASE \E c \in Clients, s \in Subjects : AskThrottle(c, s)
    BY <2>1, RequestKeepsCounters
  <2>2. CASE PurgeBuckets
    BY <2>2, PurgeKeepsCounters
  <2>3. CASE RateTick
    <3>1. rateNow' = rateNow + 1 /\ buckets' = buckets /\ passed' = passed /\ rateNow \in Nat
      BY <2>3 DEF RateTick, ThrottleInv
    <3>2. \A k \in RateKeys : CounterOK(passed[k], buckets[k], LimitOf(k), rateNow + 1)
      BY <3>1, TickedCounter DEF ThrottleInv, CountersOK
    <3> QED BY <3>1, <3>2 DEF ThrottleInv, CountersOK
  <2>4. CASE UNCHANGED throttleVars
    BY <2>4 DEF throttleVars, ThrottleInv, CountersOK
  <2> QED BY <2>1, <2>2, <2>3, <2>4 DEF ThrottleNext
<1>3. ThrottleInv => ThrottleHolds
  BY ThrottleAssumption DEF ThrottleInv, CountersOK, CounterOK, ThrottleHolds
<1> QED BY <1>1, <1>2, <1>3, PTL DEF ThrottleSpec

=============================================================================
