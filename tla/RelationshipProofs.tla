------------------------- MODULE RelationshipProofs -------------------------
(***************************************************************************)
(* Proofs about Relationship, for any number of accounts, codes, couples   *)
(* and concurrent requests, and about PartnerProfile (the third part), for *)
(* any number of names, images, couples and requests.                      *)
(*                                                                         *)
(* ChecksStillHold is not inductive: it rests on who holds which lock at   *)
(* which stage of a request. Inv adds that. NoLockCycle rests on the order *)
(* in which rows are locked: WaitInv, in the second part, adds that.       *)
(***************************************************************************)
EXTENDS Relationship, PartnerProfile, FiniteSetTheorems, WellFoundedInduction, TLAPS

Pairing(r) == op[r] \in {"redeem", "confirm"} /\ pc[r] \in {"lock", "commit"}

\* The stages at which the request must hold its couple's row.
HoldsCouple(r) ==
    \/ pc[r] = "check"
    \/ pc[r] = "commit" /\ op[r] \in {"unpair", "on", "off", "upload"}
    \/ pc[r] = "self" /\ mine[r] # None

\* Which operation can be at which stage, and what it has read by then.
StageOK ==
    \A r \in Requests :
        /\ pc[r] = "idle" => mine[r] = None
        /\ pc[r] # "idle" => actor[r] \in Accounts
        /\ pc[r] = "members" => op[r] \in {"unpair", "delete"} /\ mine[r] # None
        /\ pc[r] = "lock" => \/ op[r] \in {"redeem", "confirm"}
                             \/ op[r] \in {"unpair", "delete"} /\ mine[r] # None
        /\ pc[r] = "check" => op[r] = "upload"
        /\ pc[r] = "couple" => op[r] \in {"unpair", "delete", "on", "off", "upload"}
                               /\ mine[r] # None
        /\ pc[r] = "self" => op[r] = "delete"

\* A redeemed code has a creator, who is somebody else.
CodeOK ==
    \A k \in Codes :
        /\ code[k].status = "open" => code[k].creator \in Accounts
        /\ code[k].partner # None => code[k].creator # code[k].partner

\* A pairing request holds the rows of both accounts, apart from those it
\* still waits for and those that are gone, and its code is still the one of
\* the creator it has read.
PairLocks ==
    \A r \in Requests : Pairing(r) =>
        /\ other[r] \in Accounts /\ actor[r] # other[r] /\ about[r] \in Codes
        /\ pc[r] = "commit" => want[r] = {}
        /\ \A a \in Pair(r) \ want[r] : acctLock[a] = r \/ account[a] = "erased"
        /\ code[about[r]].status # "absent"
        /\ LET creator == IF op[r] = "redeem" THEN other[r] ELSE actor[r] IN
           code[about[r]].creator = creator \/ account[creator] = "erased"

\* A request that reached its couple holds its row, and the couple has not
\* ended; the couple it has read once contains its actor while it lasts.
CoupleLocks ==
    \A r \in Requests :
        /\ HoldsCouple(r) => /\ mine[r] \in Couples
                             /\ coupleLock[mine[r]] = r
                             /\ couple[mine[r]] = "active"
        /\ mine[r] # None => /\ couple[mine[r]] # "absent"
                             /\ couple[mine[r]] = "active" =>
                                   actor[r] \in members[mine[r]]

EraseLocks ==
    \A r \in Requests :
        pc[r] = "commit" /\ op[r] = "erase" => acctLock[actor[r]] = r

\* The code of a couple can never be confirmed again.
OriginUsed ==
    \A c \in Couples : origin[c] # None =>
        \/ code[origin[c]].status = "consumed"
        \/ code[origin[c]].status = "expired" /\ code[origin[c]].creator = None

\* A couple was made of two accounts, and samples are only inserted while its
\* members consent.
MembersOK ==
    /\ \A c \in Couples : IsFiniteSet(members[c])
    /\ \A r \in Requests :
          pc[r] = "commit" /\ op[r] = "upload" => consent[mine[r]] = members[mine[r]]

Inv == /\ TypeOK /\ StageOK /\ CodeOK /\ PairLocks /\ CoupleLocks /\ EraseLocks
       /\ OriginUsed /\ MembersOK
       /\ ChecksStillHold /\ CouplesAreWhole /\ CodeMakesOneCouple
       /\ SamplesNeedMutualConsent

\* The empty database satisfies the invariant.
LEMMA InitInv == Init => Inv
  <1> SUFFICES ASSUME Init PROVE Inv
    OBVIOUS
  <1>1. TypeOK
    BY DEF Init, TypeOK, Stages
  <1>2. StageOK /\ CodeOK /\ EraseLocks /\ OriginUsed
    BY DEF Init, StageOK, CodeOK, EraseLocks, OriginUsed
  <1>3. PairLocks /\ CoupleLocks
    BY DEF Init, PairLocks, CoupleLocks, Pairing, HoldsCouple
  <1>4. MembersOK
    BY FS_EmptySet DEF Init, MembersOK
  <1>5. ChecksStillHold /\ CouplesAreWhole /\ CodeMakesOneCouple
        /\ SamplesNeedMutualConsent
    BY DEF Init, ChecksStillHold, CouplesAreWhole, CodeMakesOneCouple,
           SamplesNeedMutualConsent
  <1> QED BY <1>1, <1>2, <1>3, <1>4, <1>5 DEF Inv

-----------------------------------------------------------------------------
(* A request that ends without a commit                                    *)

\* A handler that raises, or that the database aborts, frees its locks and
\* leaves no trace.
LEMMA FinishInv ==
    ASSUME Inv, NEW r \in Requests, Finish(r), UNCHANGED dataVars
    PROVE  Inv'
  <1> USE DEF Inv, Finish, Go, dataVars
  <1>1. TypeOK'
    BY DEF TypeOK, Stages
  <1>2. StageOK' /\ CodeOK' /\ EraseLocks' /\ OriginUsed'
    BY DEF TypeOK, StageOK, CodeOK, EraseLocks, OriginUsed
  <1>3. PairLocks'
    BY DEF TypeOK, StageOK, PairLocks, Pairing, Pair
  <1>4. CoupleLocks'
    BY DEF TypeOK, CoupleLocks, HoldsCouple
  <1>5. MembersOK' /\ CouplesAreWhole' /\ CodeMakesOneCouple'
        /\ SamplesNeedMutualConsent'
    BY DEF TypeOK, MembersOK, CouplesAreWhole, CodeMakesOneCouple,
           SamplesNeedMutualConsent
  <1>6. ChecksStillHold'
    BY DEF TypeOK, ChecksStillHold, StillPairable, Pair, Eligible, Single
  <1> QED BY <1>1, <1>2, <1>3, <1>4, <1>5, <1>6

-----------------------------------------------------------------------------
(* Actions on codes only                                                   *)

\* create_code writes a row that no request has read yet.
LEMMA CreateCodeInv ==
    ASSUME Inv, NEW a \in Accounts, NEW k \in Codes, CreateCode(a, k)
    PROVE  Inv'
  <1> USE DEF Inv, CreateCode, lockVars, localVars
  <1>1. TypeOK' /\ CodeOK'
    BY RelationshipAssumption DEF TypeOK, CodeOK
  <1>2. StageOK' /\ EraseLocks' /\ MembersOK' /\ CouplesAreWhole'
        /\ CodeMakesOneCouple' /\ SamplesNeedMutualConsent' /\ CoupleLocks'
    BY DEF StageOK, EraseLocks, MembersOK, CouplesAreWhole, CodeMakesOneCouple,
           SamplesNeedMutualConsent, CoupleLocks, HoldsCouple
  <1>3. PairLocks'
    BY DEF TypeOK, PairLocks, Pairing, Pair
  <1>4. OriginUsed'
    BY DEF TypeOK, OriginUsed
  <1>5. ChecksStillHold'
    BY DEF TypeOK, PairLocks, Pairing, ChecksStillHold, StillPairable, Pair,
           Eligible, Single
  <1> QED BY <1>1, <1>2, <1>3, <1>4, <1>5

\* A code that expires is neither consumed nor given back to be confirmed.
LEMMA ExpireInv ==
    ASSUME Inv, NEW k \in Codes, Expire(k)
    PROVE  Inv'
  <1> USE DEF Inv, Expire, lockVars, localVars
  <1>1. TypeOK' /\ CodeOK'
    <2>1. code' \in [Codes -> [status : {"absent", "open", "expired", "consumed"},
                               creator : Accounts \cup {None},
                               partner : Accounts \cup {None}]]
      <3> DEFINE row == [code[k] EXCEPT !.status = "expired"]
      <3>0. code[k] \in [status : {"absent", "open", "expired", "consumed"},
                         creator : Accounts \cup {None}, partner : Accounts \cup {None}]
        BY DEF TypeOK
      <3>1. row \in [status : {"absent", "open", "expired", "consumed"},
                     creator : Accounts \cup {None}, partner : Accounts \cup {None}]
        BY <3>0
      <3>2. code' = [code EXCEPT ![k] = row]
        OBVIOUS
      <3> HIDE DEF row
      <3> QED BY <3>1, <3>2 DEF TypeOK
    <2>2. TypeOK'
      BY <2>1 DEF TypeOK
    <2>3. CodeOK'
      BY DEF TypeOK, CodeOK
    <2> QED BY <2>2, <2>3
  <1>2. StageOK' /\ EraseLocks' /\ MembersOK' /\ CouplesAreWhole'
        /\ CodeMakesOneCouple' /\ SamplesNeedMutualConsent' /\ CoupleLocks'
    BY DEF StageOK, EraseLocks, MembersOK, CouplesAreWhole, CodeMakesOneCouple,
           SamplesNeedMutualConsent, CoupleLocks, HoldsCouple
  <1>3. PairLocks'
    BY DEF TypeOK, PairLocks, Pairing, Pair
  <1>4. OriginUsed'
    BY DEF TypeOK, OriginUsed
  <1>5. ChecksStillHold'
    BY DEF TypeOK, PairLocks, Pairing, ChecksStillHold, StillPairable, Pair,
           Eligible, Single
  <1> QED BY <1>1, <1>2, <1>3, <1>4, <1>5

-----------------------------------------------------------------------------
(* First reads of a request, and its locks                                 *)

\* redeem_code and confirm_pairing alike: the code is open, and its two
\* accounts differ.
LEMMA PreviewInv ==
    ASSUME Inv, NEW r \in Requests, NEW a \in Accounts, NEW k \in Codes,
           PreviewRedeem(r, a, k) \/ PreviewConfirm(r, a, k)
    PROVE  Inv'
  <1> USE DEF Inv
  <1>0. PICK o \in {"redeem", "confirm"}, b \in Accounts :
           /\ pc[r] = "idle" /\ a # b /\ code[k].status = "open"
           /\ code[k].creator = IF o = "redeem" THEN b ELSE a
           /\ op' = [op EXCEPT ![r] = o] /\ actor' = [actor EXCEPT ![r] = a]
           /\ about' = [about EXCEPT ![r] = k] /\ other' = [other EXCEPT ![r] = b]
           /\ want' = [want EXCEPT ![r] = {a, b}] /\ pc' = [pc EXCEPT ![r] = "lock"]
           /\ UNCHANGED <<dataVars, lockVars, mine, seen>>
    <2>1. CASE PreviewRedeem(r, a, k)
      BY <2>1 DEF PreviewRedeem, Open, Go, CodeOK
    <2>2. CASE PreviewConfirm(r, a, k)
      BY <2>2 DEF PreviewConfirm, Open, Go, CodeOK, TypeOK
    <2> QED BY <2>1, <2>2
  <1> USE DEF dataVars, lockVars
  <1>1. TypeOK'
    BY <1>0 DEF TypeOK, Stages, Operations
  <1>2. StageOK' /\ CodeOK' /\ EraseLocks' /\ OriginUsed'
    BY <1>0 DEF TypeOK, StageOK, CodeOK, EraseLocks, OriginUsed
  <1>3. PairLocks'
    BY <1>0 DEF TypeOK, PairLocks, Pairing, Pair
  <1>4. CoupleLocks'
    BY <1>0 DEF TypeOK, StageOK, CoupleLocks, HoldsCouple
  <1>5. MembersOK' /\ CouplesAreWhole' /\ CodeMakesOneCouple'
        /\ SamplesNeedMutualConsent'
    BY <1>0 DEF TypeOK, MembersOK, CouplesAreWhole, CodeMakesOneCouple,
                SamplesNeedMutualConsent
  <1>6. ChecksStillHold'
    BY <1>0 DEF TypeOK, ChecksStillHold, StillPairable, Pair, Eligible, Single
  <1> QED BY <1>1, <1>2, <1>3, <1>4, <1>5, <1>6

\* A request that reads a couple finds its actor in it, so the couple is active.
LEMMA ReadCoupleInv ==
    ASSUME Inv, NEW r \in Requests, NEW a \in Accounts, NEW o \in Operations,
           ReadCouple(r, o, a) \/ ReadMember(r, o, a)
    PROVE  Inv'
  <1> USE DEF Inv
  <1>0. PICK c \in Couples \cup {None}, stage \in {"members", "self", "couple"},
             was \in BOOLEAN :
           /\ pc[r] = "idle"
           /\ c # None => a \in active[c]
           /\ IF stage = "self" THEN o = "delete" /\ c = None ELSE c # None
           /\ stage = "members" => o \in {"unpair", "delete"}
           /\ stage = "couple" => o \in {"on", "off", "upload"}
           /\ op' = [op EXCEPT ![r] = o] /\ actor' = [actor EXCEPT ![r] = a]
           /\ mine' = [mine EXCEPT ![r] = c] /\ seen' = [seen EXCEPT ![r] = was]
           /\ pc' = [pc EXCEPT ![r] = stage]
           /\ UNCHANGED <<dataVars, lockVars, about, other, want>>
    <2>1. CASE ReadCouple(r, o, a)
      <3>1. pc[r] = "idle" /\ mine[r] = None /\ mine = [mine EXCEPT ![r] = None]
        BY <2>1 DEF ReadCouple, Open, StageOK, TypeOK
      <3>2. seen[r] \in BOOLEAN /\ seen = [seen EXCEPT ![r] = seen[r]]
        BY DEF TypeOK
      <3> QED
        BY <2>1, <3>1, <3>2, RelationshipAssumption DEF ReadCouple, Open, Go
    <2>2. CASE ReadMember(r, o, a)
      <3>1. PICK c \in Couples :
              /\ a \in active[c] /\ mine' = [mine EXCEPT ![r] = c]
              /\ seen' = [seen EXCEPT ![r] = a \in consent[c]]
        BY <2>2 DEF ReadMember
      <3>2. c # None /\ c \in Couples \cup {None}
        BY RelationshipAssumption
      <3>3. /\ pc[r] = "idle" /\ o \in {"on", "off", "upload"}
            /\ op' = [op EXCEPT ![r] = o] /\ actor' = [actor EXCEPT ![r] = a]
            /\ pc' = [pc EXCEPT ![r] = "couple"]
            /\ UNCHANGED <<dataVars, lockVars, about, other, want>>
        BY <2>2 DEF ReadMember, Open, Go
      <3>4. (a \in consent[c]) \in BOOLEAN
        OBVIOUS
      <3>5. PICK was \in BOOLEAN : seen' = [seen EXCEPT ![r] = was]
        BY <3>1, <3>4, Zenon
      <3> QED BY <3>1, <3>2, <3>3, <3>5
    <2> QED BY <2>1, <2>2
  <1> USE DEF dataVars, lockVars
  <1>1. TypeOK'
    BY <1>0 DEF TypeOK, Stages
  <1>2. StageOK' /\ CodeOK' /\ EraseLocks' /\ OriginUsed'
    BY <1>0 DEF TypeOK, StageOK, CodeOK, EraseLocks, OriginUsed
  <1>3. PairLocks'
    BY <1>0 DEF TypeOK, PairLocks, Pairing, Pair
  <1>4. CoupleLocks'
    BY <1>0 DEF TypeOK, StageOK, CoupleLocks, HoldsCouple, CouplesAreWhole
  <1>5. MembersOK' /\ CouplesAreWhole' /\ CodeMakesOneCouple'
        /\ SamplesNeedMutualConsent'
    BY <1>0 DEF TypeOK, MembersOK, CouplesAreWhole, CodeMakesOneCouple,
                SamplesNeedMutualConsent
  <1>6. ChecksStillHold'
    BY <1>0 DEF TypeOK, ChecksStillHold, StillPairable, Pair, Eligible, Single
  <1> QED BY <1>1, <1>2, <1>3, <1>4, <1>5, <1>6

\* The unlocked read of the members decides only which rows will be locked.
LEMMA ReadMembersInv ==
    ASSUME Inv, NEW r \in Requests, ReadMembers(r)
    PROVE  Inv'
  <1> USE DEF Inv, ReadMembers, Go, dataVars, lockVars
  <1>1. TypeOK'
    BY DEF TypeOK, StageOK, Stages
  <1>2. StageOK' /\ CodeOK' /\ EraseLocks' /\ OriginUsed'
    BY DEF TypeOK, StageOK, CodeOK, EraseLocks, OriginUsed
  <1>3. PairLocks'
    BY DEF TypeOK, StageOK, PairLocks, Pairing, Pair
  <1>4. CoupleLocks'
    BY DEF TypeOK, StageOK, CoupleLocks, HoldsCouple
  <1>5. MembersOK' /\ CouplesAreWhole' /\ CodeMakesOneCouple'
        /\ SamplesNeedMutualConsent'
    BY DEF TypeOK, MembersOK, CouplesAreWhole, CodeMakesOneCouple,
           SamplesNeedMutualConsent
  <1>6. ChecksStillHold'
    BY DEF TypeOK, ChecksStillHold, StillPairable, Pair, Eligible, Single
  <1> QED BY <1>1, <1>2, <1>3, <1>4, <1>5, <1>6

\* A free row becomes the row of r: nobody else loses a lock.
LEMMA LockAccountInv ==
    ASSUME Inv, NEW r \in Requests, LockAccount(r)
    PROVE  Inv'
  <1> DEFINE a == NextLock(r)
  <1>0. /\ pc[r] = "lock" /\ acctLock[a] = None
        /\ acctLock' = IF account[a] = "erased" THEN acctLock
                       ELSE [acctLock EXCEPT ![a] = r]
        /\ want' = [want EXCEPT ![r] = @ \ {a}]
        /\ UNCHANGED <<dataVars, coupleLock, pc, op, actor, about, other, mine, seen>>
    BY DEF LockAccount
  <1> HIDE DEF a
  <1> USE DEF Inv, dataVars
  <1>1. TypeOK'
    BY <1>0 DEF TypeOK
  <1>2. StageOK' /\ CodeOK' /\ OriginUsed'
    BY <1>0 DEF TypeOK, StageOK, CodeOK, OriginUsed
  <1>3. EraseLocks'
    BY <1>0, RelationshipAssumption DEF TypeOK, StageOK, EraseLocks
  <1>4. PairLocks'
    BY <1>0, RelationshipAssumption DEF TypeOK, StageOK, PairLocks, Pairing, Pair
  <1>5. CoupleLocks'
    BY <1>0 DEF TypeOK, CoupleLocks, HoldsCouple
  <1>6. MembersOK' /\ CouplesAreWhole' /\ CodeMakesOneCouple'
        /\ SamplesNeedMutualConsent'
    BY <1>0 DEF TypeOK, MembersOK, CouplesAreWhole, CodeMakesOneCouple,
                SamplesNeedMutualConsent
  <1>7. ChecksStillHold'
    BY <1>0 DEF TypeOK, ChecksStillHold, StillPairable, Pair, Eligible, Single
  <1> QED BY <1>1, <1>2, <1>3, <1>4, <1>5, <1>6, <1>7

\* The erasure takes a row that nobody holds.
LEMMA BeginEraseInv ==
    ASSUME Inv, NEW r \in Requests, NEW a \in Accounts, BeginErase(r, a)
    PROVE  Inv'
  <1> USE DEF Inv, BeginErase, Go, dataVars
  <1>1. TypeOK'
    BY DEF TypeOK, Stages, Operations
  <1>2. StageOK' /\ CodeOK' /\ OriginUsed'
    BY DEF TypeOK, StageOK, CodeOK, OriginUsed
  <1>3. EraseLocks'
    BY RelationshipAssumption DEF TypeOK, StageOK, EraseLocks
  <1>4. PairLocks'
    <2>1. ASSUME NEW q \in Requests, Pairing(q)'
          PROVE  /\ q # r /\ Pairing(q) /\ op'[q] = op[q] /\ pc'[q] = pc[q]
                 /\ actor'[q] = actor[q] /\ Pair(q)' = Pair(q)
      BY <2>1 DEF TypeOK, Pairing, Pair
    <2>2. \A b \in Accounts : acctLock[b] # None => acctLock'[b] = acctLock[b]
      BY DEF TypeOK
    <2>3. \A q \in Requests : q # None
      BY RelationshipAssumption
    <2>4. UNCHANGED <<account, code, other, about, want>>
      OBVIOUS
    <2>5. ASSUME NEW q \in Requests, Pairing(q)', NEW b \in Pair(q)' \ want'[q]
          PROVE  acctLock'[b] = q \/ account'[b] = "erased"
      <3>1. b \in Pair(q) \ want[q] /\ Pairing(q)
        BY <2>1, <2>4, <2>5
      <3>2. Pair(q) \subseteq Accounts
        <4>1. actor[q] \in Accounts /\ other[q] \in Accounts
          BY <3>1 DEF PairLocks, StageOK, Pairing, TypeOK
        <4> QED BY <4>1 DEF Pair
      <3> QED BY <2>2, <2>3, <2>4, <3>1, <3>2 DEF PairLocks
    <2> QED BY <2>1, <2>4, <2>5 DEF PairLocks
  <1>5. CoupleLocks'
    BY DEF TypeOK, StageOK, CoupleLocks, HoldsCouple
  <1>6. MembersOK' /\ CouplesAreWhole' /\ CodeMakesOneCouple'
        /\ SamplesNeedMutualConsent'
    BY DEF TypeOK, MembersOK, CouplesAreWhole, CodeMakesOneCouple,
           SamplesNeedMutualConsent
  <1>7. ChecksStillHold'
    BY DEF TypeOK, ChecksStillHold, StillPairable, Pair, Eligible, Single
  <1> QED BY <1>1, <1>2, <1>3, <1>4, <1>5, <1>6, <1>7

\* The checks of redeem_code and confirm_pairing under both locks are what
\* ChecksStillHold asks for.
LEMMA CheckPairingInv ==
    ASSUME Inv, NEW r \in Requests, CheckPairing(r)
    PROVE  Inv'
  <1> USE DEF Inv
  <1>1. CASE Finish(r)
    BY <1>1, FinishInv DEF CheckPairing
  <1>2. CASE ~Finish(r)
    <2>0. /\ pc[r] = "lock" /\ want[r] = {} /\ op[r] \in {"redeem", "confirm"}
          /\ (op[r] = "redeem" /\ MayRedeem(r)) \/ (op[r] = "confirm" /\ MayConfirm(r))
          /\ pc' = [pc EXCEPT ![r] = "commit"]
          /\ UNCHANGED <<dataVars, lockVars, localVars>>
      BY <1>2 DEF CheckPairing, AccountsLocked, Go
    <2> USE DEF dataVars, lockVars, localVars
    <2>1. TypeOK' /\ StageOK' /\ CodeOK' /\ EraseLocks' /\ OriginUsed'
      BY <2>0 DEF TypeOK, Stages, StageOK, CodeOK, EraseLocks, OriginUsed
    <2>2. PairLocks'
      BY <2>0 DEF TypeOK, PairLocks, Pairing, Pair
    <2>3. CoupleLocks'
      BY <2>0 DEF TypeOK, CoupleLocks, HoldsCouple
    <2>4. MembersOK' /\ CouplesAreWhole' /\ CodeMakesOneCouple'
          /\ SamplesNeedMutualConsent'
      BY <2>0 DEF TypeOK, MembersOK, CouplesAreWhole, CodeMakesOneCouple,
                  SamplesNeedMutualConsent
    <2>5. ChecksStillHold'
      BY <2>0 DEF TypeOK, ChecksStillHold, StillPairable, Pair, Eligible, Single,
                  MayRedeem, MayConfirm
    <2> QED BY <2>1, <2>2, <2>3, <2>4, <2>5
  <1> QED BY <1>1, <1>2

\* The recheck of lock_active_relationship refuses, or goes on with the same
\* couple or with none.
LEMMA RecheckCoupleInv ==
    ASSUME Inv, NEW r \in Requests, RecheckCouple(r)
    PROVE  Inv'
  <1> USE DEF Inv
  <1>1. CASE Finish(r)
    BY <1>1, FinishInv DEF RecheckCouple
  <1>2. CASE ~Finish(r)
    <2>0. PICK c \in {mine[r], None}, stage \in {"couple", "self"} :
          /\ pc[r] = "lock" /\ op[r] \in {"unpair", "delete"}
          /\ IF stage = "self" THEN op[r] = "delete" /\ c = None ELSE c = mine[r]
          /\ pc' = [pc EXCEPT ![r] = stage]
          /\ mine' = [mine EXCEPT ![r] = c]
          /\ UNCHANGED <<dataVars, lockVars, op, actor, about, other, seen, want>>
      <3>1. mine = [mine EXCEPT ![r] = mine[r]]
        BY DEF TypeOK
      <3> QED
        BY <1>2, <3>1 DEF RecheckCouple, AccountsLocked, Go, localVars
    <2> USE DEF dataVars, lockVars
    <2>1. TypeOK' /\ StageOK' /\ CodeOK' /\ EraseLocks' /\ OriginUsed'
      BY <2>0 DEF TypeOK, Stages, StageOK, CodeOK, EraseLocks, OriginUsed
    <2>2. PairLocks'
      BY <2>0 DEF TypeOK, PairLocks, Pairing, Pair
    <2>3. CoupleLocks'
      BY <2>0 DEF TypeOK, CoupleLocks, HoldsCouple
    <2>4. MembersOK' /\ CouplesAreWhole' /\ CodeMakesOneCouple'
          /\ SamplesNeedMutualConsent'
      BY <2>0 DEF TypeOK, MembersOK, CouplesAreWhole, CodeMakesOneCouple,
                  SamplesNeedMutualConsent
    <2>5. ChecksStillHold'
      BY <2>0 DEF TypeOK, ChecksStillHold, StillPairable, Pair, Eligible, Single
    <2> QED BY <2>1, <2>2, <2>3, <2>4, <2>5
  <1> QED BY <1>1, <1>2

\* The couple is active under its lock, and its actor is one of the two.
LEMMA LockCoupleInv ==
    ASSUME Inv, NEW r \in Requests, LockCouple(r)
    PROVE  Inv'
  <1> USE DEF Inv
  <1>1. CASE Finish(r)
    BY <1>1, FinishInv DEF LockCouple
  <1>2. CASE ~Finish(r)
    <2>0. PICK stage \in {"self", "check", "commit"} :
          /\ pc[r] = "couple" /\ coupleLock[mine[r]] = None
          /\ couple[mine[r]] = "active"
          /\ stage = "self" => op[r] = "delete"
          /\ stage = "check" => op[r] = "upload"
          /\ stage = "commit" => op[r] \in {"unpair", "on", "off"}
          /\ coupleLock' = [coupleLock EXCEPT ![mine[r]] = r]
          /\ pc' = [pc EXCEPT ![r] = stage]
          /\ UNCHANGED <<dataVars, acctLock, localVars>>
      BY <1>2 DEF LockCouple, Go, StageOK
    <2>1. mine[r] \in Couples /\ actor[r] \in active[mine[r]]
      BY <2>0 DEF StageOK, TypeOK, CoupleLocks, CouplesAreWhole
    <2> USE DEF dataVars, localVars
    <2>2. TypeOK' /\ StageOK' /\ CodeOK' /\ EraseLocks' /\ OriginUsed'
      BY <2>0 DEF TypeOK, Stages, StageOK, CodeOK, EraseLocks, OriginUsed
    <2>3. PairLocks'
      <3>1. \A q \in Requests : /\ Pairing(q)' => Pairing(q)
                                /\ Pairing(q)' /\ pc'[q] = "commit" => pc[q] = "commit"
        BY <2>0 DEF TypeOK, Pairing
      <3> QED BY <2>0, <3>1 DEF PairLocks, Pair
    <2>4. CoupleLocks'
      BY <2>0, <2>1, RelationshipAssumption DEF TypeOK, CoupleLocks, HoldsCouple
    <2>5. MembersOK' /\ CouplesAreWhole' /\ CodeMakesOneCouple'
          /\ SamplesNeedMutualConsent'
      BY <2>0 DEF TypeOK, MembersOK, CouplesAreWhole, CodeMakesOneCouple,
                  SamplesNeedMutualConsent
    <2>6. ChecksStillHold'
      BY <2>0, <2>1 DEF TypeOK, ChecksStillHold, StillPairable, Pair, Eligible, Single
    <2> QED BY <2>2, <2>3, <2>4, <2>5, <2>6
  <1> QED BY <1>1, <1>2

\* Two of two consent: the consenting members are the members.
LEMMA CheckConsentInv ==
    ASSUME Inv, NEW r \in Requests, CheckConsent(r)
    PROVE  Inv'
  <1> USE DEF Inv
  <1>1. CASE Finish(r)
    BY <1>1, FinishInv DEF CheckConsent
  <1>2. CASE ~Finish(r)
    <2>0. /\ pc[r] = "check" /\ op[r] = "upload"
          /\ Cardinality(consent[mine[r]] \cap active[mine[r]]) = 2
          /\ pc' = [pc EXCEPT ![r] = "commit"]
          /\ UNCHANGED <<dataVars, lockVars, localVars>>
      BY <1>2 DEF CheckConsent, Go, StageOK
    <2>1. consent[mine[r]] = members[mine[r]]
      <3>1. mine[r] \in Couples /\ couple[mine[r]] = "active"
        BY <2>0 DEF CoupleLocks, HoldsCouple
      <3>2. /\ Cardinality(active[mine[r]]) = 2 /\ active[mine[r]] = members[mine[r]]
            /\ consent[mine[r]] \subseteq active[mine[r]]
        BY <3>1 DEF CouplesAreWhole
      <3>3. IsFiniteSet(active[mine[r]])
        BY <3>1, <3>2 DEF MembersOK
      <3>4. consent[mine[r]] \cap active[mine[r]] = consent[mine[r]]
        BY <3>2
      <3> QED BY <2>0, <3>2, <3>3, <3>4, FS_Subset
    <2> USE DEF dataVars, lockVars, localVars
    <2>2. TypeOK' /\ StageOK' /\ CodeOK' /\ EraseLocks' /\ OriginUsed'
      BY <2>0 DEF TypeOK, Stages, StageOK, CodeOK, EraseLocks, OriginUsed
    <2>3. PairLocks'
      BY <2>0 DEF TypeOK, PairLocks, Pairing, Pair
    <2>4. CoupleLocks'
      BY <2>0 DEF TypeOK, CoupleLocks, HoldsCouple
    <2>5. MembersOK' /\ CouplesAreWhole' /\ CodeMakesOneCouple'
          /\ SamplesNeedMutualConsent'
      BY <2>0, <2>1 DEF TypeOK, MembersOK, CouplesAreWhole, CodeMakesOneCouple,
                  SamplesNeedMutualConsent
    <2>6. ChecksStillHold'
      BY <2>0 DEF TypeOK, ChecksStillHold, StillPairable, Pair, Eligible, Single
    <2> QED BY <2>2, <2>3, <2>4, <2>5, <2>6
  <1> QED BY <1>1, <1>2

-----------------------------------------------------------------------------
(* Commits                                                                 *)

\* At the commit of a redemption or a confirmation the request holds the rows
\* of both accounts, and one of them is the creator of the code.
LEMMA PairHeld ==
    ASSUME Inv, NEW r \in Requests, pc[r] = "commit", op[r] \in {"redeem", "confirm"}
    PROVE  /\ about[r] \in Codes /\ actor[r] \in Accounts /\ other[r] \in Accounts
           /\ actor[r] # other[r]
           /\ \A a \in Pair(r) : acctLock[a] = r
           /\ code[about[r]].creator = IF op[r] = "redeem" THEN other[r] ELSE actor[r]
           /\ code[about[r]].status \in {"open", "expired"}
           /\ code[about[r]].partner = IF op[r] = "redeem" THEN None ELSE other[r]
           /\ \A a \in Pair(r) : Eligible(a) /\ Single(a)
  <1>1. /\ about[r] \in Codes /\ actor[r] \in Accounts /\ other[r] \in Accounts
        /\ actor[r] # other[r]
    BY DEF Inv, PairLocks, Pairing, StageOK
  <1>2. /\ \A a \in Pair(r) : Eligible(a) /\ Single(a)
        /\ code[about[r]].status \in {"open", "expired"}
        /\ code[about[r]].partner = IF op[r] = "redeem" THEN None ELSE other[r]
    BY DEF Inv, ChecksStillHold, StillPairable
  <1>3. account[actor[r]] # "erased" /\ account[other[r]] # "erased"
    BY <1>2 DEF Pair, Eligible
  <1>4. /\ \A a \in Pair(r) : acctLock[a] = r
        /\ code[about[r]].creator = IF op[r] = "redeem" THEN other[r] ELSE actor[r]
    BY <1>1, <1>3 DEF Inv, PairLocks, Pairing, Pair
  <1> QED BY <1>1, <1>2, <1>4

\* So two of them work on different codes and different accounts.
LEMMA PairsApart ==
    ASSUME Inv, NEW r \in Requests, pc[r] = "commit", op[r] \in {"redeem", "confirm"},
           NEW q \in Requests, pc[q] = "commit", op[q] \in {"redeem", "confirm"},
           r # q
    PROVE  about[r] # about[q] /\ Pair(r) \cap Pair(q) = {}
  <1>1. \A a \in Pair(r) : acctLock[a] = r
    BY PairHeld
  <1>2. \A a \in Pair(q) : acctLock[a] = q
    BY PairHeld
  <1>3. Pair(r) \cap Pair(q) = {}
    BY <1>1, <1>2
  <1>4. code[about[r]].creator \in Pair(r)
    BY PairHeld DEF Pair
  <1>5. code[about[q]].creator \in Pair(q)
    BY PairHeld DEF Pair
  <1> QED BY <1>3, <1>4, <1>5

\* The partner is reserved: another request that commits on the same code
\* would hold the row of the same creator.
LEMMA CommitRedeemInv ==
    ASSUME Inv, NEW r \in Requests, CommitRedeem(r)
    PROVE  Inv'
  <1> USE DEF Inv
  <1>0. /\ pc[r] = "commit" /\ op[r] = "redeem"
        /\ code' = [code EXCEPT ![about[r]].partner = actor[r]]
        /\ UNCHANGED <<account, couple, members, active, consent, samples, origin, wish>>
        /\ Finish(r)
    BY DEF CommitRedeem
  <1>h. /\ about[r] \in Codes /\ actor[r] \in Accounts
        /\ actor[r] # other[r] /\ code[about[r]].creator = other[r]
    BY <1>0, PairHeld
  <1>a. \A q \in Requests : q # r /\ pc[q] = "commit" /\ op[q] \in {"redeem", "confirm"}
           => about[q] # about[r]
    BY <1>0, PairsApart
  <1> USE DEF Finish, Go
  <1>1. TypeOK'
    <2>1. code' \in [Codes -> [status : {"absent", "open", "expired", "consumed"},
                               creator : Accounts \cup {None},
                               partner : Accounts \cup {None}]]
      <3> DEFINE row == [code[about[r]] EXCEPT !.partner = actor[r]]
      <3>0. code[about[r]] \in [status : {"absent", "open", "expired", "consumed"},
                                creator : Accounts \cup {None}, partner : Accounts \cup {None}]
        BY <1>h DEF TypeOK
      <3>1. row \in [status : {"absent", "open", "expired", "consumed"},
                     creator : Accounts \cup {None}, partner : Accounts \cup {None}]
        BY <1>h, <3>0
      <3>2. code' = [code EXCEPT ![about[r]] = row]
        BY <1>0
      <3> HIDE DEF row
      <3> QED BY <1>h, <3>1, <3>2 DEF TypeOK
    <2> QED BY <1>0, <2>1 DEF TypeOK, Stages
  <1>c. CodeOK'
    BY <1>0, <1>h DEF TypeOK, CodeOK
  <1>2. StageOK' /\ EraseLocks' /\ OriginUsed'
    BY <1>0 DEF TypeOK, StageOK, EraseLocks, OriginUsed
  <1>3. PairLocks'
    BY <1>0 DEF TypeOK, StageOK, PairLocks, Pairing, Pair
  <1>4. CoupleLocks'
    BY <1>0 DEF TypeOK, CoupleLocks, HoldsCouple
  <1>5. MembersOK' /\ CouplesAreWhole' /\ CodeMakesOneCouple'
        /\ SamplesNeedMutualConsent'
    BY <1>0 DEF TypeOK, MembersOK, CouplesAreWhole, CodeMakesOneCouple,
                SamplesNeedMutualConsent
  <1>6. ChecksStillHold'
    BY <1>0, <1>a DEF TypeOK, PairLocks, Pairing, ChecksStillHold, StillPairable,
                      Pair, Eligible, Single
  <1> QED BY <1>1, <1>c, <1>2, <1>3, <1>4, <1>5, <1>6

\* A couple of two different accounts has two members.
LEMMA PairIsTwo ==
    ASSUME NEW a, NEW b, a # b
    PROVE  IsFiniteSet({a, b}) /\ Cardinality({a, b}) = 2
  <1>1. IsFiniteSet({a}) /\ Cardinality({a}) = 1
    BY FS_Singleton
  <1>2. IsFiniteSet({a} \cup {b}) /\ Cardinality({a} \cup {b}) = 2
    BY <1>1, FS_AddElement
  <1>3. {a, b} = {a} \cup {b}
    OBVIOUS
  <1> QED BY <1>2, <1>3

CodeRows == [Codes -> [status : {"absent", "open", "expired", "consumed"},
                       creator : Accounts \cup {None},
                       partner : Accounts \cup {None}]]

\* Consuming a code keeps the shape of its row.
LEMMA Consumed ==
    ASSUME NEW rows \in CodeRows, NEW k
    PROVE  [rows EXCEPT ![k].status = "consumed"] \in CodeRows
  BY DEF CodeRows

\* A couple is made: its accounts were single and are held, so no other commit
\* is about them, and the code has made no couple before.
LEMMA CommitConfirmInv ==
    ASSUME Inv, NEW r \in Requests, CommitConfirm(r)
    PROVE  Inv'
  <1> USE DEF Inv
  <1>0. /\ pc[r] = "commit" /\ op[r] = "confirm"
        /\ code' = [code EXCEPT ![about[r]].status = "consumed"]
        /\ UNCHANGED <<account, consent, samples>>
        /\ Finish(r)
    BY DEF CommitConfirm
  <1>w. wish' \in [Accounts -> BOOLEAN]
    BY DEF CommitConfirm
  <1>c. PICK c \in Couples :
          /\ couple[c] = "absent"
          /\ couple' = [couple EXCEPT ![c] = "active"]
          /\ members' = [members EXCEPT ![c] = Pair(r)]
          /\ active' = [active EXCEPT ![c] = Pair(r)]
          /\ origin' = [origin EXCEPT ![c] = about[r]]
    BY DEF CommitConfirm
  <1>h. /\ about[r] \in Codes /\ actor[r] \in Accounts /\ other[r] \in Accounts
        /\ actor[r] # other[r] /\ code[about[r]].creator = actor[r]
        /\ code[about[r]].status \in {"open", "expired"}
        /\ \A a \in Pair(r) : Single(a)
    BY <1>0, PairHeld
  <1>a. \A q \in Requests : q # r /\ pc[q] = "commit" /\ op[q] \in {"redeem", "confirm"}
           => about[q] # about[r] /\ Pair(r) \cap Pair(q) = {}
    BY <1>0, PairsApart
  <1>p. /\ Pair(r) \subseteq Accounts /\ IsFiniteSet(Pair(r)) /\ Cardinality(Pair(r)) = 2
        /\ Pair(r) # {}
    BY <1>h, PairIsTwo DEF Pair
  <1>n. active[c] = {} /\ consent[c] = {} /\ samples[c] = {}
    BY <1>c DEF CouplesAreWhole
  <1> USE DEF Finish, Go
  <1>1. TypeOK'
    <2>1. code' \in CodeRows
      <3>1. code \in CodeRows
        BY DEF TypeOK, CodeRows
      <3> QED BY <1>0, <3>1, Consumed
    <2>2. /\ couple' \in [Couples -> {"absent", "active", "ended", "erased"}]
          /\ members' \in [Couples -> SUBSET Accounts]
          /\ active' \in [Couples -> SUBSET Accounts]
          /\ origin' \in [Couples -> Codes \cup {None}]
      BY <1>c, <1>h, <1>p DEF TypeOK
    <2> QED BY <1>0, <1>w, <2>1, <2>2 DEF TypeOK, Stages, CodeRows
  <1>2. StageOK' /\ CodeOK' /\ EraseLocks'
    BY <1>0, <1>h DEF TypeOK, StageOK, CodeOK, EraseLocks
  <1>3. OriginUsed'
    BY <1>0, <1>c, <1>h DEF TypeOK, OriginUsed
  <1>4. PairLocks'
    BY <1>0, <1>h DEF TypeOK, StageOK, PairLocks, Pairing, Pair
  <1>5. CoupleLocks'
    BY <1>0, <1>c DEF TypeOK, CoupleLocks, HoldsCouple
  <1>6. MembersOK'
    BY <1>0, <1>c, <1>p DEF TypeOK, MembersOK, CoupleLocks, HoldsCouple
  <1>7. CouplesAreWhole'
    <2>1. \A d \in Couples : d # c => active[d] \cap Pair(r) = {}
      BY <1>h DEF Single
    <2> QED BY <1>0, <1>c, <1>p, <1>n, <2>1 DEF TypeOK, CouplesAreWhole
  <1>8. CodeMakesOneCouple'
    <2>1. \A d \in Couples : origin[d] # about[r]
      BY <1>h, RelationshipAssumption DEF OriginUsed, TypeOK
    <2> QED BY <1>c, <2>1 DEF TypeOK, CodeMakesOneCouple
  <1>9. SamplesNeedMutualConsent'
    BY <1>0, <1>c, <1>n DEF TypeOK, SamplesNeedMutualConsent
  <1>10. ChecksStillHold'
    <2>1. ASSUME NEW q \in Requests, pc'[q] = "commit",
                 op'[q] \in {"redeem", "confirm"}
          PROVE  /\ q # r /\ pc[q] = "commit" /\ op[q] = op'[q] /\ about'[q] = about[q]
                 /\ Pair(q)' = Pair(q) /\ other'[q] = other[q]
                 /\ code'[about[q]] = code[about[q]]
                 /\ \A a \in Pair(q) : Eligible(a)' /\ Single(a)'
      <3>1. /\ q # r /\ pc[q] = "commit" /\ op[q] = op'[q] /\ about'[q] = about[q]
            /\ actor'[q] = actor[q] /\ other'[q] = other[q]
        BY <1>0, <2>1 DEF TypeOK
      <3>2. /\ \A a \in Pair(q) : Eligible(a) /\ Single(a)
            /\ about[q] \in Codes
        BY <2>1, <3>1, PairHeld
      <3>3. about[q] # about[r] /\ Pair(r) \cap Pair(q) = {}
        BY <1>a, <2>1, <3>1
      <3>4. \A a \in Pair(q) : Eligible(a)' /\ Single(a)'
        BY <1>0, <1>c, <3>2, <3>3 DEF Eligible, Single, TypeOK
      <3> QED BY <1>0, <3>1, <3>2, <3>3, <3>4 DEF Pair, TypeOK
    <2>2. ASSUME NEW q \in Requests, pc'[q] = "commit", op'[q] = "unpair"
          PROVE  couple'[mine'[q]] = "active" /\ actor'[q] \in active'[mine'[q]]
      BY <1>0, <1>c, <2>2 DEF TypeOK, ChecksStillHold, CoupleLocks, HoldsCouple
    <2> QED BY <2>1, <2>2 DEF ChecksStillHold, StillPairable
  <1> QED BY <1>1, <1>2, <1>3, <1>4, <1>5, <1>6, <1>7, <1>8, <1>9, <1>10

\* What a deletion of the account of r leaves true of the requests that pair:
\* they hold the rows of both accounts, and r does not.
LEMMA DeletedElsewhere ==
    ASSUME Inv, NEW r \in Requests, pc[r] \in {"self", "commit"}, op[r] # "redeem",
           op[r] # "confirm", actor[r] \in Accounts,
           \/ UNCHANGED account
           \/ /\ acctLock[actor[r]] \in {None, r} /\ account[actor[r]] = "active"
              /\ account' = [account EXCEPT ![actor[r]] = "deleted"]
    PROVE  /\ account' \in [Accounts -> {"active", "deleted", "erased"}]
           /\ \A a \in Accounts : account[a] = "erased" => account'[a] = "erased"
           /\ \A q \in Requests : pc[q] = "commit" /\ op[q] \in {"redeem", "confirm"}
                 => \A a \in Pair(q) : account'[a] = "active"
  <1>1. /\ account' \in [Accounts -> {"active", "deleted", "erased"}]
        /\ \A a \in Accounts : account[a] = "erased" => account'[a] = "erased"
    BY DEF Inv, TypeOK
  <1>2. ASSUME NEW q \in Requests, pc[q] = "commit", op[q] \in {"redeem", "confirm"},
               NEW a \in Pair(q)
        PROVE  account'[a] = "active"
    <2>1. q # r /\ a \in Accounts /\ acctLock[a] = q /\ account[a] = "active"
      BY <1>2, PairHeld DEF Pair, Eligible
    <2> QED BY <2>1, RelationshipAssumption DEF Inv, TypeOK
  <1> QED BY <1>1, <1>2

\* schedule_deletion without a couple.
LEMMA DeleteInv ==
    ASSUME Inv, NEW r \in Requests, pc[r] = "self", acctLock[actor[r]] \in {None, r},
           account[actor[r]] = "active",
           account' = [account EXCEPT ![actor[r]] = "deleted"],
           UNCHANGED <<code, couple, members, active, consent, samples, origin, wish>>,
           Finish(r)
    PROVE  Inv'
  <1> USE DEF Inv
  <1>d. /\ account' \in [Accounts -> {"active", "deleted", "erased"}]
        /\ \A a \in Accounts : account[a] = "erased" => account'[a] = "erased"
        /\ \A q \in Requests : pc[q] = "commit" /\ op[q] \in {"redeem", "confirm"}
              => \A a \in Pair(q) : account'[a] = "active"
    BY DeletedElsewhere DEF StageOK
  <1> USE DEF Finish, Go
  <1>1. TypeOK'
    BY <1>d DEF TypeOK, Stages
  <1>2. StageOK' /\ CodeOK' /\ EraseLocks' /\ OriginUsed'
    BY DEF TypeOK, StageOK, CodeOK, EraseLocks, OriginUsed
  <1>3. PairLocks'
    BY <1>d DEF TypeOK, StageOK, PairLocks, Pairing, Pair
  <1>4. CoupleLocks'
    BY DEF TypeOK, CoupleLocks, HoldsCouple
  <1>5. MembersOK' /\ CouplesAreWhole' /\ CodeMakesOneCouple'
        /\ SamplesNeedMutualConsent'
    BY DEF TypeOK, MembersOK, CouplesAreWhole, CodeMakesOneCouple,
           SamplesNeedMutualConsent
  <1>6. ChecksStillHold'
    BY <1>d DEF TypeOK, ChecksStillHold, StillPairable, Pair, Eligible, Single
  <1> QED BY <1>1, <1>2, <1>3, <1>4, <1>5, <1>6

\* end_active_relationship under the lock of the couple, alone (unpair) or with
\* the deletion of the account.
LEMMA EndCoupleInv ==
    ASSUME Inv, NEW r \in Requests, HoldsCouple(r), op[r] \in {"unpair", "delete"},
           EndCouple(mine[r]), Finish(r), UNCHANGED <<code, members, origin>>,
           \/ UNCHANGED account
           \/ /\ acctLock[actor[r]] \in {None, r} /\ account[actor[r]] = "active"
              /\ account' = [account EXCEPT ![actor[r]] = "deleted"]
    PROVE  Inv'
  <1> USE DEF Inv
  <1> DEFINE c == mine[r]
  <1>0. c \in Couples /\ coupleLock[c] = r /\ couple[c] = "active"
        /\ pc[r] \in {"self", "commit"} /\ actor[r] \in Accounts
    BY DEF CoupleLocks, HoldsCouple, StageOK
  <1>d. /\ account' \in [Accounts -> {"active", "deleted", "erased"}]
        /\ \A a \in Accounts : account[a] = "erased" => account'[a] = "erased"
        /\ \A q \in Requests : pc[q] = "commit" /\ op[q] \in {"redeem", "confirm"}
              => \A a \in Pair(q) : account'[a] = "active"
    BY <1>0, DeletedElsewhere
  <1>c. /\ couple' = [couple EXCEPT ![c] = "ended"]
        /\ active' = [active EXCEPT ![c] = {}]
        /\ consent' = [consent EXCEPT ![c] = {}]
        /\ samples' = [samples EXCEPT ![c] = {}]
    BY DEF EndCouple
  <1>w. wish' \in [Accounts -> BOOLEAN]
    BY DEF EndCouple
  <1>m. \A q \in Requests : q # r /\ HoldsCouple(q) => mine[q] # c
    BY <1>0 DEF CoupleLocks
  <1> HIDE DEF c
  <1> USE DEF Finish, Go
  <1>1. TypeOK'
    <2>1. /\ couple' \in [Couples -> {"absent", "active", "ended", "erased"}]
          /\ active' \in [Couples -> SUBSET Accounts]
          /\ consent' \in [Couples -> SUBSET Accounts]
          /\ samples' \in [Couples -> SUBSET Accounts]
      BY <1>c DEF TypeOK
    <2> QED BY <1>d, <1>w, <2>1 DEF TypeOK, Stages
  <1>2. StageOK' /\ CodeOK' /\ EraseLocks' /\ OriginUsed'
    BY DEF TypeOK, StageOK, CodeOK, EraseLocks, OriginUsed
  <1>3. PairLocks'
    BY <1>d DEF TypeOK, StageOK, PairLocks, Pairing, Pair
  <1>4. CoupleLocks'
    BY <1>c, <1>m DEF TypeOK, CoupleLocks, HoldsCouple
  <1>5. MembersOK'
    BY <1>c, <1>m DEF TypeOK, MembersOK, HoldsCouple
  <1>6. CouplesAreWhole' /\ CodeMakesOneCouple'
    BY <1>c DEF TypeOK, CouplesAreWhole, CodeMakesOneCouple
  <1>7. SamplesNeedMutualConsent'
    BY <1>c DEF TypeOK, SamplesNeedMutualConsent
  <1>8. ChecksStillHold'
    <2>1. \A q \in Requests : pc'[q] = "commit" =>
             /\ q # r /\ pc[q] = "commit" /\ op'[q] = op[q] /\ about'[q] = about[q]
             /\ actor'[q] = actor[q] /\ other'[q] = other[q] /\ mine'[q] = mine[q]
      BY DEF TypeOK
    <2>2. \A a \in Accounts : Single(a) => Single(a)'
      BY <1>c DEF TypeOK, Single
    <2>3. ASSUME NEW q \in Requests, pc'[q] = "commit",
                 op'[q] \in {"redeem", "confirm"}
          PROVE  \A a \in Pair(q)' : Eligible(a)' /\ Single(a)'
      <3>1. /\ pc[q] = "commit" /\ op[q] \in {"redeem", "confirm"}
            /\ Pair(q)' = Pair(q)
        BY <2>1, <2>3 DEF Pair
      <3>2. \A a \in Pair(q) : a \in Accounts /\ Single(a)
        BY <3>1, PairHeld DEF Pair
      <3> QED BY <1>d, <2>2, <3>1, <3>2 DEF Eligible
    <2>4. ASSUME NEW q \in Requests, pc'[q] = "commit", op'[q] = "unpair"
          PROVE  couple'[mine'[q]] = "active" /\ actor'[q] \in active'[mine'[q]]
      BY <1>c, <1>m, <2>1, <2>4 DEF TypeOK, ChecksStillHold, HoldsCouple
    <2> QED BY <2>1, <2>3, <2>4 DEF ChecksStillHold, StillPairable
  <1> QED BY <1>1, <1>2, <1>3, <1>4, <1>5, <1>6, <1>7, <1>8

\* unpair ends the couple it holds.
LEMMA CommitUnpairInv ==
    ASSUME Inv, NEW r \in Requests, CommitUnpair(r)
    PROVE  Inv'
  <1>1. HoldsCouple(r) /\ op[r] = "unpair"
    BY DEF CommitUnpair, HoldsCouple
  <1>2. EndCouple(mine[r]) /\ Finish(r) /\ UNCHANGED <<account, code, members, origin>>
    BY DEF CommitUnpair
  <1> QED BY <1>1, <1>2, EndCoupleInv

\* schedule_deletion finds the account deleted already, or deletes it with or
\* without its couple.
LEMMA CommitDeleteInv ==
    ASSUME Inv, NEW r \in Requests, CommitDelete(r)
    PROVE  Inv'
  <1>0. /\ pc[r] = "self" /\ acctLock[actor[r]] \in {None, r}
        /\ Finish(r) /\ UNCHANGED <<code, members, origin>>
    BY DEF CommitDelete
  <1>1. CASE account[actor[r]] # "active"
    BY <1>0, <1>1, FinishInv DEF CommitDelete, dataVars
  <1>2. CASE account[actor[r]] = "active"
    <2>1. account' = [account EXCEPT ![actor[r]] = "deleted"]
      BY <1>2 DEF CommitDelete
    <2>2. CASE mine[r] # None
      <3>1. HoldsCouple(r) /\ EndCouple(mine[r]) /\ op[r] = "delete"
        BY <1>0, <1>2, <2>2 DEF CommitDelete, HoldsCouple, Inv, StageOK
      <3> QED BY <1>0, <1>2, <2>1, <3>1, EndCoupleInv
    <2>3. CASE mine[r] = None
      BY <1>0, <1>2, <2>1, <2>3, DeleteInv DEF CommitDelete
    <2> QED BY <2>2, <2>3
  <1> QED BY <1>1, <1>2

\* Nobody who pairs, and no other request that reached a couple, is about the
\* account of an erasure.
LEMMA CommitEraseInv ==
    ASSUME Inv, NEW r \in Requests, CommitErase(r)
    PROVE  Inv'
  <1> USE DEF Inv
  <1> DEFINE gone == {c \in Couples : actor[r] \in members[c]}
  <1>0. /\ pc[r] = "commit" /\ op[r] = "erase" /\ actor[r] \in Accounts
        /\ \A c \in gone : coupleLock[c] = None
        /\ account' = [account EXCEPT ![actor[r]] = "erased"]
        /\ UNCHANGED origin
        /\ Finish(r)
    BY DEF CommitErase, StageOK
  <1>c. /\ couple' = [c \in Couples |-> IF c \in gone THEN "erased" ELSE couple[c]]
        /\ members' = [c \in Couples |-> IF c \in gone THEN {} ELSE members[c]]
        /\ active' = [c \in Couples |-> IF c \in gone THEN {} ELSE active[c]]
        /\ consent' = [c \in Couples |-> IF c \in gone THEN {} ELSE consent[c]]
        /\ samples' = [c \in Couples |-> IF c \in gone THEN {} ELSE samples[c]]
    BY DEF CommitErase
  <1>k. code' = [k \in Codes |->
          IF code[k].creator = actor[r]
          THEN [status |-> "expired", creator |-> None, partner |-> None]
          ELSE IF code[k].partner = actor[r] THEN [code[k] EXCEPT !.partner = None]
          ELSE code[k]]
    BY DEF CommitErase
  <1>w. wish' \in [Accounts -> BOOLEAN]
    BY DEF CommitErase
  <1>e. acctLock[actor[r]] = r
    BY <1>0 DEF EraseLocks
  <1>m. \A q \in Requests : HoldsCouple(q) => mine[q] \in Couples \ gone
    BY <1>0, RelationshipAssumption DEF CoupleLocks
  <1>p. \A q \in Requests : pc[q] = "commit" /\ op[q] \in {"redeem", "confirm"}
           => actor[r] \notin Pair(q)
    BY <1>0, <1>e, PairHeld
  <1> HIDE DEF gone
  <1>t. code' \in CodeRows
    <2>1. code \in CodeRows
      BY DEF TypeOK, CodeRows
    <2> QED BY <1>k, <2>1 DEF CodeRows
  <1> USE DEF Finish, Go
  <1>1. TypeOK'
    <2>1. /\ couple' \in [Couples -> {"absent", "active", "ended", "erased"}]
          /\ members' \in [Couples -> SUBSET Accounts]
          /\ active' \in [Couples -> SUBSET Accounts]
          /\ consent' \in [Couples -> SUBSET Accounts]
          /\ samples' \in [Couples -> SUBSET Accounts]
      BY <1>c DEF TypeOK
    <2> QED BY <1>0, <1>w, <1>t, <2>1 DEF TypeOK, Stages, CodeRows
  <1>2. StageOK' /\ EraseLocks'
    BY <1>0 DEF TypeOK, StageOK, EraseLocks
  <1>3. CodeOK'
    BY <1>0, <1>k DEF TypeOK, CodeOK
  <1>4. OriginUsed'
    BY <1>0, <1>k DEF TypeOK, OriginUsed
  <1>5. PairLocks'
    BY <1>0, <1>k DEF TypeOK, StageOK, PairLocks, Pairing, Pair
  <1>6. CoupleLocks'
    BY <1>0, <1>c, <1>m DEF TypeOK, CoupleLocks, HoldsCouple
  <1>7. MembersOK'
    BY <1>0, <1>c, <1>m, FS_EmptySet DEF TypeOK, MembersOK, HoldsCouple
  <1>8. CouplesAreWhole'
    BY <1>c DEF TypeOK, CouplesAreWhole
  <1>9. CodeMakesOneCouple' /\ SamplesNeedMutualConsent'
    BY <1>0, <1>c DEF TypeOK, CodeMakesOneCouple, SamplesNeedMutualConsent
  <1>10. ChecksStillHold'
    <2>1. ASSUME NEW q \in Requests, pc'[q] = "commit",
                 op'[q] \in {"redeem", "confirm"}
          PROVE  /\ pc[q] = "commit" /\ op[q] = op'[q] /\ about'[q] = about[q]
                 /\ Pair(q)' = Pair(q) /\ other'[q] = other[q]
                 /\ code'[about[q]] = code[about[q]]
                 /\ \A a \in Pair(q) : Eligible(a)' /\ Single(a)'
      <3>1. /\ pc[q] = "commit" /\ op[q] = op'[q] /\ about'[q] = about[q]
            /\ actor'[q] = actor[q] /\ other'[q] = other[q]
        BY <1>0, <2>1 DEF TypeOK
      <3>2. /\ \A a \in Pair(q) : Eligible(a) /\ Single(a)
            /\ about[q] \in Codes /\ actor[q] \in Accounts /\ other[q] \in Accounts
            /\ code[about[q]].creator \in Pair(q)
            /\ code[about[q]].partner \in Pair(q) \cup {None}
        BY <2>1, <3>1, PairHeld DEF Pair
      <3>3. actor[r] \notin Pair(q)
        BY <1>p, <2>1, <3>1
      <3>4. \A a \in Pair(q) : Eligible(a)' /\ Single(a)'
        BY <1>0, <1>c, <3>2, <3>3 DEF Eligible, Single, TypeOK, Pair
      <3>5. code'[about[q]] = code[about[q]]
        BY <1>0, <1>k, <3>2, <3>3, RelationshipAssumption
      <3> QED BY <3>1, <3>4, <3>5 DEF Pair
    <2>2. ASSUME NEW q \in Requests, pc'[q] = "commit", op'[q] = "unpair"
          PROVE  couple'[mine'[q]] = "active" /\ actor'[q] \in active'[mine'[q]]
      BY <1>0, <1>c, <1>m, <2>2 DEF TypeOK, ChecksStillHold, HoldsCouple
    <2> QED BY <2>1, <2>2 DEF ChecksStillHold, StillPairable
  <1> QED BY <1>1, <1>2, <1>3, <1>4, <1>5, <1>6, <1>7, <1>8, <1>9, <1>10

\* update_preferences changes the consent of a couple it holds, so no upload
\* of that couple is between its check and its insert.
LEMMA CommitPreferenceInv ==
    ASSUME Inv, NEW r \in Requests, CommitPreference(r)
    PROVE  Inv'
  <1> USE DEF Inv
  <1> DEFINE c == mine[r]
             a == actor[r]
  <1>0. /\ pc[r] = "commit" /\ op[r] \in {"on", "off"} /\ Finish(r)
        /\ UNCHANGED <<account, code, couple, members, active, origin>>
    BY DEF CommitPreference
  <1>c. /\ \/ consent' = consent
           \/ op[r] = "on" /\ consent' = [consent EXCEPT ![c] = @ \cup {a}]
           \/ op[r] = "off" /\ consent' = [consent EXCEPT ![c] = @ \ {a}]
        /\ samples' = IF op[r] = "on" THEN samples ELSE [samples EXCEPT ![c] = {}]
    BY <1>0 DEF CommitPreference
  <1>w. wish' \in [Accounts -> BOOLEAN]
    BY DEF CommitPreference, TypeOK
  <1>h. c \in Couples /\ couple[c] = "active" /\ coupleLock[c] = r /\ a \in active[c]
        /\ a \in members[c]
    BY <1>0, RelationshipAssumption DEF CoupleLocks, HoldsCouple, CouplesAreWhole
  <1>m. \A q \in Requests : q # r /\ HoldsCouple(q) => mine[q] # c
    BY <1>h DEF CoupleLocks
  <1> HIDE DEF c, a
  <1> USE DEF Finish, Go
  <1>1. TypeOK'
    <2>1. consent' \in [Couples -> SUBSET Accounts] /\ samples' \in [Couples -> SUBSET Accounts]
      BY <1>c, <1>h DEF TypeOK
    <2> QED BY <1>0, <1>w, <2>1 DEF TypeOK, Stages
  <1>2. StageOK' /\ CodeOK' /\ EraseLocks' /\ OriginUsed'
    BY <1>0 DEF TypeOK, StageOK, CodeOK, EraseLocks, OriginUsed
  <1>3. PairLocks'
    BY <1>0 DEF TypeOK, StageOK, PairLocks, Pairing, Pair
  <1>4. CoupleLocks'
    BY <1>0 DEF TypeOK, CoupleLocks, HoldsCouple
  <1>5. MembersOK'
    <2>1. \A d \in Couples : d # c => consent'[d] = consent[d]
      BY <1>c DEF TypeOK
    <2>2. ASSUME NEW q \in Requests, pc'[q] = "commit", op'[q] = "upload"
          PROVE  consent'[mine'[q]] = members'[mine'[q]]
      <3>1. q # r /\ pc[q] = "commit" /\ op[q] = "upload" /\ mine'[q] = mine[q]
        BY <1>0, <2>2 DEF TypeOK
      <3>2. mine[q] \in Couples /\ mine[q] # c
        BY <1>m, <3>1 DEF CoupleLocks, HoldsCouple
      <3> QED BY <1>0, <2>1, <3>1, <3>2 DEF MembersOK
    <2> QED BY <1>0, <2>2 DEF MembersOK
  <1>6. CouplesAreWhole'
    BY <1>0, <1>c, <1>h DEF TypeOK, CouplesAreWhole
  <1>7. CodeMakesOneCouple' /\ SamplesNeedMutualConsent'
    <2>1. ASSUME NEW d \in Couples, samples'[d] # {}
          PROVE  consent'[d] = members[d]
      <3>1. samples[d] # {} /\ (d = c => op[r] = "on")
        BY <1>c, <2>1 DEF TypeOK
      <3>2. consent[d] = members[d]
        BY <3>1 DEF SamplesNeedMutualConsent
      <3>3. CASE d # c
        BY <1>c, <3>2, <3>3 DEF TypeOK
      <3>4. CASE d = c
        <4>1. consent' = consent \/ consent' = [consent EXCEPT ![c] = @ \cup {a}]
          BY <1>c, <3>1, <3>4
        <4>2. consent'[c] = consent[c] \/ consent'[c] = consent[c] \cup {a}
          BY <1>h, <4>1 DEF TypeOK
        <4> QED BY <1>h, <3>2, <3>4, <4>2
      <3> QED BY <3>3, <3>4
    <2> QED BY <1>0, <2>1 DEF CodeMakesOneCouple, SamplesNeedMutualConsent
  <1>8. ChecksStillHold'
    BY <1>0 DEF TypeOK, ChecksStillHold, StillPairable, Pair, Eligible, Single
  <1> QED BY <1>1, <1>2, <1>3, <1>4, <1>5, <1>6, <1>7, <1>8

\* upload_locations_v2 inserts while both members consent.
LEMMA CommitUploadInv ==
    ASSUME Inv, NEW r \in Requests, CommitUpload(r)
    PROVE  Inv'
  <1> USE DEF Inv
  <1>0. /\ pc[r] = "commit" /\ op[r] = "upload" /\ Finish(r)
        /\ samples' = [samples EXCEPT ![mine[r]] = @ \cup {actor[r]}]
        /\ UNCHANGED <<account, code, couple, members, active, consent, origin, wish>>
    BY DEF CommitUpload
  <1>h. /\ mine[r] \in Couples /\ couple[mine[r]] = "active" /\ actor[r] \in Accounts
        /\ consent[mine[r]] = members[mine[r]]
    BY <1>0 DEF CoupleLocks, HoldsCouple, StageOK, MembersOK
  <1> USE DEF Finish, Go
  <1>1. TypeOK'
    BY <1>0, <1>h DEF TypeOK, Stages
  <1>2. StageOK' /\ CodeOK' /\ EraseLocks' /\ OriginUsed'
    BY <1>0 DEF TypeOK, StageOK, CodeOK, EraseLocks, OriginUsed
  <1>3. PairLocks'
    BY <1>0 DEF TypeOK, StageOK, PairLocks, Pairing, Pair
  <1>4. CoupleLocks'
    BY <1>0 DEF TypeOK, CoupleLocks, HoldsCouple
  <1>5. MembersOK' /\ CodeMakesOneCouple'
    BY <1>0 DEF TypeOK, MembersOK, CodeMakesOneCouple
  <1>6. CouplesAreWhole' /\ SamplesNeedMutualConsent'
    BY <1>0, <1>h DEF TypeOK, CouplesAreWhole, SamplesNeedMutualConsent
  <1>7. ChecksStillHold'
    BY <1>0 DEF TypeOK, ChecksStillHold, StillPairable, Pair, Eligible, Single
  <1> QED BY <1>1, <1>2, <1>3, <1>4, <1>5, <1>6, <1>7

-----------------------------------------------------------------------------
\* Every step keeps the invariant.
LEMMA NextInv == Inv /\ [Next]_vars => Inv'
  <1> SUFFICES ASSUME Inv, [Next]_vars PROVE Inv'
    OBVIOUS
  <1>1. CASE UNCHANGED vars
    <2> USE <1>1 DEF Inv, vars, dataVars, lockVars, localVars
    <2>1. TypeOK' /\ StageOK' /\ CodeOK' /\ EraseLocks' /\ OriginUsed' /\ MembersOK'
      BY DEF TypeOK, StageOK, CodeOK, EraseLocks, OriginUsed, MembersOK
    <2>2. PairLocks' /\ CoupleLocks'
      BY DEF PairLocks, Pairing, Pair, CoupleLocks, HoldsCouple
    <2>3. ChecksStillHold' /\ CouplesAreWhole' /\ CodeMakesOneCouple'
          /\ SamplesNeedMutualConsent'
      BY DEF ChecksStillHold, StillPairable, Pair, Eligible, Single,
             CouplesAreWhole, CodeMakesOneCouple, SamplesNeedMutualConsent
    <2> QED BY <2>1, <2>2, <2>3
  <1>2. CASE \E k \in Codes : Expire(k) \/ \E a \in Accounts : CreateCode(a, k)
    BY <1>2, ExpireInv, CreateCodeInv
  <1>3. CASE \E r \in Requests, a \in Accounts, k \in Codes :
                PreviewRedeem(r, a, k) \/ PreviewConfirm(r, a, k)
    BY <1>3, PreviewInv
  <1>4. CASE \E r \in Requests, a \in Accounts, o \in Operations :
                ReadCouple(r, o, a) \/ ReadMember(r, o, a)
    BY <1>4, ReadCoupleInv
  <1>5. CASE \E r \in Requests, a \in Accounts : BeginErase(r, a)
    BY <1>5, BeginEraseInv
  <1>6. ASSUME NEW r \in Requests, Step(r) PROVE Inv'
    <2>1. CASE AbortVictim(r)
      BY <2>1, FinishInv DEF AbortVictim
    <2> QED
      BY <1>6, <2>1, LockAccountInv, CheckPairingInv, CommitRedeemInv,
         CommitConfirmInv, ReadMembersInv, RecheckCoupleInv, LockCoupleInv,
         CommitUnpairInv, CommitDeleteInv, CommitEraseInv, CommitPreferenceInv,
         CheckConsentInv, CommitUploadInv
         DEF Step
  <1> QED BY <1>1, <1>2, <1>3, <1>4, <1>5, <1>6 DEF Next

\* The inductive invariant holds in every reachable state.
LEMMA InvHolds == Spec => []Inv
  BY InitInv, NextInv, PTL DEF Spec

\* The type invariant, for any number of accounts, codes, couples and requests.
THEOREM Types == Spec => []TypeOK
  BY InvHolds, PTL DEF Inv

\* What redeem_code, confirm_pairing and end_active_relationship checked still
\* holds when they commit, however their statements interleave with those of
\* other requests: lock_accounts covers every statement in between.
THEOREM CommitsAreSafe == Spec => []ChecksStillHold
  BY InvHolds, PTL DEF Inv

\* Nobody is ever in two couples, an active couple has two members, and an
\* ended one shares nothing.
THEOREM CouplesStayWhole == Spec => []CouplesAreWhole
  BY InvHolds, PTL DEF Inv

\* A pair code makes at most one couple.
THEOREM OneCouplePerCode == Spec => []CodeMakesOneCouple
  BY InvHolds, PTL DEF Inv

\* Raw locations are only kept while both members consent.
THEOREM SamplesAreConsented == Spec => []SamplesNeedMutualConsent
  BY InvHolds, PTL DEF Inv

-----------------------------------------------------------------------------
(* Who can wait for whom.                                                   *)

\* r has locked no account row.
NoRows(r) == \A a \in Accounts : acctLock[a] # r

\* Rows are locked in UUID order, and a row that is gone is not locked.
LockOrder ==
    /\ \A a \in Accounts : acctLock[a] # None => account[a] # "erased"
    /\ \A r \in Requests, a \in Accounts :
          pc[r] = "lock" /\ acctLock[a] = r => \A b \in want[r] : a < b
    /\ \A r \in Requests : pc[r] \in {"idle", "members"} => NoRows(r)

\* A couple's row is held by a request that has reached the couple.
CoupleHeld ==
    \A c \in Couples, r \in Requests :
        coupleLock[c] = r => HoldsCouple(r) /\ mine[r] = c

\* An unpairing or a deletion asks for the row of its actor among those of the
\* members, unless the couple had ended: then it locks nothing.
HoldsActor(r) ==
    /\ pc[r] = "lock" /\ op[r] \in {"unpair", "delete"} =>
          \/ actor[r] \in want[r] \/ acctLock[actor[r]] = r
          \/ account[actor[r]] = "erased"
          \/ want[r] = {} /\ NoRows(r) /\ couple[mine[r]] # "active"
    /\ /\ pc[r] \in {"couple", "self", "commit"}
       /\ op[r] \in {"unpair", "delete"} /\ mine[r] # None
       => acctLock[actor[r]] = r
    /\ pc[r] = "self" /\ mine[r] = None =>
          NoRows(r) \/ acctLock[actor[r]] = r \/ account[actor[r]] = "erased"

ActorHeld == \A r \in Requests : HoldsActor(r)

\* Nobody who is erased is in a couple.
ActiveLive == \A c \in Couples : \A a \in active[c] : account[a] # "erased"

WaitInv == LockOrder /\ CoupleHeld /\ ActorHeld /\ ActiveLive

LEMMA WaitInit == Init => WaitInv
BY RelationshipAssumption
   DEF Init, WaitInv, LockOrder, CoupleHeld, ActorHeld, HoldsActor, ActiveLive, NoRows

\* A request that does not move keeps what it holds while nobody takes its rows
\* and what is gone or ended stays so.
LEMMA StillHolds ==
    ASSUME Inv, NEW q \in Requests, HoldsActor(q),
           pc'[q] = pc[q], op'[q] = op[q], actor'[q] = actor[q], mine'[q] = mine[q],
           want'[q] = want[q],
           \A a \in Accounts : /\ acctLock[a] = q => acctLock'[a] = q
                               /\ account[a] = "erased" => account'[a] = "erased",
           NoRows(q) => NoRows(q)',
           \A c \in Couples : couple[c] \notin {"absent", "active"} => couple'[c] # "active"
    PROVE  HoldsActor(q)'
<1>1. pc[q] # "idle" => actor[q] \in Accounts
  BY DEF Inv, StageOK
<1>2. pc[q] = "lock" /\ op[q] \in {"unpair", "delete"}
      => mine[q] \in Couples /\ couple[mine[q]] # "absent"
  BY DEF Inv, StageOK, TypeOK, CoupleLocks
<1>3. pc'[q] = "lock" /\ op'[q] \in {"unpair", "delete"} =>
         \/ actor'[q] \in want'[q] \/ acctLock'[actor'[q]] = q
         \/ account'[actor'[q]] = "erased"
         \/ want'[q] = {} /\ NoRows(q)' /\ couple'[mine'[q]] # "active"
  BY <1>1, <1>2 DEF HoldsActor
<1>4. pc'[q] = "self" /\ mine'[q] = None =>
         NoRows(q)' \/ acctLock'[actor'[q]] = q \/ account'[actor'[q]] = "erased"
  BY <1>1 DEF HoldsActor
<1>5. /\ pc'[q] \in {"couple", "self", "commit"}
      /\ op'[q] \in {"unpair", "delete"} /\ mine'[q] # None
      => acctLock'[actor'[q]] = q
  BY <1>1 DEF HoldsActor
<1> QED BY <1>3, <1>4, <1>5 DEF HoldsActor

\* A request ends: its locks are free, and the commit erases only what it held.
LEMMA FinishWaits ==
    ASSUME Inv, WaitInv, NEW r \in Requests, Finish(r),
           \A a \in Accounts : account[a] = "erased" => account'[a] = "erased",
           \A a \in Accounts : account'[a] = "erased" => account[a] = "erased"
                                                      \/ acctLock[a] \in {None, r},
           \A c \in Couples : couple[c] \notin {"absent", "active"} => couple'[c] # "active",
           ActiveLive'
    PROVE  WaitInv'
<1> USE DEF Inv, WaitInv, Finish, Go
<1>1. /\ \A a \in Accounts : acctLock'[a] = IF acctLock[a] = r THEN None ELSE acctLock[a]
      /\ \A c \in Couples : coupleLock'[c] = IF coupleLock[c] = r THEN None ELSE coupleLock[c]
      /\ \A q \in Requests : q # r =>
            /\ pc'[q] = pc[q] /\ op'[q] = op[q] /\ actor'[q] = actor[q]
            /\ mine'[q] = mine[q] /\ want'[q] = want[q]
      /\ pc'[r] = "idle" /\ mine'[r] = None
      /\ \A a \in Accounts : acctLock'[a] # r
      /\ \A c \in Couples : coupleLock'[c] # r
  BY RelationshipAssumption DEF TypeOK
<1>2. LockOrder'
  BY <1>1, RelationshipAssumption DEF LockOrder, NoRows
<1>3. CoupleHeld'
  <2> SUFFICES ASSUME NEW c \in Couples, NEW q \in Requests, coupleLock'[c] = q
               PROVE  HoldsCouple(q)' /\ mine'[q] = c
    BY DEF CoupleHeld
  <2>1. q # r /\ coupleLock[c] = q
    BY <1>1, RelationshipAssumption
  <2>2. HoldsCouple(q) /\ mine[q] = c
    BY <2>1 DEF CoupleHeld
  <2> QED BY <1>1, <2>1, <2>2 DEF HoldsCouple
<1>4. ActorHeld'
  <2> SUFFICES ASSUME NEW q \in Requests
               PROVE  HoldsActor(q)'
    BY DEF ActorHeld
  <2>1. CASE q = r
    BY <1>1, <2>1 DEF HoldsActor
  <2>2. CASE q # r
    <3>1. NoRows(q) => NoRows(q)'
      BY <1>1, RelationshipAssumption DEF NoRows
    <3> QED BY <1>1, <2>2, <3>1, StillHolds DEF ActorHeld
  <2> QED BY <2>1, <2>2
<1> QED BY <1>2, <1>3, <1>4

\* A request that only moves on keeps its locks: what it must hold at the stage
\* it reaches is asked of it alone.
LEMMA MoveWaits ==
    ASSUME Inv, WaitInv, NEW r \in Requests,
           UNCHANGED <<account, couple, active, acctLock>>,
           \A q \in Requests \ {r} :
               /\ pc'[q] = pc[q] /\ op'[q] = op[q] /\ actor'[q] = actor[q]
               /\ mine'[q] = mine[q] /\ want'[q] = want[q],
           \A c \in Couples : coupleLock'[c] = coupleLock[c] \/ coupleLock'[c] = r,
           \A c \in Couples : coupleLock'[c] = r => HoldsCouple(r)' /\ mine'[r] = c,
           pc'[r] \in {"idle", "members"} => NoRows(r),
           pc'[r] = "lock" => \A a \in Accounts : acctLock[a] = r =>
                                 \A b \in want'[r] : a < b,
           pc'[r] = "lock" /\ op'[r] \in {"unpair", "delete"} =>
              \/ actor'[r] \in want'[r] \/ acctLock[actor'[r]] = r
              \/ account[actor'[r]] = "erased"
              \/ want'[r] = {} /\ NoRows(r) /\ couple[mine'[r]] # "active",
           /\ pc'[r] \in {"couple", "self", "commit"}
           /\ op'[r] \in {"unpair", "delete"} /\ mine'[r] # None
           => acctLock[actor'[r]] = r,
           pc'[r] = "self" /\ mine'[r] = None =>
              NoRows(r) \/ acctLock[actor'[r]] = r \/ account[actor'[r]] = "erased"
    PROVE  WaitInv'
<1> USE DEF WaitInv
<1>1. LockOrder'
  BY DEF LockOrder, NoRows
<1>2. CoupleHeld'
  <2> SUFFICES ASSUME NEW c \in Couples, NEW q \in Requests, coupleLock'[c] = q
               PROVE  HoldsCouple(q)' /\ mine'[q] = c
    BY DEF CoupleHeld
  <2>1. CASE q = r
    BY <2>1
  <2>2. CASE q # r
    <3>1. coupleLock[c] = q
      BY <2>2
    <3>2. HoldsCouple(q) /\ mine[q] = c
      BY <3>1 DEF CoupleHeld
    <3> QED BY <2>2, <3>2 DEF HoldsCouple
  <2> QED BY <2>1, <2>2
<1>3. ActorHeld'
  <2> SUFFICES ASSUME NEW q \in Requests
               PROVE  HoldsActor(q)'
    BY DEF ActorHeld
  <2>0. NoRows(q)' <=> NoRows(q)
    BY DEF NoRows
  <2>1. CASE q = r
    BY <2>0, <2>1 DEF HoldsActor
  <2>2. CASE q # r
    BY <2>0, <2>2, StillHolds DEF ActorHeld
  <2> QED BY <2>1, <2>2
<1>4. ActiveLive'
  BY DEF ActiveLive
<1> QED BY <1>1, <1>2, <1>3, <1>4

\* A request that has not begun, or has only read, has locked nothing.
LEMMA FreshHasNothing ==
    ASSUME Inv, WaitInv, NEW r \in Requests, pc[r] \in {"idle", "members"}
    PROVE  NoRows(r) /\ \A c \in Couples : coupleLock[c] # r
BY DEF WaitInv, LockOrder, CoupleHeld, HoldsCouple

\* The first reads of a request come before its first lock.
LEMMA PreviewWaits ==
    ASSUME Inv, WaitInv, NEW r \in Requests, NEW a \in Accounts, NEW k \in Codes,
           PreviewRedeem(r, a, k) \/ PreviewConfirm(r, a, k)
    PROVE  WaitInv'
<1>1. /\ pc[r] = "idle" /\ pc'[r] = "lock" /\ op'[r] \in {"redeem", "confirm"}
      /\ UNCHANGED <<account, couple, active, acctLock, coupleLock>>
      /\ \A q \in Requests \ {r} :
            /\ pc'[q] = pc[q] /\ op'[q] = op[q] /\ actor'[q] = actor[q]
            /\ mine'[q] = mine[q] /\ want'[q] = want[q]
  BY DEF PreviewRedeem, PreviewConfirm, Open, Go, Inv, TypeOK, dataVars, lockVars
<1>2. NoRows(r) /\ \A c \in Couples : coupleLock[c] # r
  BY <1>1, FreshHasNothing
<1> QED BY <1>1, <1>2, MoveWaits DEF NoRows

LEMMA ReadWaits ==
    ASSUME Inv, WaitInv, NEW r \in Requests, NEW a \in Accounts, NEW o \in Operations,
           ReadCouple(r, o, a) \/ ReadMember(r, o, a)
    PROVE  WaitInv'
<1>1. /\ pc[r] = "idle" /\ op'[r] = o
      /\ UNCHANGED <<account, couple, active, acctLock, coupleLock>>
      /\ \A q \in Requests \ {r} :
            /\ pc'[q] = pc[q] /\ op'[q] = op[q] /\ actor'[q] = actor[q]
            /\ mine'[q] = mine[q] /\ want'[q] = want[q]
  BY DEF ReadCouple, ReadMember, Open, Go, Inv, TypeOK, dataVars, lockVars
<1>2. \/ pc'[r] = "members"
      \/ pc'[r] = "self" /\ mine'[r] = None
      \/ pc'[r] = "couple" /\ op'[r] \in {"on", "off", "upload"}
  <2>1. mine[r] = None
    BY <1>1 DEF Inv, StageOK
  <2> QED BY <1>1, <2>1 DEF ReadCouple, ReadMember, Go, Inv, TypeOK
<1>3. NoRows(r) /\ \A c \in Couples : coupleLock[c] # r
  BY <1>1, FreshHasNothing
<1> QED BY <1>1, <1>2, <1>3, MoveWaits DEF NoRows

\* While the couple lasts its actor is among the members to be locked.
LEMMA ReadMembersWaits ==
    ASSUME Inv, WaitInv, NEW r \in Requests, ReadMembers(r)
    PROVE  WaitInv'
<1>1. /\ pc[r] = "members" /\ pc'[r] = "lock" /\ want'[r] = active[mine[r]]
      /\ UNCHANGED <<account, couple, active, acctLock, coupleLock>>
      /\ op'[r] = op[r] /\ actor'[r] = actor[r] /\ mine'[r] = mine[r]
      /\ \A q \in Requests \ {r} :
            /\ pc'[q] = pc[q] /\ op'[q] = op[q] /\ actor'[q] = actor[q]
            /\ mine'[q] = mine[q] /\ want'[q] = want[q]
  BY DEF ReadMembers, Go, Inv, TypeOK, dataVars, lockVars
<1>2. NoRows(r) /\ \A c \in Couples : coupleLock[c] # r
  BY <1>1, FreshHasNothing
<1>3. \/ actor[r] \in active[mine[r]]
      \/ active[mine[r]] = {} /\ couple[mine[r]] # "active"
  <2>1. mine[r] # None /\ mine[r] \in Couples
    BY <1>1 DEF Inv, StageOK, TypeOK
  <2>2. couple[mine[r]] = "active" => actor[r] \in members[mine[r]]
    BY <2>1 DEF Inv, CoupleLocks
  <2> QED BY <2>1, <2>2 DEF Inv, CouplesAreWhole
<1> QED BY <1>1, <1>2, <1>3, MoveWaits DEF NoRows

LEMMA CheckPairingWaits ==
    ASSUME Inv, WaitInv, NEW r \in Requests, CheckPairing(r), ~Finish(r)
    PROVE  WaitInv'
<1>1. /\ pc[r] = "lock" /\ pc'[r] = "commit" /\ op'[r] \in {"redeem", "confirm"}
      /\ UNCHANGED <<account, couple, active, acctLock, coupleLock>>
      /\ \A q \in Requests \ {r} :
            /\ pc'[q] = pc[q] /\ op'[q] = op[q] /\ actor'[q] = actor[q]
            /\ mine'[q] = mine[q] /\ want'[q] = want[q]
  BY DEF CheckPairing, AccountsLocked, Go, Inv, TypeOK, dataVars, lockVars, localVars
<1>2. \A c \in Couples : coupleLock[c] # r
  BY <1>1 DEF WaitInv, CoupleHeld, HoldsCouple
<1> QED BY <1>1, <1>2, MoveWaits

\* With all rows locked and the actor still a member, the actor's row is held:
\* nobody in a couple is gone.
LEMMA RecheckWaits ==
    ASSUME Inv, WaitInv, NEW r \in Requests, RecheckCouple(r), ~Finish(r)
    PROVE  WaitInv'
<1>1. /\ pc[r] = "lock" /\ op[r] \in {"unpair", "delete"} /\ want[r] = {}
      /\ op'[r] = op[r] /\ actor'[r] = actor[r]
      /\ UNCHANGED <<account, couple, active, acctLock, coupleLock>>
      /\ \A q \in Requests \ {r} :
            /\ pc'[q] = pc[q] /\ op'[q] = op[q] /\ actor'[q] = actor[q]
            /\ mine'[q] = mine[q] /\ want'[q] = want[q]
  BY DEF RecheckCouple, AccountsLocked, Go, Inv, TypeOK, dataVars, lockVars, localVars
<1>2. \/ pc'[r] = "couple" /\ actor[r] \in active[mine[r]]
      \/ pc'[r] = "self" /\ mine'[r] = None
  BY <1>1 DEF RecheckCouple, Go, Inv, TypeOK
<1>3. \A c \in Couples : coupleLock[c] # r
  BY <1>1 DEF WaitInv, CoupleHeld, HoldsCouple
<1>4. \/ acctLock[actor[r]] = r \/ account[actor[r]] = "erased"
      \/ NoRows(r) /\ couple[mine[r]] # "active"
  BY <1>1 DEF WaitInv, ActorHeld, HoldsActor
<1>5. actor[r] \in active[mine[r]] => acctLock[actor[r]] = r
  <2>1. mine[r] \in Couples
    BY <1>1 DEF Inv, StageOK, TypeOK
  <2> QED BY <1>4, <2>1 DEF WaitInv, ActiveLive, Inv, CouplesAreWhole
<1> QED BY <1>1, <1>2, <1>3, <1>4, <1>5, MoveWaits

LEMMA LockCoupleWaits ==
    ASSUME Inv, WaitInv, NEW r \in Requests, LockCouple(r), ~Finish(r)
    PROVE  WaitInv'
<1>1. /\ pc[r] = "couple" /\ mine[r] \in Couples
      /\ op'[r] = op[r] /\ actor'[r] = actor[r] /\ mine'[r] = mine[r]
      /\ coupleLock' = [coupleLock EXCEPT ![mine[r]] = r]
      /\ UNCHANGED <<account, couple, active, acctLock>>
      /\ \A q \in Requests \ {r} :
            /\ pc'[q] = pc[q] /\ op'[q] = op[q] /\ actor'[q] = actor[q]
            /\ mine'[q] = mine[q] /\ want'[q] = want[q]
  BY DEF LockCouple, Go, Inv, TypeOK, StageOK, dataVars, localVars
<1>2. \/ pc'[r] = "self" /\ mine[r] # None /\ op[r] = "delete"
      \/ pc'[r] = "check" /\ op[r] = "upload"
      \/ pc'[r] = "commit" /\ op[r] \in {"unpair", "on", "off"}
  BY <1>1, RelationshipAssumption DEF LockCouple, Go, Inv, TypeOK, StageOK
<1>3. \A c \in Couples : coupleLock[c] # r
  BY <1>1 DEF WaitInv, CoupleHeld, HoldsCouple
<1>4. op[r] \in {"unpair", "delete"} => acctLock[actor[r]] = r
  BY <1>1, RelationshipAssumption DEF WaitInv, ActorHeld, HoldsActor
<1>5. \A c \in Couples : coupleLock'[c] = coupleLock[c] \/ c = mine[r]
  BY <1>1 DEF Inv, TypeOK
<1>6. coupleLock'[mine[r]] = r /\ HoldsCouple(r)'
  BY <1>1, <1>2 DEF Inv, TypeOK, HoldsCouple
<1> QED BY <1>1, <1>2, <1>3, <1>4, <1>5, <1>6, MoveWaits

LEMMA CheckConsentWaits ==
    ASSUME Inv, WaitInv, NEW r \in Requests, CheckConsent(r), ~Finish(r)
    PROVE  WaitInv'
<1>1. /\ pc[r] = "check" /\ pc'[r] = "commit" /\ op'[r] = "upload"
      /\ mine'[r] = mine[r]
      /\ UNCHANGED <<account, couple, active, acctLock, coupleLock>>
      /\ \A q \in Requests \ {r} :
            /\ pc'[q] = pc[q] /\ op'[q] = op[q] /\ actor'[q] = actor[q]
            /\ mine'[q] = mine[q] /\ want'[q] = want[q]
  BY DEF CheckConsent, Go, Inv, TypeOK, StageOK, dataVars, lockVars, localVars
<1>2. \A c \in Couples : coupleLock[c] = r => mine[r] = c
  BY DEF WaitInv, CoupleHeld
<1>3. HoldsCouple(r)'
  BY <1>1 DEF HoldsCouple
<1> QED BY <1>1, <1>2, <1>3, MoveWaits

-----------------------------------------------------------------------------
(* Locks taken and locks freed                                              *)

\* A set of numbers has a least one.
LEMMA SomeLeast ==
    ASSUME NEW S \in SUBSET Nat, S # {}
    PROVE  \E x \in S : \A y \in S : x <= y
<1>1. IsWellFoundedOn(OpToRel(<, Nat), Nat)
  BY NatLessThanWellFounded
<1>2. PICK x \in S : \A y \in S : ~(<<y, x>> \in OpToRel(<, Nat))
  BY <1>1, WFMin
<1>3. \A y \in S : <<y, x>> \in OpToRel(<, Nat) <=> y < x
  BY <1>1, Zenon DEF OpToRel
<1>4. \A y \in S : ~(y < x)
  BY <1>2, <1>3, Zenon
<1> QED BY <1>4

\* The next row is the first of those still wanted.
LEMMA NextIsLeast ==
    ASSUME Inv, NEW r \in Requests, want[r] # {}
    PROVE  /\ NextLock(r) \in want[r] /\ NextLock(r) \in Accounts /\ NextLock(r) \in Nat
           /\ \A b \in want[r] : NextLock(r) <= b
<1>1. want[r] \in SUBSET Nat /\ want[r] \in SUBSET Accounts
  BY RelationshipAssumption DEF Inv, TypeOK
<1>2. \E a \in want[r] : \A b \in want[r] : a <= b
  BY <1>1, SomeLeast
<1> QED BY <1>1, <1>2 DEF NextLock

\* The next row in order is taken; one that is gone is passed over.
LEMMA LockAccountWaits ==
    ASSUME Inv, WaitInv, NEW r \in Requests, LockAccount(r)
    PROVE  WaitInv'
<1> USE DEF WaitInv
<1>0. PICK a : a = NextLock(r)
  OBVIOUS
<1>1. /\ pc[r] = "lock" /\ acctLock[a] = None
      /\ acctLock' = IF account[a] = "erased" THEN acctLock
                     ELSE [acctLock EXCEPT ![a] = r]
      /\ want' = [want EXCEPT ![r] = @ \ {a}]
      /\ UNCHANGED <<account, couple, active, coupleLock, pc, op, actor, mine>>
  BY <1>0 DEF LockAccount, dataVars
<1>2. a \in Accounts /\ a \in Nat /\ a \in want[r] /\ \A b \in want[r] : a <= b
  BY <1>0, NextIsLeast DEF LockAccount
<1>3. /\ \A q \in Requests : want'[q] = IF q = r THEN want[r] \ {a} ELSE want[q]
      /\ \A b \in Accounts : b # a => acctLock'[b] = acctLock[b]
      /\ acctLock'[a] = IF account[a] = "erased" THEN None ELSE r
      /\ want[r] \subseteq Accounts /\ Accounts \subseteq Nat
  BY <1>1, <1>2, RelationshipAssumption DEF Inv, TypeOK
<1>4. LockOrder'
  <2>1. \A b \in Accounts : acctLock'[b] # None => account'[b] # "erased"
    BY <1>1, <1>3 DEF LockOrder
  <2>2. ASSUME NEW q \in Requests, NEW b \in Accounts, pc'[q] = "lock",
               acctLock'[b] = q, NEW d \in want'[q]
        PROVE  b < d
    <3>1. CASE b = a
      <4>1. q = r
        BY <1>3, <2>2, <3>1, RelationshipAssumption
      <4>2. d \in want[r] /\ d # a /\ a <= d /\ d \in Nat
        BY <1>2, <1>3, <2>2, <4>1
      <4> QED BY <1>2, <3>1, <4>2
    <3>2. CASE b # a
      <4>1. acctLock[b] = q /\ pc[q] = "lock" /\ d \in want[q]
        BY <1>1, <1>3, <2>2, <3>2
      <4> QED BY <4>1 DEF LockOrder
    <3> QED BY <3>1, <3>2
  <2>3. ASSUME NEW q \in Requests, pc'[q] \in {"idle", "members"} PROVE NoRows(q)'
    <3>1. q # r /\ pc[q] \in {"idle", "members"}
      BY <1>1, <2>3
    <3> QED BY <1>3, <3>1, RelationshipAssumption DEF LockOrder, NoRows
  <2> QED BY <2>1, <2>2, <2>3 DEF LockOrder
<1>5. CoupleHeld' /\ ActiveLive'
  BY <1>1 DEF CoupleHeld, HoldsCouple, ActiveLive
<1>6. ActorHeld'
  <2> SUFFICES ASSUME NEW q \in Requests
               PROVE  HoldsActor(q)'
    BY DEF ActorHeld
  <2>1. \A b \in Accounts : acctLock[b] = q => acctLock'[b] = q
    BY <1>1, <1>3, RelationshipAssumption
  <2>2. HoldsActor(q)
    BY DEF ActorHeld
  <2>3. CASE q = r
    <3>1. actor[r] \in want[r] => actor[r] \in want'[r] \/ actor[r] = a
      BY <1>3
    <3>2. actor[r] \in Accounts
      BY <1>1 DEF Inv, StageOK
    <3> QED BY <1>1, <1>2, <1>3, <2>1, <2>2, <2>3, <3>1, <3>2 DEF HoldsActor
  <2>4. CASE q # r
    <3>1. NoRows(q) => NoRows(q)'
      BY <1>3, <2>4, RelationshipAssumption DEF NoRows
    <3> QED BY <1>1, <1>3, <2>1, <2>2, <2>4, <3>1, StillHolds
  <2> QED BY <2>3, <2>4
<1> QED BY <1>4, <1>5, <1>6

\* The erasure locks one row, of an account that is not gone yet.
LEMMA BeginEraseWaits ==
    ASSUME Inv, WaitInv, NEW r \in Requests, NEW a \in Accounts, BeginErase(r, a)
    PROVE  WaitInv'
<1> USE DEF WaitInv
<1>1. /\ pc[r] = "idle" /\ account[a] = "deleted" /\ acctLock[a] = None
      /\ pc'[r] = "commit" /\ op'[r] = "erase"
      /\ UNCHANGED <<account, couple, active, coupleLock, mine, want>>
      /\ \A q \in Requests \ {r} :
            pc'[q] = pc[q] /\ op'[q] = op[q] /\ actor'[q] = actor[q]
      /\ \A b \in Accounts : acctLock'[b] = IF b = a THEN r ELSE acctLock[b]
  BY DEF BeginErase, Go, Inv, TypeOK, dataVars
<1>2. NoRows(r) /\ \A c \in Couples : coupleLock[c] # r
  BY <1>1, FreshHasNothing
<1>3. LockOrder'
  BY <1>1, RelationshipAssumption DEF LockOrder, NoRows
<1>4. CoupleHeld' /\ ActiveLive'
  BY <1>1, <1>2 DEF CoupleHeld, HoldsCouple, ActiveLive
<1>5. ActorHeld'
  <2> SUFFICES ASSUME NEW q \in Requests, q # r
               PROVE  HoldsActor(q)'
    BY <1>1 DEF ActorHeld, HoldsActor
  <2>1. \A b \in Accounts : acctLock[b] = q => acctLock'[b] = q
    BY <1>1, RelationshipAssumption
  <2>2. NoRows(q) => NoRows(q)'
    BY <1>1 DEF NoRows
  <2> QED BY <1>1, <2>1, <2>2, StillHolds DEF ActorHeld
<1> QED BY <1>3, <1>4, <1>5

\* Nothing about the rows changes but what the request wrote and its locks.
LEMMA QuietFinishWaits ==
    ASSUME Inv, WaitInv, NEW r \in Requests, Finish(r),
           UNCHANGED <<account, couple, active>>
    PROVE  WaitInv'
<1>1. ActiveLive'
  BY DEF WaitInv, ActiveLive
<1> QED BY <1>1, FinishWaits

\* The two of a new couple are active.
LEMMA CommitConfirmWaits ==
    ASSUME Inv, WaitInv, NEW r \in Requests, CommitConfirm(r)
    PROVE  WaitInv'
<1>1. /\ pc[r] = "commit" /\ op[r] = "confirm" /\ Finish(r) /\ UNCHANGED account
  BY DEF CommitConfirm
<1>2. PICK c \in Couples : /\ couple[c] = "absent"
                           /\ couple' = [couple EXCEPT ![c] = "active"]
                           /\ active' = [active EXCEPT ![c] = Pair(r)]
  BY DEF CommitConfirm
<1>3. \A a \in Pair(r) : account[a] = "active"
  BY <1>1, PairHeld DEF Eligible
<1>4. ActiveLive'
  BY <1>1, <1>2, <1>3 DEF WaitInv, ActiveLive, Inv, TypeOK
<1>5. \A d \in Couples : couple[d] \notin {"absent", "active"} => couple'[d] # "active"
  BY <1>2 DEF Inv, TypeOK
<1> QED BY <1>1, <1>4, <1>5, FinishWaits

\* A couple ends; an account that was active is deleted.
LEMMA CommitEndWaits ==
    ASSUME Inv, WaitInv, NEW r \in Requests, CommitUnpair(r) \/ CommitDelete(r)
    PROVE  WaitInv'
<1>1. Finish(r)
  BY DEF CommitUnpair, CommitDelete
<1>2. \A a \in Accounts : account[a] = "erased" <=> account'[a] = "erased"
  BY DEF CommitUnpair, CommitDelete, Inv, TypeOK
<1>3. \A c \in Couples : /\ couple[c] \notin {"absent", "active"} => couple'[c] # "active"
                         /\ active'[c] \subseteq active[c]
  BY DEF CommitUnpair, CommitDelete, EndCouple, Inv, TypeOK
<1>4. ActiveLive'
  BY <1>2, <1>3 DEF WaitInv, ActiveLive, Inv, TypeOK
<1> QED BY <1>1, <1>2, <1>3, <1>4, FinishWaits

\* Only the row the request holds is gone, and so is every couple it was in.
LEMMA CommitEraseWaits ==
    ASSUME Inv, WaitInv, NEW r \in Requests, CommitErase(r)
    PROVE  WaitInv'
<1>1. /\ pc[r] = "commit" /\ op[r] = "erase" /\ Finish(r)
      /\ account' = [account EXCEPT ![actor[r]] = "erased"]
      /\ \A c \in Couples :
            /\ couple'[c] = IF actor[r] \in members[c] THEN "erased" ELSE couple[c]
            /\ active'[c] = IF actor[r] \in members[c] THEN {} ELSE active[c]
  BY DEF CommitErase
<1>2. actor[r] \in Accounts /\ acctLock[actor[r]] = r
  BY <1>1 DEF Inv, StageOK, EraseLocks
<1>3. \A a \in Accounts : account'[a] = IF a = actor[r] THEN "erased" ELSE account[a]
  BY <1>1, <1>2 DEF Inv, TypeOK
<1>4. \A c \in Couples : actor[r] \notin active'[c] /\ active'[c] \subseteq active[c]
  BY <1>1 DEF Inv, CouplesAreWhole
<1>5. ActiveLive'
  BY <1>3, <1>4 DEF WaitInv, ActiveLive, Inv, TypeOK
<1> QED BY <1>1, <1>2, <1>3, <1>5, FinishWaits

\* Every step keeps who waits for whom in order.
LEMMA NextWaits == Inv /\ WaitInv /\ [Next]_vars => WaitInv'
<1> SUFFICES ASSUME Inv, WaitInv, [Next]_vars PROVE WaitInv'
  OBVIOUS
<1>1. ASSUME UNCHANGED <<account, couple, active, acctLock, coupleLock, pc, op,
                         actor, mine, want>>
      PROVE  WaitInv'
  BY <1>1 DEF WaitInv, LockOrder, CoupleHeld, HoldsCouple, ActorHeld, HoldsActor,
              ActiveLive, NoRows
<1>2. CASE UNCHANGED vars
  BY <1>1, <1>2 DEF vars, dataVars, lockVars, localVars
<1>3. CASE \E k \in Codes : Expire(k) \/ \E a \in Accounts : CreateCode(a, k)
  BY <1>1, <1>3 DEF Expire, CreateCode, lockVars, localVars
<1>4. CASE \E r \in Requests, a \in Accounts, k \in Codes :
              PreviewRedeem(r, a, k) \/ PreviewConfirm(r, a, k)
  BY <1>4, PreviewWaits
<1>5. CASE \E r \in Requests, a \in Accounts, o \in Operations :
              ReadCouple(r, o, a) \/ ReadMember(r, o, a)
  BY <1>5, ReadWaits
<1>6. CASE \E r \in Requests, a \in Accounts : BeginErase(r, a)
  BY <1>6, BeginEraseWaits
<1>7. ASSUME NEW r \in Requests, Step(r) PROVE WaitInv'
  <2>1. CASE /\ Finish(r)
             /\ \/ CheckPairing(r) \/ RecheckCouple(r) \/ LockCouple(r)
                \/ CheckConsent(r) \/ AbortVictim(r) \/ CommitRedeem(r)
                \/ CommitPreference(r) \/ CommitUpload(r)
    <3>1. UNCHANGED <<account, couple, active>>
      BY <2>1 DEF CheckPairing, RecheckCouple, LockCouple, CheckConsent, AbortVictim,
                  CommitRedeem, CommitPreference, CommitUpload, dataVars
    <3> QED BY <2>1, <3>1, QuietFinishWaits
  <2>2. CASE AbortVictim(r) \/ CommitRedeem(r) \/ CommitPreference(r) \/ CommitUpload(r)
    BY <2>1, <2>2 DEF AbortVictim, CommitRedeem, CommitPreference, CommitUpload
  <2> QED
    BY <1>7, <2>1, <2>2, LockAccountWaits, CheckPairingWaits, ReadMembersWaits,
       RecheckWaits, LockCoupleWaits, CheckConsentWaits, CommitConfirmWaits,
       CommitEndWaits, CommitEraseWaits
       DEF Step
<1> QED BY <1>2, <1>3, <1>4, <1>5, <1>6, <1>7 DEF Next

LEMMA WaitsHold == Spec => [](Inv /\ WaitInv)
BY InitInv, NextInv, WaitInit, NextWaits, PTL DEF Spec

-----------------------------------------------------------------------------
(* No circle                                                                *)

\* Of finitely many numbers one is the greatest.
LEMMA SomeGreatest ==
    ASSUME NEW S, IsFiniteSet(S), S # {}, NEW f \in [S -> Nat]
    PROVE  \E x \in S : \A y \in S : f[y] <= f[x]
<1> SUFFICES ASSUME \A x \in S : \E y \in S : f[y] > f[x] PROVE FALSE
  OBVIOUS
<1> DEFINE NoGreatest(T) == T # {} /\ \A x \in T : \E y \in T : f[y] > f[x]
           sizes == {n \in Nat : \E T \in SUBSET S : NoGreatest(T) /\ Cardinality(T) = n}
<1>1. Cardinality(S) \in sizes
  BY FS_CardinalityType
<1>2. PICK n \in sizes : \A m \in sizes : n <= m
  <2>1. sizes \in SUBSET Nat /\ sizes # {}
    BY <1>1
  <2> HIDE DEF sizes
  <2> QED BY <2>1, SomeLeast
<1>3. PICK T \in SUBSET S : NoGreatest(T) /\ Cardinality(T) = n
  BY <1>2
<1>4. PICK x \in T : TRUE
  BY <1>3
<1>5. PICK z \in T : f[z] > f[x]
  BY <1>3
<1>6. NoGreatest(T \ {x})
  <2>1. T \ {x} # {}
    BY <1>4, <1>5
  <2>2. ASSUME NEW u \in T \ {x} PROVE \E y \in T \ {x} : f[y] > f[u]
    <3>1. PICK y \in T : f[y] > f[u]
      BY <1>3
    <3>2. CASE y # x
      BY <3>1, <3>2
    <3>3. CASE y = x
      <4>1. f[z] > f[u] /\ z # x
        BY <1>5, <3>1, <3>3
      <4> QED BY <4>1
    <3> QED BY <3>2, <3>3
  <2> QED BY <2>1, <2>2
<1>7. Cardinality(T \ {x}) = n - 1 /\ n \in Nat /\ n - 1 \in Nat
  <2>1. IsFiniteSet(T)
    BY FS_Subset
  <2>2. IsFiniteSet(T \ {x}) /\ Cardinality(T \ {x}) = Cardinality(T) - 1
    BY <1>4, <2>1, FS_RemoveElement
  <2> QED BY <1>2, <1>3, <2>2, FS_CardinalityType
<1>8. n - 1 \in sizes
  BY <1>6, <1>7
<1> QED BY <1>2, <1>7, <1>8

\* Who holds a couple's row waits for nobody, uploads apart: the account rows
\* were locked before.
LEMMA HolderGoesOn ==
    ASSUME Inv, WaitInv, NEW c \in Couples, NEW q \in Requests, coupleLock[c] = q,
           op[q] # "upload", NEW p \in Requests, WaitsFor(q, p)
    PROVE  FALSE
<1>1. HoldsCouple(q) /\ mine[q] = c
  BY DEF WaitInv, CoupleHeld
<1>2. pc[q] \in {"check", "self", "commit"} /\ (pc[q] = "self" => mine[q] # None)
      /\ op[q] # "erase"
  BY <1>1 DEF HoldsCouple, Inv, StageOK
<1>3. pc[q] = "self" => acctLock[actor[q]] = q
  BY <1>2 DEF WaitInv, ActorHeld, HoldsActor, Inv, StageOK
<1> QED BY <1>2, <1>3 DEF WaitsFor

\* Who holds an account row and waits is waiting for a later one.
LEMMA HolderWaitsForRow ==
    ASSUME Inv, WaitInv, NEW a \in Accounts, NEW q \in Requests, acctLock[a] = q,
           op[q] # "upload", NEW p \in Requests, WaitsFor(q, p), op[p] # "upload",
           NEW o \in Requests, WaitsFor(p, o)
    PROVE  /\ pc[q] = "lock" /\ want[q] # {} /\ acctLock[NextLock(q)] = p
           /\ a < NextLock(q)
<1>1. \A c \in Couples : coupleLock[c] # p
  BY HolderGoesOn
<1>2. pc[q] = "self" => FALSE
  <2> SUFFICES ASSUME pc[q] = "self" PROVE FALSE
    OBVIOUS
  <2>1. acctLock[actor[q]] = p /\ p # q
    BY DEF WaitsFor
  <2>2. actor[q] \in Accounts /\ op[q] = "delete"
    BY DEF Inv, StageOK
  <2>3. account[actor[q]] # "erased"
    BY <2>1, <2>2, RelationshipAssumption DEF WaitInv, LockOrder
  <2> QED BY <2>1, <2>2, <2>3 DEF WaitInv, ActorHeld, HoldsActor, NoRows
<1>3. pc[q] # "couple"
  <2>1. pc[q] = "couple" => mine[q] \in Couples /\ coupleLock[mine[q]] = p
    BY DEF WaitsFor, Inv, StageOK, TypeOK
  <2> QED BY <1>1, <2>1
<1>4. pc[q] = "lock" /\ want[q] # {} /\ acctLock[NextLock(q)] = p
  BY <1>1, <1>2, <1>3 DEF WaitsFor
<1>5. NextLock(q) \in want[q]
  BY <1>4, NextIsLeast
<1> QED BY <1>4, <1>5 DEF WaitInv, LockOrder

\* The requests of a deadlock without an upload all wait for account rows, each
\* for a later one than those it holds: among finitely many, the one that waits
\* for the last row waits for a request that does not wait.
LEMMA NoCircle == Inv /\ WaitInv => NoLockCycle
<1> SUFFICES ASSUME Inv, WaitInv, NEW S \in SUBSET Requests, Deadlocked(S),
                    \A r \in S : op[r] # "upload"
             PROVE  FALSE
  BY DEF NoLockCycle
<1>0. S # {} /\ \A r \in S : \E q \in S : WaitsFor(r, q)
  BY DEF Deadlocked
<1> DEFINE T == {r \in S : pc[r] = "lock" /\ want[r] # {}}
           next == [r \in T |-> NextLock(r)]
<1>1. ASSUME NEW r \in S
      PROVE  \E q \in T : \E a \in Accounts : acctLock[a] = q
                          /\ (r \in T => a = NextLock(r))
  <2>1. PICK q \in S : WaitsFor(r, q)
    BY <1>0
  <2>2. PICK p \in S : WaitsFor(q, p)
    BY <1>0
  <2>3. PICK o \in S : WaitsFor(p, o)
    BY <1>0
  <2>4. \A c \in Couples : coupleLock[c] # q
    BY <2>2, HolderGoesOn
  <2>5. PICK a \in Accounts : acctLock[a] = q /\ (r \in T => a = NextLock(r))
    <3>1. CASE pc[r] = "lock"
      BY <2>1, <3>1, NextIsLeast DEF WaitsFor
    <3>2. CASE pc[r] = "couple"
      BY <2>1, <2>4, <3>2 DEF WaitsFor, Inv, StageOK, TypeOK
    <3>3. CASE pc[r] = "self"
      BY <2>1, <3>3 DEF WaitsFor, Inv, StageOK
    <3>4. CASE pc[r] = "commit"
      BY <2>1, <2>4, <3>4 DEF WaitsFor
    <3> QED BY <2>1, <3>1, <3>2, <3>3, <3>4 DEF WaitsFor
  <2>6. q \in T
    BY <2>2, <2>3, <2>5, HolderWaitsForRow
  <2> QED BY <2>5, <2>6
<1>2. T # {}
  BY <1>0, <1>1
<1>3. IsFiniteSet(T)
  BY RelationshipAssumption, FS_Subset
<1>4. next \in [T -> Nat]
  BY NextIsLeast
<1>5. PICK r \in T : \A q \in T : next[q] <= next[r]
  <2> HIDE DEF T, next
  <2> QED BY <1>2, <1>3, <1>4, SomeGreatest
<1>6. PICK q \in T : acctLock[NextLock(r)] = q /\ NextLock(r) \in Accounts
  BY <1>1, <1>5
<1>7. PICK p \in S, o \in S : WaitsFor(q, p) /\ WaitsFor(p, o)
  BY <1>0
<1>8. NextLock(r) < NextLock(q)
  <2>1. PICK a : a = NextLock(r)
    OBVIOUS
  <2> QED BY <1>6, <1>7, <2>1, HolderWaitsForRow
<1>9. NextLock(q) <= NextLock(r) /\ NextLock(q) \in Nat /\ NextLock(r) \in Nat
  BY <1>5, NextIsLeast
<1> QED BY <1>8, <1>9

\* Pairing, unpairing, preferences, deletion and erasure never wait for each
\* other in a circle, for any number of accounts, couples and open sessions:
\* lock_accounts locks rows in UUID order, and the couple's row comes last.
THEOREM NoCycle == Spec => []NoLockCycle
BY WaitsHold, NoCircle, PTL

-----------------------------------------------------------------------------
(* Names and images (PartnerProfile).  A change is made once not because of *)
(* its replay record, which may be gone, but because every copy of it       *)
(* expects the same revision and a couple's revision only grows: once the   *)
(* change is made in the active couple, the revision is past what it        *)
(* expects.  That the phone is told the truth needs the answer it holds to  *)
(* be the one to its own request, of the kind it sent, and every replay     *)
(* record to stand for a change.                                            *)

\* Each change was typed once, numbered in order, and every copy of it is the same.
ChangesAreTyped ==
    /\ IsFiniteSet(typed)
    /\ \A p \in typed : p.change \in 1..Cardinality(typed)
    /\ \A p, q \in typed : p.change = q.change => p = q
    /\ pendingName # NoChange => pendingName \in typed
    /\ executor.at = "send" => executor.job \in typed /\ executor.task \in {"mutate", "refresh"}
    /\ \A r \in travelling : r.kind = "name" =>
          \E p \in typed : p.change = r.change /\ p.expected = r.expected

\* A change made in the active couple has left its expected revision behind.
RevisionsMoveOn ==
    /\ \A p \in typed : paired # 0 /\ applied[<<p.change, paired>>] > 0 =>
          given[paired].revision > p.expected
    /\ \A k \in Changes \X Pairings : applied[k] > 0 =>
          k[2] <= pairings /\ \E p \in typed : p.change = k[1]

\* What is answered or kept for replay was done.
AnswersAreTrue ==
    /\ \A o \in replays : applied[<<o.change, o.couple>>] > 0
    /\ \A r \in travelling : r.number <= requestsSent
    /\ executor.at = "wait" => \A r \in travelling :
          r.number = executor.request => (r.kind = "avatar" <=> executor.task = "photo")
    /\ executor.at = "wait" /\ executor.task # "photo" /\ answer.code = "done" =>
          /\ answer.change \in Changes /\ answer.couple \in Pairings
          /\ applied[<<answer.change, answer.couple>>] > 0

ProfileInv ==
    /\ ProfileTypeOK /\ ProfileIsSound
    /\ ChangesAreTyped /\ RevisionsMoveOn /\ AnswersAreTrue

-----------------------------------------------------------------------------
(* The constants and the shapes of records.                                *)

\* The bounds are numbers.
LEMMA ProfileNumbers == MaxPairings \in Nat /\ MaxChanges \in Nat /\ MaxRequests \in Nat
<1>1. {MaxPairings, MaxChanges, MaxRequests} \subseteq Nat
  BY ProfileAssumption
<1> QED
  BY <1>1

Executor == [at : {"idle", "send", "wait", "fetch", "save"},
             task : {"none", "mutate", "refresh", "photo"}, job : NameChange,
             request : 0..MaxRequests, revision : Revisions]

LEMMA NoChangeTyped == NoChange \in NameChange /\ Idle \in Executor /\ NoRow \in Row
BY ProfileNumbers DEF NoChange, NameChange, Revisions, Idle, Executor, NoRow, Row

LEMMA ExecutorTyped ==
    ASSUME NEW at \in {"idle", "send", "wait", "fetch", "save"},
           NEW task \in {"none", "mutate", "refresh", "photo"},
           NEW job \in NameChange, Works(at, task, job)
    PROVE  executor' \in Executor /\ executor'.at = at /\ executor'.task = task /\ executor'.job = job
BY ProfileNumbers DEF Works, Executor, Revisions

-----------------------------------------------------------------------------
(* The phone's steps leave the tables alone.                               *)

\* What a step of the phone has to keep.
LEMMA PhoneStep ==
    ASSUME ProfileInv, UNCHANGED <<paired, pairings, given, replays, avatars, applied>>,
           UNCHANGED <<typed, travelling, requestsSent, acknowledged>>,
           pendingName' \in {pendingName, NoChange}, knownRevision' \in Revisions,
           executor' \in Executor, executor'.at # "wait",
           executor'.at = "send" => executor'.job \in typed /\ executor'.task \in {"mutate", "refresh"},
           answer' \in {answer, NoAnswer}
    PROVE  ProfileInv'
<1> USE DEF ProfileInv
<1>1. NoAnswer \in [code : {"none", "done", "refused", "unfit", "inactive"}, change : 0..MaxChanges,
                    couple : 0..MaxPairings]
  BY ProfileNumbers DEF NoAnswer
<1>2. ProfileTypeOK'
  BY <1>1, NoChangeTyped DEF ProfileTypeOK, Executor
<1>3. ProfileIsSound'
  BY DEF ProfileIsSound, NameGivenOnce, ToldWasGiven, EndedIsForgotten
<1>4. ChangesAreTyped'
  BY DEF ChangesAreTyped
<1>5. RevisionsMoveOn'
  BY DEF RevisionsMoveOn
<1>6. AnswersAreTrue'
  BY DEF AnswersAreTrue
<1> QED
  BY <1>2, <1>3, <1>4, <1>5, <1>6

LEMMA RefreshKeepsInv ==
    ASSUME ProfileInv, NEW task \in {"mutate", "refresh"}, Refresh(task)
    PROVE  ProfileInv'
<1> USE DEF ProfileInv
<1>1. pendingName \in NameChange /\ knownRevision \in Revisions
  BY DEF ProfileTypeOK
<1>2. /\ executor' \in Executor /\ executor'.at \in {"send", "fetch"}
      /\ executor'.at = "send" => executor'.job \in typed /\ executor'.task \in {"mutate", "refresh"}
  BY <1>1, ExecutorTyped, NoChangeTyped DEF Refresh, ChangesAreTyped
<1> QED
  BY <1>1, <1>2, PhoneStep DEF Refresh, profileTables, profilePhone

LEMMA AvatarDoneKeepsInv ==
    ASSUME ProfileInv, AvatarDone
    PROVE  ProfileInv'
<1> USE DEF ProfileInv
<1>1. pendingName \in NameChange /\ knownRevision \in Revisions
  BY DEF ProfileTypeOK
<1>2. /\ executor' \in Executor /\ executor'.at \in {"send", "fetch"}
      /\ executor'.at = "send" => executor'.job \in typed /\ executor'.task \in {"mutate", "refresh"}
  BY <1>1, ExecutorTyped, NoChangeTyped DEF AvatarDone, ChangesAreTyped
<1> QED
  BY <1>1, <1>2, PhoneStep DEF AvatarDone, profileTables, profilePhone

LEMMA RefusedKeepsInv ==
    ASSUME ProfileInv, Refused
    PROVE  ProfileInv'
<1> USE DEF ProfileInv
<1>1. knownRevision' \in Revisions /\ pendingName' \in {pendingName, NoChange}
  BY ProfileNumbers DEF ProfileTypeOK, Refused, Revisions
<1>2. executor' \in Executor /\ executor'.at \in {"idle", "fetch"}
  BY ExecutorTyped, NoChangeTyped DEF Refused, Idle
<1> QED
  BY <1>1, <1>2, PhoneStep DEF Refused, profileTables

LEMMA FetchKeepsInv ==
    ASSUME ProfileInv, FetchProfile
    PROVE  ProfileInv'
<1> USE DEF ProfileInv
<1>1. knownRevision' \in Revisions /\ pendingName' \in {pendingName, NoChange}
  BY ProfileNumbers DEF ProfileTypeOK, FetchProfile, Revisions
<1>2. executor' \in Executor /\ executor'.at \in {"idle", "save"}
  <2>1. CASE executor' = Idle
    BY <2>1, NoChangeTyped DEF Idle
  <2>2. CASE paired # 0 /\ executor' = [executor EXCEPT !.at = "save", !.revision = given[paired].revision]
    <3>1. given[paired].revision \in Revisions
      BY <2>2, ProfileNumbers DEF ProfileTypeOK, Row, Pairings
    <3>2. executor \in Executor
      BY DEF ProfileTypeOK, Executor
    <3> QED
      BY <2>2, <3>1, <3>2 DEF Executor
  <2> QED
    BY <2>1, <2>2 DEF FetchProfile
<1> QED
  BY <1>1, <1>2, PhoneStep DEF FetchProfile, profileTables

LEMMA SaveOrFailKeepsInv ==
    ASSUME ProfileInv, SaveProfile \/ CallFails
    PROVE  ProfileInv'
<1> USE DEF ProfileInv
<1>1. knownRevision' \in Revisions /\ pendingName' = pendingName
  BY DEF ProfileTypeOK, SaveProfile, CallFails, profilePhone
<1>2. executor' \in Executor /\ executor'.at = "idle"
  BY NoChangeTyped DEF Idle, SaveProfile, CallFails
<1> QED
  BY <1>1, <1>2, PhoneStep DEF SaveProfile, CallFails, profileTables, profilePhone

LEMMA ClearKeepsInv ==
    ASSUME ProfileInv, ClearProfile
    PROVE  ProfileInv'
<1> USE DEF ProfileInv
<1>1. UNCHANGED <<paired, pairings, given, replays, avatars, applied, typed, acknowledged, executor,
                  travelling, requestsSent, answer>>
      /\ pendingName' = NoChange /\ knownRevision' = 0
  BY DEF ClearProfile, profileTables
<1>2. ProfileTypeOK'
  BY <1>1, NoChangeTyped, ProfileNumbers DEF ProfileTypeOK, Revisions
<1>3. ProfileIsSound' /\ RevisionsMoveOn' /\ AnswersAreTrue'
  BY <1>1 DEF ProfileIsSound, NameGivenOnce, ToldWasGiven, EndedIsForgotten, RevisionsMoveOn,
              AnswersAreTrue
<1>4. ChangesAreTyped'
  BY <1>1 DEF ChangesAreTyped
<1> QED
  BY <1>2, <1>3, <1>4

LEMMA NameDoneKeepsInv ==
    ASSUME ProfileInv, NameDone
    PROVE  ProfileInv'
<1> USE DEF ProfileInv
<1>1. UNCHANGED <<paired, pairings, given, replays, avatars, applied, typed, knownRevision,
                  travelling, requestsSent, answer>>
      /\ pendingName' = NoChange
      /\ acknowledged' = acknowledged \cup {[change |-> answer.change, couple |-> answer.couple]}
  BY DEF NameDone, profileTables
<1>2. executor' \in Executor /\ executor'.at = "fetch"
  <2>1. executor.task \in {"none", "mutate", "refresh", "photo"}
    BY DEF ProfileTypeOK
  <2> QED
    BY <2>1, ExecutorTyped, NoChangeTyped DEF NameDone
<1>3. /\ answer.change \in Changes /\ answer.couple \in Pairings
      /\ applied[<<answer.change, answer.couple>>] > 0
  BY DEF NameDone, AnswersAreTrue
<1>4. ProfileTypeOK'
  BY <1>1, <1>2, <1>3, NoChangeTyped DEF ProfileTypeOK, Executor
<1>5. ProfileIsSound'
  BY <1>1, <1>3 DEF ProfileIsSound, NameGivenOnce, ToldWasGiven, EndedIsForgotten
<1>6. RevisionsMoveOn' /\ AnswersAreTrue'
  BY <1>1, <1>2 DEF RevisionsMoveOn, AnswersAreTrue
<1>7. ChangesAreTyped'
  BY <1>1, <1>2 DEF ChangesAreTyped
<1> QED
  BY <1>4, <1>5, <1>6, <1>7

LEMMA TypeKeepsInv ==
    ASSUME ProfileInv, NEW value \in Names \cup {NoGift}, TypeName(value)
    PROVE  ProfileInv'
<1> USE DEF ProfileInv
<1> DEFINE n == Cardinality(typed) + 1
           job == [change |-> n, expected |-> knownRevision, value |-> value]
<1>1. /\ UNCHANGED <<paired, pairings, given, replays, avatars, applied, knownRevision, acknowledged,
                     travelling, requestsSent, answer>>
      /\ pendingName' = job /\ typed' = typed \cup {job} /\ Works("send", "mutate", job)
      /\ Cardinality(typed) < MaxChanges
  BY DEF TypeName, profileTables
<1>2. IsFiniteSet(typed) /\ Cardinality(typed) \in Nat
  BY FS_CardinalityType DEF ChangesAreTyped
<1>3. n \in Changes /\ n \in 0..MaxChanges /\ \A p \in typed : p.change # n
  BY <1>1, <1>2, ProfileNumbers DEF ChangesAreTyped, Changes
<1>4. job \in NameChange /\ job.change = n /\ job \notin typed
  BY <1>3 DEF NameChange, ProfileTypeOK
<1>5. IsFiniteSet(typed') /\ Cardinality(typed') = n
  BY <1>1, <1>2, <1>4, FS_AddElement
<1>6. /\ executor' \in Executor /\ executor'.at = "send" /\ executor'.task = "mutate"
      /\ executor'.job = job
  BY <1>1, <1>4, ExecutorTyped
<1> HIDE DEF n, job
<1>7. ProfileTypeOK'
  BY <1>1, <1>4, <1>6 DEF ProfileTypeOK, Executor
<1>8. ProfileIsSound'
  BY <1>1 DEF ProfileIsSound, NameGivenOnce, ToldWasGiven, EndedIsForgotten
<1>9. ChangesAreTyped'
  <2>1. \A p \in typed' : p.change \in 1..Cardinality(typed')
    <3>1. n \in 1..n /\ \A k \in 1..Cardinality(typed) : k \in 1..n
      BY <1>2 DEF n
    <3> QED
      BY <1>1, <1>4, <1>5, <3>1 DEF ChangesAreTyped
  <2>2. \A p, q \in typed' : p.change = q.change => p = q
    BY <1>1, <1>3, <1>4 DEF ChangesAreTyped
  <2>3. \A r \in travelling' : r.kind = "name" =>
          \E p \in typed' : p.change = r.change /\ p.expected = r.expected
    BY <1>1 DEF ChangesAreTyped
  <2> QED
    BY <1>1, <1>5, <1>6, <2>1, <2>2, <2>3 DEF ChangesAreTyped
<1>10. RevisionsMoveOn'
  <2>1. \A k \in Changes \X Pairings : applied'[k] > 0 =>
           k[2] <= pairings' /\ \E p \in typed' : p.change = k[1]
    BY <1>1 DEF RevisionsMoveOn
  <2>2. ASSUME NEW p \in typed', paired' # 0, applied'[<<p.change, paired'>>] > 0
        PROVE  given'[paired'].revision > p.expected
    <3>1. CASE p \in typed
      BY <1>1, <2>2, <3>1 DEF RevisionsMoveOn
    <3>2. CASE p = job
      <4>1. <<n, paired>> \in Changes \X Pairings
        BY <1>1, <1>3, <2>2 DEF ProfileTypeOK, Pairings
      <4>2. applied[<<n, paired>>] > 0
        BY <1>1, <1>4, <2>2, <3>2
      <4>3. \E q \in typed : q.change = n
        BY <4>1, <4>2 DEF RevisionsMoveOn
      <4> QED
        BY <1>3, <4>3
    <3> QED
      BY <1>1, <3>1, <3>2
  <2> QED
    BY <2>1, <2>2 DEF RevisionsMoveOn
<1>11. AnswersAreTrue'
  BY <1>1, <1>6 DEF AnswersAreTrue
<1> QED
  BY <1>7, <1>8, <1>9, <1>10, <1>11

\* A request is sent: it is the only one of its number, and nothing is answered yet.
LEMMA SendKeepsInv ==
    ASSUME ProfileInv, NEW kind \in {"name", "avatar"}, NEW task \in {"mutate", "refresh", "photo"},
           NEW job \in NameChange, NEW value \in Names \cup Images \cup {NoGift},
           kind = "avatar" <=> task = "photo", kind = "name" => job \in typed,
           Sends(kind, task, job, value), UNCHANGED <<profileTables, profilePhone>>
    PROVE  ProfileInv'
<1> USE DEF ProfileInv
<1> DEFINE new == [number |-> requestsSent + 1, kind |-> kind, change |-> job.change,
                   expected |-> job.expected, value |-> value, couple |-> 0]
<1>1. /\ requestsSent < MaxRequests /\ requestsSent' = requestsSent + 1
      /\ travelling' = travelling \cup {new} /\ answer' = NoAnswer
      /\ executor' = [at |-> "wait", task |-> task, job |-> job, request |-> requestsSent + 1,
                      revision |-> 0]
      /\ UNCHANGED <<paired, pairings, given, replays, avatars, applied, typed, pendingName,
                     knownRevision, acknowledged>>
  BY DEF Sends, profileTables, profilePhone
<1>2. requestsSent \in Nat /\ requestsSent + 1 \in 1..MaxRequests
  BY <1>1, ProfileNumbers DEF ProfileTypeOK
<1>3. /\ new \in Request /\ new.number = requestsSent + 1 /\ new.kind = kind
      /\ new.change = job.change /\ new.expected = job.expected
  BY <1>2, ProfileNumbers DEF Request, NameChange
<1>4. /\ executor' \in Executor /\ executor'.at = "wait" /\ executor'.task = task
      /\ executor'.request = requestsSent + 1
  BY <1>1, <1>2, ProfileNumbers DEF Executor, Revisions
<1>5. answer' \in [code : {"none", "done", "refused", "unfit", "inactive"}, change : 0..MaxChanges,
                   couple : 0..MaxPairings] /\ answer'.code = "none"
  BY <1>1, ProfileNumbers DEF NoAnswer
<1> HIDE DEF new
<1>6. ProfileTypeOK'
  BY <1>1, <1>2, <1>3, <1>4, <1>5 DEF ProfileTypeOK, Executor
<1>7. ProfileIsSound' /\ RevisionsMoveOn'
  BY <1>1 DEF ProfileIsSound, NameGivenOnce, ToldWasGiven, EndedIsForgotten, RevisionsMoveOn
<1>8. ChangesAreTyped'
  BY <1>1, <1>3, <1>4 DEF ChangesAreTyped
<1>9. AnswersAreTrue'
  <2>1. \A r \in travelling : r.number \in Nat /\ r.number <= requestsSent
    BY DEF ProfileTypeOK, Request, AnswersAreTrue
  <2>2. \A r \in travelling' : r.number <= requestsSent'
    BY <1>1, <1>2, <1>3, <2>1
  <2>3. \A r \in travelling' : r.number = requestsSent + 1 => r = new
    BY <1>1, <1>2, <2>1
  <2> QED
    BY <1>1, <1>3, <1>4, <1>5, <2>2, <2>3 DEF AnswersAreTrue
<1> QED
  BY <1>6, <1>7, <1>8, <1>9

LEMMA SendNameKeepsInv ==
    ASSUME ProfileInv, SendName
    PROVE  ProfileInv'
<1> USE DEF ProfileInv
<1>1. executor.job \in typed /\ executor.task \in {"mutate", "refresh"}
  BY DEF SendName, ChangesAreTyped
<1>2. executor.job \in NameChange /\ executor.job.value \in Names \cup Images \cup {NoGift}
  BY <1>1 DEF ProfileTypeOK, NameChange
<1> QED
  BY <1>1, <1>2, SendKeepsInv DEF SendName

LEMMA SendAvatarKeepsInv ==
    ASSUME ProfileInv, NEW image \in Images \cup {NoGift}, SendAvatar(image)
    PROVE  ProfileInv'
BY SendKeepsInv, NoChangeTyped DEF SendAvatar

-----------------------------------------------------------------------------
(* The server's steps leave the phone alone but for the answer.            *)

\* A request leaves, or moves on to its couple; an answer that says a name is given is true.
LEMMA Answered ==
    ASSUME ProfileInv, NEW r \in travelling,
           NEW reply \in {"done", "refused", "unfit", "inactive"}, Answers(r, reply),
           travelling' = travelling \ {r}, UNCHANGED <<profilePhone, executor, requestsSent>>,
           \A k \in Changes \X Pairings : applied'[k] >= applied[k],
           applied' \in [Changes \X Pairings -> Nat],
           \A o \in replays' : o \in replays \/ applied'[<<o.change, o.couple>>] > 0,
           reply = "done" /\ r.kind = "name" =>
              /\ r.change \in Changes /\ r.couple \in Pairings
              /\ applied'[<<r.change, r.couple>>] > 0
    PROVE  ChangesAreTyped' /\ AnswersAreTrue' /\ ToldWasGiven'
           /\ answer' \in [code : {"none", "done", "refused", "unfit", "inactive"}, change : 0..MaxChanges,
                            couple : 0..MaxPairings]
<1> USE DEF ProfileInv
<1>1. /\ UNCHANGED <<typed, pendingName, knownRevision, acknowledged, executor, requestsSent>>
      /\ \A x \in travelling' : x \in travelling
  BY DEF profilePhone
<1>2. ChangesAreTyped'
  BY <1>1 DEF ChangesAreTyped
<1>3. r.change \in 0..MaxChanges /\ r.couple \in 0..MaxPairings
      /\ r.kind \in {"name", "avatar"}
  BY DEF ProfileTypeOK, Request
<1>4. answer' = answer \/ (executor.at = "wait" /\ executor.request = r.number
                           /\ answer'.code = reply /\ answer'.change = r.change
                           /\ answer'.couple = r.couple)
  BY DEF Answers
<1>5. answer' \in [code : {"none", "done", "refused", "unfit", "inactive"}, change : 0..MaxChanges,
                   couple : 0..MaxPairings]
  BY <1>3 DEF Answers, ProfileTypeOK
<1>6. \A k \in Changes \X Pairings : applied[k] > 0 => applied'[k] > 0
  BY DEF ProfileTypeOK
<1>7. ToldWasGiven'
  <2>1. \A t \in acknowledged : <<t.change, t.couple>> \in Changes \X Pairings
    BY DEF ProfileTypeOK
  <2> QED
    BY <1>1, <1>6, <2>1 DEF ProfileIsSound, ToldWasGiven
<1>8. \A o \in replays' : applied'[<<o.change, o.couple>>] > 0
  <2>1. \A o \in replays : <<o.change, o.couple>> \in Changes \X Pairings
    BY DEF ProfileTypeOK
  <2> QED
    BY <1>6, <2>1 DEF AnswersAreTrue
<1>9. ASSUME executor.at = "wait", executor.task # "photo", answer'.code = "done"
      PROVE  /\ answer'.change \in Changes /\ answer'.couple \in Pairings
             /\ applied'[<<answer'.change, answer'.couple>>] > 0
  <2>1. CASE answer' = answer
    <3>1. <<answer.change, answer.couple>> \in Changes \X Pairings
          /\ applied[<<answer.change, answer.couple>>] > 0
      BY <1>9, <2>1 DEF AnswersAreTrue
    <3> QED
      BY <1>6, <2>1, <3>1
  <2>2. CASE answer' # answer
    <3>1. r.kind = "name"
      BY <1>3, <1>4, <1>9, <2>2 DEF AnswersAreTrue
    <3> QED
      BY <1>4, <1>9, <2>2, <3>1
  <2> QED
    BY <2>1, <2>2
<1>10. AnswersAreTrue'
  BY <1>1, <1>8, <1>9 DEF AnswersAreTrue
<1> QED
  BY <1>2, <1>5, <1>7, <1>10

LEMMA ApplyKeepsInv ==
    ASSUME ProfileInv, NEW r \in travelling, ApplyName(r)
    PROVE  ProfileInv'
<1> USE DEF ProfileInv
<1> DEFINE c == r.couple
           k0 == <<r.change, r.couple>>
<1>1. /\ c = paired /\ c # 0 /\ r.kind = "name" /\ r.expected = given[c].revision
      /\ given[c].revision < MaxRequests
      /\ given' = [given EXCEPT ![c] = [value |-> r.value, revision |-> given[c].revision + 1]]
      /\ replays' = replays \cup {[change |-> r.change, couple |-> c]}
      /\ applied' = [applied EXCEPT ![k0] = applied[k0] + 1]
      /\ travelling' = travelling \ {r} /\ Answers(r, "done")
      /\ UNCHANGED <<paired, pairings, avatars, profilePhone, executor, requestsSent>>
  BY DEF ApplyName, StillPaired, Expects
<1>2. PICK p \in typed : p.change = r.change /\ p.expected = r.expected
  BY <1>1 DEF ChangesAreTyped
<1>3. c \in Pairings /\ r.change \in Changes /\ k0 \in Changes \X Pairings
      /\ r.value \in Names \cup Images \cup {NoGift}
  <2>1. r \in Request /\ p \in NameChange
    BY <1>2 DEF ProfileTypeOK
  <2>2. c \in Pairings /\ r.value \in Names \cup Images \cup {NoGift}
    BY <1>1, <2>1, ProfileNumbers DEF Request, Pairings
  <2>3. p.change # 0 /\ p.change \in 0..MaxChanges
    <3>1. Cardinality(typed) \in Nat
      BY FS_CardinalityType DEF ChangesAreTyped
    <3> QED
      BY <2>1, <3>1 DEF ChangesAreTyped, NameChange
  <2> QED
    BY <1>2, <2>2, <2>3, ProfileNumbers DEF Changes
<1>4. given[c].revision \in Revisions
  BY <1>3 DEF ProfileTypeOK, Row
<1>5. applied[k0] = 0
  \* Else the couple's revision would be past the one the request expects.
  <2>1. applied[k0] \in Nat
    BY <1>3 DEF ProfileTypeOK
  <2>2. ~(applied[k0] > 0)
    BY <1>1, <1>2, <1>4, ProfileNumbers DEF RevisionsMoveOn, Revisions
  <2> QED
    BY <2>1, <2>2
<1> HIDE DEF c
<1>6. /\ applied' \in [Changes \X Pairings -> Nat] /\ applied'[k0] = 1
      /\ \A k \in (Changes \X Pairings) \ {k0} : applied'[k] = applied[k]
  BY <1>1, <1>3, <1>5 DEF ProfileTypeOK
<1>7. /\ given' \in [Pairings -> Row] /\ given'[c].revision = given[c].revision + 1
      /\ \A x \in Pairings \ {c} : given'[x] = given[x]
  <2>1. [value |-> r.value, revision |-> given[c].revision + 1] \in Row
    BY <1>1, <1>3, <1>4, ProfileNumbers DEF Row, Revisions
  <2> QED
    BY <1>1, <1>3, <2>1 DEF ProfileTypeOK
<1>8. ChangesAreTyped' /\ AnswersAreTrue' /\ ToldWasGiven'
      /\ answer' \in [code : {"none", "done", "refused", "unfit", "inactive"}, change : 0..MaxChanges,
                       couple : 0..MaxPairings]
  <2>1. \A k \in Changes \X Pairings : applied'[k] >= applied[k]
    BY <1>5, <1>6 DEF ProfileTypeOK
  <2>2. \A o \in replays' : o \in replays \/ applied'[<<o.change, o.couple>>] > 0
    BY <1>1, <1>6 DEF c
  <2>3. UNCHANGED <<profilePhone, executor, requestsSent>>
    BY <1>1
  <2>4. /\ r.change \in Changes /\ r.couple \in Pairings
        /\ applied'[<<r.change, r.couple>>] > 0
    BY <1>3, <1>6 DEF c
  <2> QED
    BY <1>1, <1>6, <2>1, <2>2, <2>3, <2>4, Answered
<1>9. ProfileTypeOK'
  <2>1. replays' \subseteq [change : Changes, couple : Pairings]
    BY <1>1, <1>3 DEF ProfileTypeOK
  <2> QED
    BY <1>1, <1>6, <1>7, <1>8, <2>1 DEF ProfileTypeOK, profilePhone
<1>10. NameGivenOnce'
  BY <1>6 DEF ProfileIsSound, NameGivenOnce
<1>11. EndedIsForgotten'
  BY <1>1, <1>7 DEF ProfileIsSound, EndedIsForgotten
<1>12. RevisionsMoveOn'
  <2>1. \A k \in Changes \X Pairings : applied'[k] > 0 =>
           k[2] <= pairings' /\ \E q \in typed' : q.change = k[1]
    <3>1. k0[2] <= pairings /\ k0[1] = p.change
      BY <1>1, <1>2 DEF ProfileTypeOK, c
    <3> QED
      BY <1>1, <1>6, <3>1 DEF RevisionsMoveOn, profilePhone
  <2>2. ASSUME NEW q \in typed, applied'[<<q.change, c>>] > 0
        PROVE  given'[c].revision > q.expected
    <3>1. CASE q.change = r.change
      <4>1. q = p
        BY <1>2, <3>1 DEF ChangesAreTyped
      <4> QED
        BY <1>1, <1>2, <1>4, <1>7, <4>1, ProfileNumbers DEF Revisions
    <3>2. CASE q.change # r.change
      <4>1. q.change \in Changes /\ q.expected \in Nat
        <5>1. Cardinality(typed) \in Nat
          BY FS_CardinalityType DEF ChangesAreTyped
        <5>2. q.change # 0 /\ q.change \in 0..MaxChanges /\ q.expected \in Nat
          BY <5>1, ProfileNumbers DEF ChangesAreTyped, ProfileTypeOK, NameChange, Revisions
        <5> QED
          BY <5>2, ProfileNumbers DEF Changes
      <4>2. applied'[<<q.change, c>>] = applied[<<q.change, c>>]
        BY <1>3, <1>6, <3>2, <4>1 DEF c
      <4>3. given[c].revision > q.expected
        BY <1>1, <2>2, <4>2 DEF RevisionsMoveOn
      <4> QED
        BY <1>4, <1>7, <4>1, <4>3, ProfileNumbers DEF Revisions
    <3> QED
      BY <3>1, <3>2
  <2> QED
    BY <1>1, <2>1, <2>2 DEF RevisionsMoveOn, profilePhone
<1> QED
  BY <1>8, <1>9, <1>10, <1>11, <1>12 DEF ProfileIsSound

\* An answer that changes no table.
LEMMA AnswerKeepsInv ==
    ASSUME ProfileInv, NEW r \in travelling, NEW reply \in {"done", "refused", "unfit", "inactive"},
           Answers(r, reply), travelling' = travelling \ {r},
           UNCHANGED <<profileTables, profilePhone, executor, requestsSent>>,
           reply = "done" /\ r.kind = "name" => Replayed(r)
    PROVE  ProfileInv'
<1> USE DEF ProfileInv
<1>1. UNCHANGED <<paired, pairings, given, replays, avatars, applied, typed, pendingName,
                  knownRevision, acknowledged, executor, requestsSent>>
  BY DEF profileTables, profilePhone
<1>2. ChangesAreTyped' /\ AnswersAreTrue' /\ ToldWasGiven'
      /\ answer' \in [code : {"none", "done", "refused", "unfit", "inactive"}, change : 0..MaxChanges,
                       couple : 0..MaxPairings]
  <2>1. applied' \in [Changes \X Pairings -> Nat] /\ \A k \in Changes \X Pairings : applied'[k] >= applied[k]
    BY <1>1 DEF ProfileTypeOK
  <2>2. reply = "done" /\ r.kind = "name" =>
           /\ r.change \in Changes /\ r.couple \in Pairings
           /\ applied'[<<r.change, r.couple>>] > 0
    BY <1>1 DEF Replayed, AnswersAreTrue, ProfileTypeOK
  <2>3. UNCHANGED <<profilePhone, executor, requestsSent>> /\ replays' = replays
    BY <1>1 DEF profilePhone
  <2> QED
    BY <2>1, <2>2, <2>3, Answered
<1>3. ProfileTypeOK'
  BY <1>1, <1>2 DEF ProfileTypeOK
<1>4. NameGivenOnce' /\ EndedIsForgotten' /\ RevisionsMoveOn'
  BY <1>1 DEF ProfileIsSound, NameGivenOnce, EndedIsForgotten, RevisionsMoveOn
<1> QED
  BY <1>2, <1>3, <1>4 DEF ProfileIsSound

LEMMA RepliesKeepInv ==
    ASSUME ProfileInv, NEW r \in travelling, ReplayName(r) \/ RefuseName(r) \/ CoupleEnded(r)
    PROVE  ProfileInv'
<1>1. CASE ReplayName(r)
  BY <1>1, AnswerKeepsInv DEF ReplayName
<1>2. CASE RefuseName(r)
  BY <1>2, AnswerKeepsInv DEF RefuseName
<1>3. CASE CoupleEnded(r)
  BY <1>3, AnswerKeepsInv DEF CoupleEnded
<1> QED
  BY <1>1, <1>2, <1>3

LEMMA FindKeepsInv ==
    ASSUME ProfileInv, NEW r \in travelling, FindCouple(r)
    PROVE  ProfileInv'
<1> USE DEF ProfileInv
<1> DEFINE moved == [r EXCEPT !.couple = paired]
<1>1. CASE paired = 0 /\ travelling' = travelling \ {r} /\ Answers(r, "inactive")
  BY <1>1, AnswerKeepsInv DEF FindCouple
<1>2. CASE travelling' = (travelling \ {r}) \cup {moved} /\ UNCHANGED answer
  <2>1. UNCHANGED <<paired, pairings, given, replays, avatars, applied, typed, pendingName,
                    knownRevision, acknowledged, executor, requestsSent, answer>>
    BY <1>2 DEF FindCouple, profileTables, profilePhone
  <2>2. /\ moved \in Request /\ moved.number = r.number /\ moved.kind = r.kind
        /\ moved.change = r.change /\ moved.expected = r.expected
    BY DEF ProfileTypeOK, Request
  <2> HIDE DEF moved
  <2>3. ProfileTypeOK'
    BY <1>2, <2>1, <2>2 DEF ProfileTypeOK
  <2>4. ProfileIsSound' /\ RevisionsMoveOn'
    BY <2>1 DEF ProfileIsSound, NameGivenOnce, ToldWasGiven, EndedIsForgotten, RevisionsMoveOn
  <2>5. ChangesAreTyped'
    BY <1>2, <2>1, <2>2 DEF ChangesAreTyped
  <2>6. AnswersAreTrue'
    BY <1>2, <2>1, <2>2 DEF AnswersAreTrue
  <2> QED
    BY <2>3, <2>4, <2>5, <2>6
<1> QED
  BY <1>1, <1>2 DEF FindCouple

LEMMA AvatarKeepsInv ==
    ASSUME ProfileInv, NEW r \in travelling, ChangeAvatar(r)
    PROVE  ProfileInv'
<1> USE DEF ProfileInv
<1> DEFINE old == avatars[r.couple]
           new == IF r.value = NoGift THEN NoRow
                  ELSE IF r.value = old.value THEN old
                  ELSE [value |-> r.value, revision |-> old.revision + 1]
<1>1. /\ r.couple = paired /\ r.couple # 0 /\ r.kind = "avatar" /\ new.revision <= MaxRequests
      /\ avatars' = [avatars EXCEPT ![r.couple] = new]
      /\ travelling' = travelling \ {r} /\ Answers(r, "done")
      /\ UNCHANGED <<paired, pairings, given, replays, applied, profilePhone, executor, requestsSent>>
  BY DEF ChangeAvatar, StillPaired
<1>2. r.couple \in Pairings /\ r.value \in Names \cup Images \cup {NoGift}
  BY <1>1, ProfileNumbers DEF ProfileTypeOK, Pairings, Request
<1>3. old \in Row
  BY <1>2 DEF ProfileTypeOK
<1>4. new \in Row
  <2>1. CASE new = NoRow \/ new = old
    BY <1>3, <2>1, NoChangeTyped
  <2>2. CASE new = [value |-> r.value, revision |-> old.revision + 1]
    <3>1. old.revision + 1 \in Revisions
      BY <1>1, <1>3, <2>2, ProfileNumbers DEF Row, Revisions
    <3> QED
      BY <1>2, <2>2, <3>1 DEF Row
  <2> QED
    BY <2>1, <2>2
<1> HIDE DEF new, old
<1>5. avatars' \in [Pairings -> Row] /\ \A x \in Pairings \ {paired} : avatars'[x] = avatars[x]
  BY <1>1, <1>2, <1>4 DEF ProfileTypeOK
<1>6. ChangesAreTyped' /\ AnswersAreTrue' /\ ToldWasGiven'
      /\ answer' \in [code : {"none", "done", "refused", "unfit", "inactive"}, change : 0..MaxChanges,
                       couple : 0..MaxPairings]
  <2>1. applied' \in [Changes \X Pairings -> Nat] /\ \A k \in Changes \X Pairings : applied'[k] >= applied[k]
    BY <1>1 DEF ProfileTypeOK
  <2>2. UNCHANGED <<profilePhone, executor, requestsSent>> /\ replays' = replays
    BY <1>1
  <2> QED
    BY <1>1, <2>1, <2>2, Answered
<1>7. ProfileTypeOK'
  BY <1>1, <1>5, <1>6 DEF ProfileTypeOK, profilePhone
<1>8. NameGivenOnce' /\ EndedIsForgotten' /\ RevisionsMoveOn'
  BY <1>1, <1>5 DEF ProfileIsSound, NameGivenOnce, EndedIsForgotten, RevisionsMoveOn, profilePhone
<1> QED
  BY <1>6, <1>7, <1>8 DEF ProfileIsSound

LEMMA EndKeepsInv ==
    ASSUME ProfileInv, EndPairing
    PROVE  ProfileInv'
<1> USE DEF ProfileInv
<1>1. /\ paired # 0 /\ paired' = 0
      /\ given' = [given EXCEPT ![paired] = NoRow] /\ avatars' = [avatars EXCEPT ![paired] = NoRow]
      /\ replays' = {o \in replays : o.couple # paired}
      /\ UNCHANGED <<pairings, applied, typed, pendingName, knownRevision, acknowledged, executor,
                     travelling, requestsSent, answer>>
  BY DEF EndPairing, profilePhone
<1>2. paired \in Pairings
  BY <1>1, ProfileNumbers DEF ProfileTypeOK, Pairings
<1>3. replays' = {}
  BY <1>1 DEF ProfileIsSound, EndedIsForgotten
<1>4. given' \in [Pairings -> Row] /\ avatars' \in [Pairings -> Row]
      /\ \A x \in Pairings : given'[x] = NoRow /\ avatars'[x] = NoRow
  BY <1>1, <1>2, NoChangeTyped DEF ProfileTypeOK, ProfileIsSound, EndedIsForgotten
<1>5. ProfileTypeOK'
  BY <1>1, <1>3, <1>4, ProfileNumbers DEF ProfileTypeOK
<1>6. ProfileIsSound'
  BY <1>1, <1>3, <1>4 DEF ProfileIsSound, NameGivenOnce, ToldWasGiven, EndedIsForgotten
<1>7. ChangesAreTyped'
  BY <1>1 DEF ChangesAreTyped
<1>8. RevisionsMoveOn' /\ AnswersAreTrue'
  BY <1>1, <1>3 DEF RevisionsMoveOn, AnswersAreTrue
<1> QED
  BY <1>5, <1>6, <1>7, <1>8

LEMMA PairKeepsInv ==
    ASSUME ProfileInv, PairAgain
    PROVE  ProfileInv'
<1> USE DEF ProfileInv
<1>1. /\ paired = 0 /\ pairings < MaxPairings /\ pairings' = pairings + 1 /\ paired' = pairings + 1
      /\ UNCHANGED <<given, replays, avatars, applied, typed, pendingName, knownRevision, acknowledged,
                     executor, travelling, requestsSent, answer>>
  BY DEF PairAgain, profilePhone
<1>2. pairings \in Nat /\ paired' \in Pairings
  BY <1>1, ProfileNumbers DEF ProfileTypeOK, Pairings
<1>3. ProfileTypeOK'
  BY <1>1, <1>2, ProfileNumbers DEF ProfileTypeOK
<1>4. 0 \notin Pairings
  BY ProfileNumbers DEF Pairings
<1>5. replays = {}
  <2>1. \A o \in replays : o.couple \in Pairings /\ o.couple = 0
    BY <1>1 DEF ProfileIsSound, EndedIsForgotten, ProfileTypeOK
  <2> QED
    BY <1>4, <2>1
<1>6. ProfileIsSound'
  BY <1>1, <1>4, <1>5 DEF ProfileIsSound, NameGivenOnce, ToldWasGiven, EndedIsForgotten
<1>7. ChangesAreTyped' /\ AnswersAreTrue'
  BY <1>1 DEF ChangesAreTyped, AnswersAreTrue
<1>8. RevisionsMoveOn'
  \* Nothing has been done yet in the new couple.
  <2>1. \A k \in Changes \X Pairings : applied[k] > 0 => k[2] # pairings + 1
    <3>1. \A k \in Changes \X Pairings : k[2] \in Nat
      BY ProfileNumbers DEF Pairings
    <3> QED
      BY <1>2, <3>1 DEF RevisionsMoveOn
  <2>2. \A p \in typed : p.change \in Changes
    <3>1. Cardinality(typed) \in Nat
      BY FS_CardinalityType DEF ChangesAreTyped
    <3>2. \A p \in typed : p.change # 0 /\ p.change \in 0..MaxChanges
      BY <3>1 DEF ChangesAreTyped, ProfileTypeOK, NameChange
    <3> QED
      BY <3>2, ProfileNumbers DEF Changes
  <2>3. \A p \in typed : ~(applied[<<p.change, pairings + 1>>] > 0)
    BY <1>1, <1>2, <2>1, <2>2
  <2>4. \A k \in Changes \X Pairings : applied[k] > 0 => k[2] <= pairings + 1
    <3>1. \A k \in Changes \X Pairings : k[2] \in Nat
      BY ProfileNumbers DEF Pairings
    <3> QED
      BY <1>2, <3>1 DEF RevisionsMoveOn
  <2> QED
    BY <1>1, <2>3, <2>4 DEF RevisionsMoveOn
<1> QED
  BY <1>3, <1>6, <1>7, <1>8

LEMMA ForgetKeepsInv ==
    ASSUME ProfileInv, NEW o \in replays, ForgetReplay(o)
    PROVE  ProfileInv'
<1> USE DEF ProfileInv
<1>1. replays' = replays \ {o}
      /\ UNCHANGED <<paired, pairings, given, avatars, applied, typed, pendingName, knownRevision,
                     acknowledged, executor, travelling, requestsSent, answer>>
  BY DEF ForgetReplay, profilePhone
<1>2. ProfileTypeOK'
  BY <1>1 DEF ProfileTypeOK
<1>3. ProfileIsSound' /\ RevisionsMoveOn' /\ AnswersAreTrue'
  BY <1>1 DEF ProfileIsSound, NameGivenOnce, ToldWasGiven, EndedIsForgotten, RevisionsMoveOn,
              AnswersAreTrue
<1>4. ChangesAreTyped'
  BY <1>1 DEF ChangesAreTyped
<1> QED
  BY <1>2, <1>3, <1>4

-----------------------------------------------------------------------------

LEMMA ProfileInitInv == ProfileInit => ProfileInv
<1> SUFFICES ASSUME ProfileInit PROVE ProfileInv
  OBVIOUS
<1> USE DEF ProfileInit
<1>1. ProfileTypeOK
  <2>1. executor \in Executor
    BY NoChangeTyped
  <2>2. answer \in [code : {"none", "done", "refused", "unfit", "inactive"}, change : 0..MaxChanges,
                    couple : 0..MaxPairings]
    BY ProfileNumbers DEF NoAnswer
  <2> QED
    BY <2>1, <2>2, NoChangeTyped, ProfileNumbers DEF ProfileTypeOK, Executor, Revisions
<1>2. ProfileIsSound
  BY DEF ProfileIsSound, NameGivenOnce, ToldWasGiven, EndedIsForgotten
<1>3. ChangesAreTyped
  BY FS_EmptySet DEF ChangesAreTyped, Idle
<1>4. RevisionsMoveOn /\ AnswersAreTrue
  BY DEF RevisionsMoveOn, AnswersAreTrue, Idle
<1> QED
  BY <1>1, <1>2, <1>3, <1>4 DEF ProfileInv

LEMMA ProfileStepInv == ProfileInv /\ [ProfileNext]_profileVars => ProfileInv'
<1> SUFFICES ASSUME ProfileInv, [ProfileNext]_profileVars PROVE ProfileInv'
  OBVIOUS
<1>1. CASE UNCHANGED profileVars
  <2>1. UNCHANGED <<paired, pairings, given, replays, avatars, applied, typed, pendingName,
                    knownRevision, acknowledged, executor, travelling, requestsSent, answer>>
    BY <1>1 DEF profileVars, profileTables, profilePhone
  <2>2. ProfileTypeOK' /\ ChangesAreTyped'
    BY <2>1 DEF ProfileInv, ProfileTypeOK, ChangesAreTyped
  <2>3. ProfileIsSound' /\ RevisionsMoveOn' /\ AnswersAreTrue'
    BY <2>1 DEF ProfileInv, ProfileIsSound, NameGivenOnce, ToldWasGiven, EndedIsForgotten,
                RevisionsMoveOn, AnswersAreTrue
  <2> QED
    BY <2>2, <2>3 DEF ProfileInv
<1>2. CASE ProfileNext
  BY <1>2, TypeKeepsInv, RefreshKeepsInv, SendAvatarKeepsInv, SendNameKeepsInv, NameDoneKeepsInv,
     AvatarDoneKeepsInv, RefusedKeepsInv, FetchKeepsInv, SaveOrFailKeepsInv, ClearKeepsInv,
     FindKeepsInv, ApplyKeepsInv, RepliesKeepInv, AvatarKeepsInv, EndKeepsInv, PairKeepsInv,
     ForgetKeepsInv, Zenon DEF ProfileNext
<1> QED
  BY <1>1, <1>2

\* However requests are lost, repeated, delayed past an unpairing or past the
\* retention of their replay records, a name is given once in a couple, the phone
\* is told so only if it was, and nothing given outlives the couple.
THEOREM ProfileSound == ProfileSpec => []ProfileIsSound
<1>1. ProfileInv => ProfileIsSound
  BY DEF ProfileInv
<1> QED
  BY <1>1, ProfileInitInv, ProfileStepInv, PTL DEF ProfileSpec
=============================================================================
