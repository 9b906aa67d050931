---------------------------- MODULE AdminDevices ----------------------------
(***************************************************************************)
(* How a Big Orbit administrator's devices are enrolled, signed in and     *)
(* revoked (big_orbit_bootstrap.py, big_orbit_auth.py, routes/admin.py and *)
(* their routes): a terminal PIN opens a setup for one device key, a       *)
(* signed challenge proves the key, a first TOTP code enables MFA, and an  *)
(* approved device signs in with its key and a password or a credential.   *)
(*                                                                         *)
(* Each transaction holds the account row or the device row until it       *)
(* commits, so it is one action; the session a Big Orbit request came with *)
(* is read before that (current_big_orbit_admin) and kept in `principal`.  *)
(* PINs, setups and challenges expire at any moment.  The owner knows the  *)
(* password; signatures are made by the holder of the key.                 *)
(***************************************************************************)
EXTENDS Integers, Sequences, FiniteSets, FiniteSetsExt

CONSTANTS
    DeviceKeys,         \* key pairs that may be enrolled
    AdminSlots,         \* Big Orbit requests handled at the same time
    PinAttempts,        \* PIN_ATTEMPT_LIMIT
    MaxPins,            \* bound on the PINs issued
    MaxChallenges,      \* bound on the challenges issued
    MaxAdminSessions,   \* bound on the sessions issued
    MaxSecrets,         \* bound on the TOTP secrets staged
    LastStep            \* bound on the TOTP time step

ASSUME AdminAssumption ==
    {PinAttempts, MaxPins, MaxChallenges, MaxAdminSessions, MaxSecrets, LastStep} \subseteq Nat

VARIABLES
    pins,           \* AdminBootstrapCredential rows
    setups,         \* AdminBootstrapSession rows
    devices,        \* AdminDevice row of each key
    challenges,     \* AdminDeviceChallenge rows
    adminSessions,  \* Session rows bound to a device by AdminDeviceSession
    mfa,            \* AdminMfa row
    step,           \* the current TOTP time step
    principal,      \* session each Big Orbit request was admitted with, 0 if none
    spent,          \* history: one-time codes that were accepted
    replayed        \* history: a code was accepted a second time

adminVars == <<pins, setups, devices, challenges, adminSessions, mfa, step,
               principal, spent, replayed>>

PinRows == [status : {"open", "consumed", "invalidated"}, failed : Nat, expired : BOOLEAN]
SetupRows == [device : DeviceKeys, confirmed : BOOLEAN, mfaRequired : BOOLEAN,
              completed : BOOLEAN, expired : BOOLEAN]
\* `proven` remembers that the key was proven since it was last staged.
DeviceRows == [known : BOOLEAN, approved : BOOLEAN, revoked : BOOLEAN,
               credential : BOOLEAN, proven : BOOLEAN]
ChallengeRows == [device : DeviceKeys, purpose : {"bootstrap", "session"}, open : BOOLEAN]
AdminSessionRows == [device : DeviceKeys, revoked : BOOLEAN]
\* Secret 0 stands for none; `last` is -1 before the first accepted counter.
MfaRows == [enabled : BOOLEAN, secret : 0..MaxSecrets, pending : 0..MaxSecrets,
            staged : 0..MaxSecrets, last : -1..(LastStep + 1), recovery : BOOLEAN]

NewDevice == [known |-> FALSE, approved |-> FALSE, revoked |-> FALSE,
              credential |-> FALSE, proven |-> FALSE]

AdminInit ==
    /\ pins = <<>> /\ setups = <<>> /\ challenges = <<>> /\ adminSessions = <<>>
    /\ devices = [k \in DeviceKeys |-> NewDevice]
    /\ mfa = [enabled |-> FALSE, secret |-> 0, pending |-> 0, staged |-> 0,
              last |-> -1, recovery |-> FALSE]
    /\ step = 0
    /\ principal = [r \in AdminSlots |-> 0]
    /\ spent = {} /\ replayed = FALSE

-----------------------------------------------------------------------------
(* The PIN *)

InvalidatedPins ==
    [i \in DOMAIN pins |-> IF pins[i].status = "open"
                           THEN [pins[i] EXCEPT !.status = "invalidated"] ELSE pins[i]]

LiveSetups == {i \in DOMAIN setups : ~setups[i].expired}

\* bootstrap_admin: older PINs and setups end and a device still pending in one
\* of them is revoked.
IssuePin ==
    /\ Len(pins) < MaxPins
    /\ pins' = Append(InvalidatedPins, [status |-> "open", failed |-> 0, expired |-> FALSE])
    /\ setups' = [i \in DOMAIN setups |-> [setups[i] EXCEPT
                    !.expired = TRUE, !.completed = @ \/ i \in LiveSetups]]
    /\ devices' = [k \in DeviceKeys |->
          IF ~devices[k].approved /\ \E i \in LiveSetups : setups[i].device = k
          THEN [devices[k] EXCEPT !.revoked = TRUE] ELSE devices[k]]
    /\ UNCHANGED <<challenges, adminSessions, mfa, step, principal, spent, replayed>>

CurrentPins == {i \in DOMAIN pins : pins[i].status = "open"}

PinAccepted(i) == ~pins[i].expired /\ pins[i].failed < PinAttempts

\* A PIN that is wrong, expired or worn out costs an attempt, and the last one
\* invalidates it.
WrongPin ==
    /\ \E i \in CurrentPins :
          LET failed == Min({PinAttempts, pins[i].failed + 1}) IN
          pins' = [pins EXCEPT ![i].failed = failed,
                               ![i].status = IF failed = PinAttempts
                                             THEN "invalidated" ELSE "open"]
    /\ UNCHANGED <<setups, devices, challenges, adminSessions, mfa, step,
                   principal, spent, replayed>>

PinAfterUse(pin) == [pin EXCEPT !.status = "consumed"]

\* A key already approved and not revoked is refused; any other is staged anew.
CanStage(k) == ~(devices[k].approved /\ ~devices[k].revoked)
Staged == [NewDevice EXCEPT !.known = TRUE]

NextSecret == Max({mfa.secret, mfa.staged}) + 1

\* create_bootstrap_session: password, PIN, device and, before MFA is enabled,
\* a first secret, with the challenge for the key.
StartBootstrap(k) ==
    LET required == ~mfa.enabled IN
    /\ \E i \in CurrentPins :
          PinAccepted(i) /\ pins' = [pins EXCEPT ![i] = PinAfterUse(pins[i])]
    /\ CanStage(k)
    /\ Len(challenges) < MaxChallenges
    /\ required => NextSecret <= MaxSecrets
    /\ devices' = [devices EXCEPT ![k] = Staged]
    /\ mfa' = IF required THEN [mfa EXCEPT !.secret = NextSecret, !.pending = NextSecret,
                                           !.staged = NextSecret]
                          ELSE mfa
    /\ setups' = Append(setups, [device |-> k, confirmed |-> FALSE, mfaRequired |-> required,
                                 completed |-> FALSE, expired |-> FALSE])
    /\ challenges' = Append(challenges, [device |-> k, purpose |-> "bootstrap", open |-> TRUE])
    /\ UNCHANGED <<adminSessions, step, principal, spent, replayed>>

-----------------------------------------------------------------------------
(* Challenges, codes and sessions *)

\* The challenge of this device and purpose is consumed with a valid signature;
\* its row is locked, so two requests cannot both consume it.
Consumes(i, k, purpose) ==
    /\ challenges[i].open /\ challenges[i].device = k /\ challenges[i].purpose = purpose
    /\ challenges' = [challenges EXCEPT ![i].open = FALSE]

NewChallenge(k, purpose) ==
    /\ Len(challenges) < MaxChallenges
    /\ challenges' = Append(challenges, [device |-> k, purpose |-> purpose, open |-> TRUE])

WithSession(rows, k) == Append(rows, [device |-> k, revoked |-> FALSE])
AllRevoked(rows) == [i \in DOMAIN rows |-> [rows[i] EXCEPT !.revoked = TRUE]]
RoomForSession == Len(adminSessions) < MaxAdminSessions

Approved(k) == [devices EXCEPT ![k].approved = TRUE, ![k].credential = TRUE]

\* verify_totp: one step of skew, and nothing at or before the last counter.
Counters == {c \in {step - 1, step, step + 1} : c >= 0}

Remember(row, code) ==
    IF code[1] = "recovery" THEN [row EXCEPT !.recovery = FALSE]
                            ELSE [row EXCEPT !.last = code[3]]

CodeAccepted(code) ==
    \/ code = <<"recovery", mfa.secret, 0>> /\ mfa.recovery
    \/ code \in {"totp"} \X {mfa.secret} \X Counters /\ code[3] > mfa.last

Codes == ({"recovery"} \X {mfa.secret} \X {0}) \cup ({"totp"} \X {mfa.secret} \X Counters)

Spend(code) ==
    /\ spent' = spent \cup {code}
    /\ replayed' = (replayed \/ code \in spent)

\* The staged secret becomes the factor: its first code, new recovery codes, and
\* every session of the account ends.
Enabled(code) ==
    [mfa EXCEPT !.enabled = TRUE, !.secret = code[2], !.pending = 0,
                !.last = code[3], !.recovery = TRUE]

-----------------------------------------------------------------------------
(* Setup *)

\* bootstrap_principal: the setup row is locked, then account and device.
SetupUsable(i, allowCompleted) ==
    /\ ~setups[i].expired
    /\ setups[i].completed => allowCompleted
    /\ ~devices[setups[i].device].revoked

RefreshChallenge ==
    /\ \E i \in DOMAIN setups :
          SetupUsable(i, TRUE) /\ NewChallenge(setups[i].device, "bootstrap")
    /\ UNCHANGED <<pins, setups, devices, adminSessions, mfa, step, principal, spent, replayed>>

KeyProven(row) == row.confirmed

\* complete_bootstrap: approval, credential and session in one transaction; it
\* runs again for a completed setup whose answer was lost.
Complete(i, rows) ==
    LET k == setups[i].device IN
    /\ KeyProven(setups'[i])
    /\ RoomForSession
    /\ devices' = [Approved(k) EXCEPT ![k].proven = @ \/ setups'[i].confirmed]
    /\ adminSessions' = WithSession(rows, k)

ConfirmBootstrapDevice(i, c) ==
    LET k == setups[i].device IN
    /\ SetupUsable(i, TRUE)
    /\ Consumes(c, k, "bootstrap")
    /\ setups' = [setups EXCEPT ![i].confirmed = TRUE,
                                ![i].completed = @ \/ ~setups[i].mfaRequired]
    /\ \/ setups[i].mfaRequired /\ UNCHANGED <<devices, adminSessions>>
       \/ ~setups[i].mfaRequired /\ Complete(i, adminSessions)
    /\ UNCHANGED <<pins, mfa, step, principal, spent, replayed>>

MfaReady(i) == setups[i].mfaRequired /\ KeyProven(setups[i]) /\ mfa.pending # 0

ConfirmBootstrapMfa(i) ==
    /\ SetupUsable(i, FALSE)
    /\ MfaReady(i)
    /\ \E code \in {"totp"} \X {mfa.pending} \X Counters :
          mfa' = Enabled(code) /\ Spend(code)
    /\ setups' = [setups EXCEPT ![i].mfaRequired = FALSE, ![i].completed = TRUE]
    /\ Complete(i, AllRevoked(adminSessions))
    /\ UNCHANGED <<pins, challenges, step, principal>>

-----------------------------------------------------------------------------
(* Signing in, replacing the factor, revoking a device *)

LiveDevice(k) == devices[k].approved /\ ~devices[k].revoked

DeviceChallenge(k) ==
    /\ LiveDevice(k)
    /\ NewChallenge(k, "session")
    /\ UNCHANGED <<pins, setups, devices, adminSessions, mfa, step, principal, spent, replayed>>

\* Password and a code; the device row stays locked until the session exists.
PasswordSession(k, c) ==
    /\ mfa.enabled
    /\ LiveDevice(k)
    /\ Consumes(c, k, "session")
    /\ \E code \in Codes : /\ CodeAccepted(code)
                           /\ mfa' = Remember(mfa, code)
                           /\ Spend(code)
    /\ RoomForSession
    /\ adminSessions' = WithSession(adminSessions, k)
    /\ UNCHANGED <<pins, setups, devices, step, principal>>

DeviceSession(k, c) ==
    /\ LiveDevice(k) /\ devices[k].credential
    /\ Consumes(c, k, "session")
    /\ RoomForSession
    /\ adminSessions' = WithSession(adminSessions, k)
    /\ UNCHANGED <<pins, setups, devices, mfa, step, principal, spent, replayed>>

\* current_big_orbit_admin: one read without a lock.
Admitted(s) == ~adminSessions[s].revoked /\ LiveDevice(adminSessions[s].device)

AdmitPrincipal(r) ==
    /\ principal[r] = 0
    /\ \E s \in DOMAIN adminSessions :
          Admitted(s) /\ principal' = [principal EXCEPT ![r] = s]
    /\ UNCHANGED <<pins, setups, devices, challenges, adminSessions, mfa, step, spent, replayed>>

\* Mutant: the session and its device are not read again under the lock.
StillAdmittedOnce(s) == TRUE

\* _lock_big_orbit_principal.
StillAdmitted(s) == Admitted(s)

AdminRefused(r) ==
    /\ principal[r] # 0 /\ ~StillAdmitted(principal[r])
    /\ principal' = [principal EXCEPT ![r] = 0]
    /\ UNCHANGED <<pins, setups, devices, challenges, adminSessions, mfa, step, spent, replayed>>

\* A replacement is staged after the password and a current code; the factor in
\* force stays.
StartMfa(r) ==
    /\ principal[r] # 0 /\ StillAdmitted(principal[r])
    /\ NextSecret <= MaxSecrets
    /\ \E code \in Codes :
          /\ CodeAccepted(code)
          /\ mfa' = [Remember(mfa, code) EXCEPT !.pending = NextSecret, !.staged = NextSecret]
          /\ Spend(code)
    /\ principal' = [principal EXCEPT ![r] = 0]
    /\ UNCHANGED <<pins, setups, devices, challenges, adminSessions, step>>

\* The pending secret is dropped when it is too old.
PendingExpires ==
    /\ mfa.enabled /\ mfa.pending # 0
    /\ mfa' = [mfa EXCEPT !.pending = 0]
    /\ UNCHANGED <<pins, setups, devices, challenges, adminSessions, step, principal,
                   spent, replayed>>

\* Every session ends and the caller's device gets a new one.
ConfirmMfa(r) ==
    /\ principal[r] # 0 /\ StillAdmitted(principal[r])
    /\ mfa.pending # 0
    /\ RoomForSession
    /\ \E code \in {"totp"} \X {mfa.pending} \X Counters :
          mfa' = Enabled(code) /\ Spend(code)
    /\ adminSessions' = WithSession(AllRevoked(adminSessions),
                                    adminSessions[principal[r]].device)
    /\ principal' = [principal EXCEPT ![r] = 0]
    /\ UNCHANGED <<pins, setups, devices, challenges, step>>

\* The device row is locked; the caller's own session is not looked at again.
RevokeDevice(r, k) ==
    /\ principal[r] # 0
    /\ devices[k].known
    /\ devices' = [devices EXCEPT ![k].revoked = TRUE, ![k].credential = FALSE]
    /\ adminSessions' = [i \in DOMAIN adminSessions |->
          [adminSessions[i] EXCEPT !.revoked = @ \/ adminSessions[i].device = k]]
    /\ principal' = [principal EXCEPT ![r] = 0]
    /\ UNCHANGED <<pins, setups, challenges, mfa, step, spent, replayed>>

-----------------------------------------------------------------------------
(* Time *)

AdminTime ==
    \/ /\ \E i \in CurrentPins : ~pins[i].expired /\ pins' = [pins EXCEPT ![i].expired = TRUE]
       /\ UNCHANGED <<setups, devices, challenges, adminSessions, mfa, step,
                      principal, spent, replayed>>
    \/ /\ \E i \in LiveSetups : setups' = [setups EXCEPT ![i].expired = TRUE]
       /\ UNCHANGED <<pins, devices, challenges, adminSessions, mfa, step,
                      principal, spent, replayed>>
    \/ /\ step < LastStep
       /\ step' = step + 1
       /\ UNCHANGED <<pins, setups, devices, challenges, adminSessions, mfa,
                      principal, spent, replayed>>

AdminNext ==
    \/ IssuePin \/ WrongPin \/ RefreshChallenge \/ PendingExpires \/ AdminTime
    \/ \E k \in DeviceKeys : StartBootstrap(k) \/ DeviceChallenge(k)
    \/ \E i \in DOMAIN setups :
          \/ ConfirmBootstrapMfa(i)
          \/ \E c \in DOMAIN challenges : ConfirmBootstrapDevice(i, c)
    \/ \E k \in DeviceKeys, c \in DOMAIN challenges :
          PasswordSession(k, c) \/ DeviceSession(k, c)
    \/ \E r \in AdminSlots :
          \/ AdmitPrincipal(r) \/ AdminRefused(r) \/ StartMfa(r) \/ ConfirmMfa(r)
          \/ \E k \in DeviceKeys : RevokeDevice(r, k)

AdminSpec == AdminInit /\ [][AdminNext]_adminVars

-----------------------------------------------------------------------------
(* Properties *)

\* Every variable has its type.
AdminTypeOK ==
    /\ pins \in Seq(PinRows) /\ setups \in Seq(SetupRows)
    /\ devices \in [DeviceKeys -> DeviceRows]
    /\ challenges \in Seq(ChallengeRows)
    /\ adminSessions \in Seq(AdminSessionRows)
    /\ mfa \in MfaRows
    /\ step \in 0..LastStep
    /\ principal \in [AdminSlots -> 0..MaxAdminSessions]
    /\ replayed \in BOOLEAN

\* A live administrator session is bound to an approved device that is not
\* revoked, whichever way sign-in, MFA replacement, re-enrolment and revocation
\* interleave ("Lock the owning account before its device so session rotation
\* cannot race", routes/big_orbit_auth.py).
LiveSessionsHaveLiveDevices ==
    \A i \in DOMAIN adminSessions :
        ~adminSessions[i].revoked => LiveDevice(adminSessions[i].device)

\* A device is approved only after its key was proven since it was last staged
\* and after MFA was enabled (confirm_bootstrap_device, confirm_bootstrap_mfa).
ApprovedAfterProof ==
    \A k \in DeviceKeys : devices[k].approved => devices[k].proven /\ mfa.enabled

\* At most one setup can go on, and none while a PIN is waiting to be used: one
\* PIN admits one device ("Invalidate older setup capabilities").
OnePinOneSetup == Cardinality(LiveSetups) + Cardinality(CurrentPins) <= 1

\* A one-time code is accepted once (verify_totp, _verify_factor).
CodesWorkOnce == ~replayed

\* Administrator access always rests on a device that was proven and is still
\* approved, on one PIN and on codes used once, however sign-in, enrolment, MFA
\* replacement and revocation interleave (routes/big_orbit_auth.py,
\* routes/big_orbit_bootstrap.py).
AdminAccessIsProven ==
    LiveSessionsHaveLiveDevices /\ ApprovedAfterProof /\ OnePinOneSetup /\ CodesWorkOnce
=============================================================================
