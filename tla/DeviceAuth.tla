-------------------------------- MODULE DeviceAuth --------------------------------
(***************************************************************************)
(* The PIN, the trusted devices and the sessions of one account, as the    *)
(* routes of deviceAuth() change them (src/src/device-auth/index.ts) over  *)
(* d1DeviceAuthStore, with sessions read through deviceBoundSessionStore.  *)
(*                                                                         *)
(* Every request is a process of one store call per step, and any call may *)
(* throw.  A device, a credential or a session is named by the request     *)
(* that created it.  An email request starts here once its code has been   *)
(* verified; module EmailCode has what comes before.                       *)
(*                                                                         *)
(* Time is abstracted: a device expires at any moment, and a session whose *)
(* email verification is no longer fresh is one that sets no PIN.          *)
(***************************************************************************)
EXTENDS Integers, FiniteSets

CONSTANTS
    Emails,                \* POST /email/verify, with a verified code
    Logins,                \* POST /pin/login
    PinSets,               \* POST /pin
    RevokeAlls,            \* POST /devices/revoke-all, or revokeAllDevices()
    NoDevice, NoCred,
    PinMaxAttempts,        \* option pin.maxAttempts
    RevokeOthersOnChange   \* option pin.revokeOtherDevicesOnChange

Minters == Emails \cup Logins      \* the requests that mint a session

Requests == Minters \cup PinSets \cup RevokeAlls

ASSUME RequestsAssumption ==
    /\ IsFiniteSet(Logins)
    /\ Emails \cap Logins = {} /\ Emails \cap PinSets = {} /\ Emails \cap RevokeAlls = {}
    /\ Logins \cap PinSets = {} /\ Logins \cap RevokeAlls = {}
    /\ PinSets \cap RevokeAlls = {}
    /\ NoDevice \notin Emails /\ NoCred \notin PinSets

ASSUME OptionsAssumption ==
    /\ PinMaxAttempts \in Nat \ {0}
    /\ RevokeOthersOnChange \in BOOLEAN

VARIABLES
    devices,     \* auth_trusted_devices; "gone" is revoked or deleted
    creds,       \* auth_credentials of type 'pin'
    guard,       \* auth_login_guards
    sessions,    \* the session store
    pc,
    device,      \* the device a minter presented or registered
    credential,  \* the credential a login read
    via,         \* the session a PIN change was made with
    \* History, read by the properties only.
    wrong,       \* logins that compared a wrong PIN since the guard was reset
    out          \* the devices a PIN change or a revoke-all put out

tables  == <<devices, creds, guard, sessions>>
request == <<device, credential, via>>
history == <<wrong, out>>
vars    == <<tables, pc, request, history>>

Init ==
    /\ devices = [e \in Emails |-> "none"]
    /\ creds = [p \in PinSets |-> "none"]
    /\ guard = [failed |-> 0, locked |-> FALSE]
    /\ sessions = [m \in Minters |-> "none"]
    /\ pc = [r \in Requests |-> "idle"]
    /\ device = [m \in Minters |-> NoDevice]
    /\ credential = [l \in Logins |-> NoCred]
    /\ via = [p \in PinSets |-> NoDevice]
    /\ wrong = {}
    /\ out = [x \in PinSets \cup RevokeAlls |-> {}]

Goto(r, label) == pc' = [pc EXCEPT ![r] = label]

InFlight(r) == pc[r] \notin {"idle", "done", "refused"}

-----------------------------------------------------------------------------
(* The tables.                                                              *)

\* readDevice: known, not revoked, not expired.
Live(d) == d \in Emails /\ devices[d] = "live"

\* Rows with revoked_at NULL, expired or not.
Unrevoked == {d \in Emails : devices[d] \in {"live", "expired"}}

WithoutDevices(gone) == [d \in Emails |-> IF d \in gone THEN "gone" ELSE devices[d]]

\* resetLoginGuard, alone or inside replaceCredential.
GuardReset ==
    /\ guard' = [failed |-> 0, locked |-> FALSE]
    /\ wrong' = {}

\* touchDevice finds the row unrevoked.  (The request's `now` is the one
\* readDevice used, so it does not see an expiry in between.)
Touchable(d) == d \in Unrevoked

\* Touching extends the device, but not over its absolute lifetime.
TouchDevice(d) == devices' \in {devices, [devices EXCEPT ![d] = "live"]}

\* reserveLoginAttempt counts before the PIN is checked, or refuses.
MayAttemptMutant == ~guard.locked
MayAttempt == guard.failed < PinMaxAttempts /\ ~guard.locked

\* lockAccount locks only an account that has used its attempts by then.
MayLockMutant == TRUE
MayLock == guard.failed >= PinMaxAttempts

\* replaceCredential: revoke the PIN in force, insert the new one.
PinsAfterMutant(p) == [creds EXCEPT ![p] = "live"]
PinsAfter(p) ==
    [q \in PinSets |-> CASE q = p             -> "live"
                         [] creds[q] = "live" -> "revoked"
                         [] OTHER             -> creds[q]]

\* revokeAllForUser: every session there is.
AllEnded == [m \in Minters |-> IF sessions[m] = "live" THEN "ended" ELSE sessions[m]]

\* deviceBoundSessionStore.get: a session minted on a device is only as good
\* as the device.
UsableMutant(s) == sessions[s] = "live"
Usable(s) ==
    /\ sessions[s] = "live"
    /\ device[s] # NoDevice => Live(device[s])

-----------------------------------------------------------------------------
(* POST /email/verify, once the code is verified.                           *)

\* resetLoginGuard: "An email code is the only thing that lifts a PIN lockout."
EmailUnlock(e) ==
    /\ pc[e] = "idle"
    /\ GuardReset
    /\ Goto(e, "trust")
    /\ UNCHANGED <<devices, creds, sessions, request, out>>

\* trustDevice: reuse the presented device if it is live, else register one;
\* with trustDevice false the session has no device.
EmailTrust(e) ==
    /\ pc[e] = "trust"
    /\ \/ \E d \in Emails :
            /\ Live(d)
            /\ device' = [device EXCEPT ![e] = d]
            /\ Goto(e, "touch")
       \/ Goto(e, "register") /\ UNCHANGED device
       \/ Goto(e, "mint") /\ UNCHANGED device
    /\ UNCHANGED <<tables, credential, via, history>>

EmailTouch(e) ==
    LET d == device[e]
    IN  /\ pc[e] = "touch"
        /\ \/ Touchable(d) /\ TouchDevice(d) /\ Goto(e, "mint")
           \/ ~Touchable(d) /\ UNCHANGED devices /\ Goto(e, "register")
        /\ UNCHANGED <<creds, guard, sessions, request, history>>

\* createDevice.
EmailRegister(e) ==
    /\ pc[e] = "register"
    /\ devices' = [devices EXCEPT ![e] = "live"]
    /\ device' = [device EXCEPT ![e] = e]
    /\ Goto(e, "mint")
    /\ UNCHANGED <<creds, guard, sessions, credential, via, history>>

\* createSession, for an email verification and for a PIN login.
Mint(m) ==
    /\ pc[m] = "mint"
    /\ sessions' = [sessions EXCEPT ![m] = "live"]
    /\ Goto(m, "done")
    /\ UNCHANGED <<devices, creds, guard, request, history>>

-----------------------------------------------------------------------------
(* POST /pin/login.                                                         *)

\* readDevice: only a live device gets any further.
LoginReadDevice(l) ==
    /\ pc[l] = "idle"
    /\ \/ \E d \in Emails :
            /\ Live(d)
            /\ device' = [device EXCEPT ![l] = d]
            /\ Goto(l, "credential")
       \/ Goto(l, "refused") /\ UNCHANGED device
    /\ UNCHANGED <<tables, credential, via, history>>

\* getActiveCredential: from here on the login holds a copy of this PIN.
LoginReadCredential(l) ==
    /\ pc[l] = "credential"
    /\ \/ \E p \in PinSets :
            /\ creds[p] = "live"
            /\ credential' = [credential EXCEPT ![l] = p]
            /\ Goto(l, "attempt")
       \/ /\ \A p \in PinSets : creds[p] # "live"
          /\ Goto(l, "refused")
          /\ UNCHANGED credential
    /\ UNCHANGED <<tables, device, via, history>>

(***************************************************************************)
(* reserveLoginAttempt, then the PBKDF2 comparison of the submitted PIN    *)
(* with the copy.  The comparison reads no table, so which way it goes is  *)
(* drawn here; the steps it leads to come later.                           *)
(***************************************************************************)
LoginAttempt(l) ==
    LET count == guard.failed + 1
    IN  /\ pc[l] = "attempt"
        /\ \/ /\ MayAttempt
              /\ guard' = [guard EXCEPT !.failed = count]
              /\ \/ Goto(l, "unlock") /\ UNCHANGED wrong
                 \/ /\ Goto(l, IF count >= PinMaxAttempts THEN "lock" ELSE "refused")
                    /\ wrong' = wrong \cup {l}
           \/ ~MayAttempt /\ Goto(l, "refused") /\ UNCHANGED <<guard, wrong>>
        /\ UNCHANGED <<devices, creds, sessions, device, credential, via, out>>

\* A wrong PIN used the last attempt: lockAccount.
LoginLock(l) ==
    /\ pc[l] = "lock"
    /\ guard' = [guard EXCEPT !.locked = @ \/ MayLock]
    /\ Goto(l, "refused")
    /\ UNCHANGED <<devices, creds, sessions, request, history>>

\* The PIN was right: resetLoginGuard.  markCredentialUsed follows (when the
\* PIN was last used, and its material under the current key) and resolveUser,
\* which may refuse.
LoginUnlock(l) ==
    /\ pc[l] = "unlock"
    /\ GuardReset
    /\ \/ Goto(l, "touch")
       \/ Goto(l, "refused")
    /\ UNCHANGED <<devices, creds, sessions, request, out>>

LoginTouch(l) ==
    LET d == device[l]
    IN  /\ pc[l] = "touch"
        /\ \/ Touchable(d) /\ TouchDevice(d) /\ Goto(l, "mint")
           \/ ~Touchable(d) /\ UNCHANGED devices /\ Goto(l, "refused")
        /\ UNCHANGED <<creds, guard, sessions, request, history>>

-----------------------------------------------------------------------------
(* POST /pin.                                                               *)

\* gate and freshness: only a usable session of a recent email verification.
PinGate(p) ==
    /\ pc[p] = "idle"
    /\ \E s \in Emails :
         /\ Usable(s)
         /\ via' = [via EXCEPT ![p] = s]
    /\ Goto(p, "replace")
    /\ UNCHANGED <<tables, device, credential, history>>

(***************************************************************************)
(* replaceCredential, one transaction: with revokeOtherDevicesOnChange and *)
(* a live PIN to replace, the devices other than the session's are revoked;*)
(* the old PIN is revoked, the new one inserted, the guard cleared.        *)
(***************************************************************************)
PinReplace(p) ==
    LET replaced == \E q \in PinSets : creds[q] = "live"
        signsOut == replaced /\ RevokeOthersOnChange
        others == IF signsOut THEN Unrevoked \ {device[via[p]]} ELSE {}
    IN  /\ pc[p] = "replace"
        /\ devices' = WithoutDevices(others)
        /\ creds' = PinsAfter(p)
        /\ GuardReset
        /\ out' = [out EXCEPT ![p] = others]
        /\ Goto(p, IF signsOut THEN "signOut" ELSE "done")
        /\ UNCHANGED <<sessions, request>>

\* revokeAllForUser, after the transaction or after revokeAllDevices.
SignOut(x) ==
    /\ pc[x] = "signOut"
    /\ sessions' = AllEnded
    /\ Goto(x, "done")
    /\ UNCHANGED <<devices, creds, guard, request, history>>

-----------------------------------------------------------------------------
(* The other routes and the surroundings.                                   *)

\* revokeAllDevices; the sessions follow in SignOut.
RevokeAllDevices(a) ==
    /\ pc[a] = "idle"
    /\ devices' = WithoutDevices(Unrevoked)
    /\ out' = [out EXCEPT ![a] = Unrevoked]
    /\ Goto(a, "signOut")
    /\ UNCHANGED <<creds, guard, sessions, request, wrong>>

\* /devices/:id/revoke, /device/forget and revokeDevice(), or cleanup() of an
\* expired row.
RevokeDevice(d) ==
    /\ d \in Unrevoked
    /\ devices' = WithoutDevices({d})
    /\ UNCHANGED <<creds, guard, sessions, pc, request, history>>

ExpireDevice(d) ==
    /\ Live(d)
    /\ devices' = [devices EXCEPT ![d] = "expired"]
    /\ UNCHANGED <<creds, guard, sessions, pc, request, history>>

\* /logout, the rotation of a client's previous session by its next login, a
\* session's expiry, or deviceBoundSessionStore ending one whose device is gone.
EndSession(s) ==
    /\ sessions[s] = "live"
    /\ sessions' = [sessions EXCEPT ![s] = "ended"]
    /\ UNCHANGED <<devices, creds, guard, pc, request, history>>

\* A store call or a callback throws: the request ends where it stands.
Throw(r) ==
    /\ InFlight(r)
    /\ Goto(r, "refused")
    /\ UNCHANGED <<tables, request, history>>

Email(e) ==
    EmailUnlock(e) \/ EmailTrust(e) \/ EmailTouch(e) \/ EmailRegister(e) \/ Mint(e)

Login(l) ==
    \/ LoginReadDevice(l) \/ LoginReadCredential(l) \/ LoginAttempt(l)
    \/ LoginLock(l) \/ LoginUnlock(l) \/ LoginTouch(l) \/ Mint(l)

PinSet(p) == PinGate(p) \/ PinReplace(p) \/ SignOut(p)

RevokeAll(a) == RevokeAllDevices(a) \/ SignOut(a)

Next ==
    \/ \E e \in Emails : Email(e) \/ RevokeDevice(e) \/ ExpireDevice(e)
    \/ \E l \in Logins : Login(l)
    \/ \E p \in PinSets : PinSet(p)
    \/ \E a \in RevokeAlls : RevokeAll(a)
    \/ \E s \in Minters : EndSession(s)
    \/ \E r \in Requests : Throw(r)

Spec == Init /\ [][Next]_vars

-----------------------------------------------------------------------------
(* Properties.                                                              *)

Labels == {"idle", "trust", "touch", "register", "mint", "credential", "attempt",
           "lock", "unlock", "replace", "signOut", "done", "refused"}

\* The unique index of auth_credentials: one PIN is in force at a time.
OnePin == \A p, q \in PinSets : creds[p] = "live" /\ creds[q] = "live" => p = q

\* The types of the tables, with the schema's unique index, and of the
\* requests' locals.
TypeOK ==
    /\ OnePin
    /\ devices \in [Emails -> {"none", "live", "expired", "gone"}]
    /\ creds \in [PinSets -> {"none", "live", "revoked"}]
    /\ guard \in [failed : Nat, locked : BOOLEAN]
    /\ sessions \in [Minters -> {"none", "live", "ended"}]
    /\ pc \in [Requests -> Labels]
    /\ device \in [Minters -> Emails \cup {NoDevice}]
    /\ credential \in [Logins -> PinSets \cup {NoCred}]
    /\ via \in [PinSets -> Emails \cup {NoDevice}]
    /\ wrong \subseteq Logins
    /\ out \in [PinSets \cup RevokeAlls -> SUBSET Emails]

(***************************************************************************)
(* Between two resets of the guard at most PinMaxAttempts wrong PINs are   *)
(* compared, however many logins run at once (SECURITY.md, "Attempts are   *)
(* reserved before they are checked").                                     *)
(***************************************************************************)
PinGuessCap == Cardinality(wrong) <= PinMaxAttempts

(***************************************************************************)
(* A lock stands only on a spent counter: the late lockAccount of a login  *)
(* that failed before the guard was reset does not lock the account anew   *)
(* (store.ts, lockAccount's WHERE).                                        *)
(***************************************************************************)
LockIsEarned == guard.locked => guard.failed >= PinMaxAttempts

(***************************************************************************)
(* Once a PIN change or a revoke-all has put a device out, no session of   *)
(* that device authenticates again: not one minted before, and not one of  *)
(* a login or a verification that was already under way; nor does it take  *)
(* the later sign-out step to succeed (index.ts, comments in POST /pin).   *)
(***************************************************************************)
PutOutStaysOut ==
    \A x \in PinSets \cup RevokeAlls : \A s \in Minters :
        device[s] \in out[x] => ~Usable(s)

(***************************************************************************)
(* "Time does not unlock; only a successful email code does" (SECURITY.md; *)
(* index.ts, "An email code is the only thing that lifts a PIN lockout").  *)
(***************************************************************************)
OnlyEmailUnlocks ==
    [][guard.locked /\ ~guard'.locked =>
        \/ \E e \in Emails : EmailUnlock(e)
        \/ \E p \in PinSets : PinReplace(p)]_vars

(***************************************************************************)
(* After a PIN change that signs out, the kept device "logs in again with  *)
(* the new PIN" (index.ts, POST /pin): no usable session rests on a PIN    *)
(* that was replaced.                                                      *)
(***************************************************************************)
NewPinOnly ==
    \A p \in PinSets, l \in Logins :
        (/\ RevokeOthersOnChange
         /\ pc[p] = "done" /\ creds[p] = "live"
         /\ pc[l] = "done" /\ Usable(l))
        => credential[l] = p
=============================================================================
