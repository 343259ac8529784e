----------------------------- MODULE PgDeviceStore -----------------------------
(***************************************************************************)
(* What the Postgres device-auth store (src/src/store/pg/device-auth.ts)   *)
(* adds to the D1 one: the statements that concurrent connections run on   *)
(* one account's credentials, devices and login guard, under READ          *)
(* COMMITTED, and the single retry of executor.ts.                         *)
(*                                                                         *)
(* A statement sees the rows committed when it starts.  It writes them one *)
(* by one: a row another transaction has written is waited for and then    *)
(* looked at again, and a row that no longer qualifies is skipped.  What a *)
(* transaction has written stays its own, and locked, until it commits.    *)
(***************************************************************************)
EXTENDS Integers, FiniteSets

CONSTANTS
    Changes,     \* replaceCredential transactions; each inserts the PIN it names
    RevokeAlls,  \* revokeAllDevices statements
    Logins,      \* reserveLoginAttempt, and lockAccount after a wrong PIN
    Resets,      \* resetLoginGuard statements
    Devices,     \* the account's trusted devices
    OldPin,      \* the PIN the account may have to begin with
    Nobody,
    PinMaxAttempts,
    RevokeOthersOnChange

VARIABLES
    kept,     \* the device a change or a revoke-all spares, or Nobody
    pin,      \* committed auth_credentials: "none", "live" or "revoked"
    revoked,  \* committed auth_trusted_devices: those with revoked_at
    guard,    \* committed auth_login_guards: there, failed, locked
    keyLock,  \* who holds the account's advisory lock
    stage,
    todo,     \* the rows the statement under way has yet to write
    wrote,    \* the rows a transaction has written
    guardBy,  \* the transaction that has written the guard row
    retried,  \* the calls under way that retryOnce runs a second time
    before,   \* the guard in a reset's snapshot
    charged,  \* history: committed reservations of each login
    untold,   \* history: failures no reset has reported, nor a change cleared
    tallies   \* history: per device, the committed statements that revoked it

rows == <<pin, revoked, guard>>
locks == <<keyLock, todo, wrote, guardBy>>
ledger == <<charged, untold, tallies>>
pgVars == <<kept, rows, locks, stage, retried, before, ledger>>

Txns == Changes \cup RevokeAlls
PgCalls == Txns \cup Logins \cup Resets
Pins == Changes \cup {OldPin}

\* Different things have different names; the limit is a number, the option a
\* switch.
ASSUME PgAssumption ==
    /\ Changes \cap (RevokeAlls \cup Logins \cup Resets) = {}
    /\ RevokeAlls \cap (Logins \cup Resets) = {}
    /\ Logins \cap Resets = {}
    /\ Devices \cap Pins = {}
    /\ {OldPin, Nobody} \cap Changes = {} /\ OldPin # Nobody
    /\ PinMaxAttempts \in Nat
    /\ RevokeOthersOnChange \in BOOLEAN

Live == {p \in Pins : pin[p] = "live"}
NoGuard == [there |-> FALSE, failed |-> 0, locked |-> FALSE]

PgInit ==
    /\ kept \in [Txns -> Devices \cup {Nobody}]
    /\ \E had \in {"live", "none"} :
           pin = [p \in Pins |-> IF p = OldPin THEN had ELSE "none"]
    /\ revoked = {}
    /\ guard = NoGuard
    /\ keyLock = Nobody
    /\ stage = [c \in PgCalls |-> "begin"]
    /\ todo = [t \in Txns |-> {}]
    /\ wrote = [t \in Txns |-> {}]
    /\ guardBy = Nobody
    /\ retried = {}
    /\ before = [r \in Resets |-> NoGuard]
    /\ charged = [l \in Logins |-> 0]
    /\ untold = 0
    /\ tallies = [d \in Devices |-> 0]

Move(c, from, to) ==
    /\ stage[c] = from
    /\ stage' = [stage EXCEPT ![c] = to]

---------------------------------------------------------------------------
\* retryOnce

RetryableMutant(code) == code # "23505"
Retryable(code) == code \in {"40001", "40P01"}

\* An error of call c: the call is run from the start once more, or rejects.
Fail(c, code) ==
    IF Retryable(code) /\ c \notin retried
      THEN /\ stage' = [stage EXCEPT ![c] = "begin"]
           /\ retried' = retried \cup {c}
      ELSE /\ stage' = [stage EXCEPT ![c] = IF code = "23505" THEN "duplicate" ELSE "failed"]
           /\ retried' = retried \ {c}

\* The answer of a call that has taken effect arrives, or is lost on the way.
Return(c, to) ==
    \/ /\ stage' = [stage EXCEPT ![c] = to]
       /\ retried' = retried \ {c}
    \/ Fail(c, "network")

---------------------------------------------------------------------------
\* Transactions

Finished == {"begin", "done", "failed", "duplicate"}

Release(t) ==
    /\ keyLock' = IF keyLock = t THEN Nobody ELSE keyLock
    /\ guardBy' = IF guardBy = t THEN Nobody ELSE guardBy
    /\ todo' = [todo EXCEPT ![t] = {}]
    /\ wrote' = [wrote EXCEPT ![t] = {}]

\* What a rolled back transaction leaves behind.
SurvivorsMutant(t) == wrote[t]
Survivors(t) == {}

\* A deadlock, a serialization failure or a broken connection rolls it back.
Abort(t) ==
    /\ stage[t] \notin Finished
    /\ \E code \in {"40P01", "network"} : Fail(t, code)
    /\ Release(t)
    /\ pin' = [p \in Pins |-> IF p \in Survivors(t) THEN "revoked" ELSE pin[p]]
    /\ revoked' = revoked \cup (Survivors(t) \cap Devices)
    /\ UNCHANGED <<kept, guard, before, ledger>>

\* One row of the UPDATE under way, once nobody else has it.
StillQualifiesMutant(r) == TRUE
StillQualifies(r) == r \in Live \cup (Devices \ revoked)

WriteRow(t, r) ==
    /\ r \in todo[t]
    /\ \A u \in Txns : r \notin wrote[u]
    /\ todo' = [todo EXCEPT ![t] = @ \ {r}]
    /\ wrote' = [wrote EXCEPT ![t] = IF StillQualifies(r) THEN @ \cup {r} ELSE @]
    /\ UNCHANGED <<kept, rows, keyLock, guardBy, stage, retried, before, ledger>>

\* The devices an UPDATE of them sees to revoke.
OtherDevices(t) == Devices \ (revoked \cup {kept[t]})

---------------------------------------------------------------------------
\* replaceCredential

LockFreeMutant(c) == keyLock \in Changes \cup {Nobody}
LockFree(c) == keyLock = Nobody

TakeLock(c) ==
    /\ LockFree(c)
    /\ keyLock' = c
    /\ Move(c, "begin", "devices")
    /\ UNCHANGED <<kept, rows, todo, wrote, guardBy, retried, before, ledger>>

\* "Only while a live credential still exists, i.e. one is being replaced."
IsReplacementMutant == TRUE
IsReplacement == Live # {}

StartDevices(c) ==
    /\ Move(c, "devices", "run devices")
    /\ todo' = [todo EXCEPT ![c] =
           IF RevokeOthersOnChange /\ IsReplacement THEN OtherDevices(c) ELSE {}]
    /\ UNCHANGED <<kept, rows, keyLock, wrote, guardBy, retried, before, ledger>>

StartRevoke(c) ==
    /\ todo[c] = {}
    /\ Move(c, "run devices", "run revoke")
    /\ todo' = [todo EXCEPT ![c] = Live]
    /\ UNCHANGED <<kept, rows, keyLock, wrote, guardBy, retried, before, ledger>>

\* The unique index waits for whoever may still take the place or leave it.
Unsettled(c) == \E d \in Changes \ {c} :
    stage[d] \in {"inserted", "ready"} \/ wrote[d] \cap Live # {}

InsertPin(c) ==
    /\ todo[c] = {}
    /\ stage[c] = "run revoke"
    /\ ~Unsettled(c)
    /\ IF Live \subseteq wrote[c]
         THEN /\ stage' = [stage EXCEPT ![c] = "inserted"]
              /\ UNCHANGED <<retried, locks>>
         ELSE /\ Fail(c, "23505")
              /\ Release(c)
    /\ UNCHANGED <<kept, rows, before, ledger>>

\* A guard row that is not there locks nothing.
ClearGuard(c) ==
    /\ Move(c, "inserted", "ready")
    /\ guardBy = Nobody
    /\ guardBy' = IF guard.there THEN c ELSE Nobody
    /\ UNCHANGED <<kept, rows, keyLock, todo, wrote, retried, before, ledger>>

Tally(t) == [d \in Devices |-> tallies[d] + IF d \in wrote[t] THEN 1 ELSE 0]

CommitChange(c) ==
    /\ stage[c] = "ready"
    /\ Return(c, "done")
    /\ pin' = [p \in Pins |-> IF p = c THEN "live"
                              ELSE IF p \in wrote[c] THEN "revoked" ELSE pin[p]]
    /\ revoked' = revoked \cup (wrote[c] \cap Devices)
    /\ guard' = IF guardBy = c THEN [NoGuard EXCEPT !.there = TRUE] ELSE guard
    /\ untold' = IF guardBy = c THEN untold - guard.failed ELSE untold
    /\ tallies' = Tally(c)
    /\ Release(c)
    /\ UNCHANGED <<kept, before, charged>>

---------------------------------------------------------------------------
\* revokeAllDevices: one statement, its own transaction.

StartRevokeAll(a) ==
    /\ Move(a, "begin", "run")
    /\ todo' = [todo EXCEPT ![a] = OtherDevices(a)]
    /\ UNCHANGED <<kept, rows, keyLock, wrote, guardBy, retried, before, ledger>>

CommitRevokeAll(a) ==
    /\ stage[a] = "run"
    /\ todo[a] = {}
    /\ Return(a, "done")
    /\ revoked' = revoked \cup wrote[a]
    /\ tallies' = Tally(a)
    /\ Release(a)
    /\ UNCHANGED <<kept, pin, guard, before, charged, untold>>

---------------------------------------------------------------------------
\* The login guard.  A one-row statement waits for the row, then takes effect.

MayAttempt == guard.failed < PinMaxAttempts /\ ~guard.locked

\* An upsert whose WHERE is false changes nothing and returns no row.
Reserve(l) ==
    /\ stage[l] = "begin"
    /\ guardBy = Nobody
    /\ IF MayAttempt
         THEN /\ guard' = [guard EXCEPT !.there = TRUE, !.failed = @ + 1]
              /\ charged' = [charged EXCEPT ![l] = @ + 1]
              /\ untold' = untold + 1
              /\ Return(l, "wrong")
         ELSE /\ Return(l, "done")
              /\ UNCHANGED <<guard, charged, untold>>
    /\ UNCHANGED <<kept, pin, revoked, locks, before, tallies>>

\* lockAccount, after a wrong PIN.
LockAccount(l) ==
    /\ stage[l] = "wrong"
    /\ guardBy = Nobody
    /\ stage' = [stage EXCEPT ![l] = "done"]
    /\ guard' = [guard EXCEPT !.locked = @ \/ guard.failed >= PinMaxAttempts]
    /\ UNCHANGED <<kept, pin, revoked, locks, retried, before, ledger>>

StartReset(r) ==
    /\ Move(r, "begin", "run")
    /\ before' = [before EXCEPT ![r] = guard]
    /\ UNCHANGED <<kept, rows, locks, retried, ledger>>

\* FOR UPDATE: the row is locked before it is read.
ReportedMutant(r) == before[r]
Reported(r) == guard

FinishReset(r) ==
    /\ stage[r] = "run"
    /\ before[r].there
    /\ guardBy = Nobody
    /\ guard' = [guard EXCEPT !.failed = 0, !.locked = FALSE]
    /\ before' = [before EXCEPT ![r] = NoGuard]
    /\ \/ /\ stage' = [stage EXCEPT ![r] = "done"]
          /\ untold' = untold - Reported(r).failed
          /\ retried' = retried \ {r}
       \/ /\ Fail(r, "network")
          /\ untold' = untold - guard.failed
    /\ UNCHANGED <<kept, pin, revoked, locks, charged, tallies>>

\* A row that was not there when the statement started is not seen by it.
ResetNothing(r) ==
    /\ stage[r] = "run"
    /\ ~before[r].there
    /\ Return(r, "done")
    /\ UNCHANGED <<kept, rows, locks, before, ledger>>

\* A one-row statement fails before it takes effect.
Reject(c) ==
    /\ stage[c] \in {"begin", "run"}
    /\ \E code \in {"40001", "network"} : Fail(c, code)
    /\ UNCHANGED <<kept, rows, locks, before, ledger>>

---------------------------------------------------------------------------
Change(c) ==
    \/ TakeLock(c) \/ StartDevices(c) \/ StartRevoke(c)
    \/ InsertPin(c) \/ ClearGuard(c) \/ CommitChange(c)

PgNext ==
    \/ \E c \in Changes : Change(c)
    \/ \E a \in RevokeAlls : StartRevokeAll(a) \/ CommitRevokeAll(a)
    \/ \E t \in Txns : Abort(t) \/ \E r \in Devices \cup Pins : WriteRow(t, r)
    \/ \E l \in Logins : Reserve(l) \/ LockAccount(l)
    \/ \E r \in Resets : StartReset(r) \/ FinishReset(r) \/ ResetNothing(r)
    \/ \E c \in Logins \cup Resets : Reject(c)

PgSpec == PgInit /\ [][PgNext]_pgVars

---------------------------------------------------------------------------
(* Types; the guard's count stays within its limit.                          *)
PgTypeOK ==
    /\ kept \in [Txns -> Devices \cup {Nobody}]
    /\ pin \in [Pins -> {"none", "live", "revoked"}]
    /\ revoked \subseteq Devices
    /\ guard \in [there : BOOLEAN, failed : 0..PinMaxAttempts, locked : BOOLEAN]
    /\ keyLock \in Changes \cup {Nobody}
    /\ guardBy \in Changes \cup {Nobody}
    /\ todo \in [Txns -> SUBSET (Devices \cup Pins)]
    /\ wrote \in [Txns -> SUBSET (Devices \cup Pins)]
    /\ retried \subseteq PgCalls
    /\ charged \in [Logins -> Nat]
    /\ untold \in Int
    /\ tallies \in [Devices -> Nat]

(* Two PIN changes at once never end in a unique violation ("Without the     *)
(* lock ... its own INSERT then violates the one-live-PIN index",            *)
(* replaceCredentialStatements).                                             *)
NoChangeCollides == \A c \in Changes : stage[c] # "duplicate"

(* All of a PIN change or none: an account that has a PIN is never without   *)
(* one, nor with two, whatever change fails part-way.                        *)
Ever == {p \in Pins : pin[p] # "none"}
OnePin == Ever # {} => Cardinality(Live) = 1

(* The other devices are put out by a change that replaces a PIN, together   *)
(* with it, and never by the account's first PIN (replaceCredential).        *)
DevicesGoWithThePin ==
    [][\A c \in Changes : pin'[c] = "live" /\ pin[c] # "live" =>
           revoked' = IF Live # {} /\ RevokeOthersOnChange
                        THEN revoked \cup OtherDevices(c) ELSE revoked]_pgVars

(* Each device's revocation is reported by one call, whatever waits for the  *)
(* row meanwhile (RETURNING rows of revokeAllDevices and replaceCredential). *)
RevokedOnce == \A d \in Devices : tallies[d] = IF d \in revoked THEN 1 ELSE 0

(* A reservation is charged once, retried or not ("running a reservation     *)
(* again there would charge it twice", retryOnce).                           *)
ChargedOnce == \A l \in Logins : charged[l] <= 1

(* What resetLoginGuard reports is what it clears ("a failure or lock        *)
(* committed by a concurrent request is waited for and reported"): the       *)
(* failures nobody was told of are those the guard still counts.             *)
ResetsTellAll == untold = guard.failed
=============================================================================
