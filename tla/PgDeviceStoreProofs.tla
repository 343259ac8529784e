-------------------------- MODULE PgDeviceStoreProofs --------------------------
(***************************************************************************)
(* Proofs about PgDeviceStore: concurrent PIN changes never collide, leave *)
(* one PIN, take the devices along, and report and charge everything once, *)
(* whatever is rolled back and run again; and, with SqlSessionsProofs, the *)
(* types of the two stores side by side (MCSqlStores).                     *)
(***************************************************************************)
EXTENDS MCSqlStores, SqlSessionsProofs, FiniteSetTheorems, TLAPS

-----------------------------------------------------------------------------
(* The inductive invariant.                                                 *)

Stages == {"begin", "devices", "run devices", "run revoke", "inserted", "ready",
        "run", "wrong", "done", "failed"}

StageTypes ==
    /\ stage \in [PgCalls -> Stages]
    /\ \A l \in Logins : stage[l] \in {"begin", "wrong", "done", "failed"}
    /\ \A r \in Resets : stage[r] \in {"begin", "run", "done", "failed"}

\* The advisory lock lets one change at a time past its first statement.
LockHeld == \A c \in Changes : stage[c] \notin Finished => keyLock = c

\* A written row still qualifies, and is its writer's alone.
Written ==
    /\ \A t \in Txns : stage[t] \in Finished => todo[t] = {} /\ wrote[t] = {}
    /\ \A t \in Txns : wrote[t] \subseteq Live \cup (Devices \ revoked)
    /\ \A t, u \in Txns : t # u => wrote[t] \cap wrote[u] = {}
    /\ \A t \in Txns : kept[t] \notin todo[t] \cup wrote[t]
    /\ \A a \in RevokeAlls : todo[a] \cup wrote[a] \subseteq Devices

\* How far a change has got with the account's devices and with its PIN.
Progress(c) ==
    /\ stage[c] = "devices" => todo[c] = {} /\ wrote[c] = {}
    /\ stage[c] = "run devices" => todo[c] \cup wrote[c] \subseteq Devices
    /\ stage[c] \in {"run devices", "run revoke", "inserted", "ready"} =>
           IF RevokeOthersOnChange /\ Live # {}
             THEN OtherDevices(c) \subseteq todo[c] \cup wrote[c]
             ELSE (todo[c] \cup wrote[c]) \cap Devices = {}
    /\ stage[c] \in {"run revoke", "inserted", "ready"} =>
           Live \subseteq todo[c] \cup wrote[c] /\ todo[c] \cap Devices = {}
    /\ stage[c] \in {"inserted", "ready"} => todo[c] = {}

OneLive == Ever = {} \/ \E p \in Pins : Live = {p}

Charges == \A l \in Logins : charged[l] <= 1 /\ (charged[l] = 1 => stage[l] # "begin")

PgInv ==
    /\ PgTypeOK
    /\ StageTypes
    /\ LockHeld
    /\ Written
    /\ \A c \in Changes : Progress(c)
    /\ OneLive
    /\ RevokedOnce
    /\ Charges
    /\ ResetsTellAll

LEMMA NamesDiffer ==
    /\ \A c \in Changes : c \in Txns /\ c \in PgCalls /\ c \notin RevokeAlls
                          /\ c \notin Logins /\ c \notin Resets /\ c # Nobody
                          /\ c \in Pins /\ c \notin Devices
    /\ \A a \in RevokeAlls : a \in Txns /\ a \in PgCalls /\ a \notin Changes
                             /\ a \notin Logins /\ a \notin Resets
    /\ \A l \in Logins : l \in PgCalls /\ l \notin Txns /\ l \notin Resets
    /\ \A r \in Resets : r \in PgCalls /\ r \notin Txns /\ r \notin Logins
    /\ \A t \in Txns : t \in PgCalls
    /\ \A p \in Pins : p \notin Devices
    /\ Live \subseteq Pins
  BY PgAssumption DEF Txns, PgCalls, Pins, Live

LEMMA PgStart ==
    PgInit => PgInv
  <1> SUFFICES ASSUME PgInit PROVE PgInv
    OBVIOUS
  <1>1. PICK had \in {"live", "none"} :
            pin = [p \in Pins |-> IF p = OldPin THEN had ELSE "none"]
    BY DEF PgInit
  <1>2. OldPin \in Pins
    BY DEF Pins
  <1>3. OneLive
    <2>1. CASE had = "none"
      BY <1>1, <2>1 DEF OneLive, Ever
    <2>2. CASE had = "live"
      <3>1. Live = {OldPin}
        BY <1>1, <1>2, <2>2 DEF Live
      <3> QED  BY <1>2, <3>1 DEF OneLive
    <2> QED  BY <2>1, <2>2
  <1>4. PgTypeOK
    <2>1. PinMaxAttempts \in Nat /\ 0 \in 0..PinMaxAttempts
      BY PgAssumption
    <2>2. pin \in [Pins -> {"none", "live", "revoked"}]
      BY <1>1
    <2> QED  BY <2>1, <2>2 DEF PgInit, PgTypeOK, NoGuard
  <1>5. StageTypes /\ LockHeld /\ \A c \in Changes : Progress(c)
    BY NamesDiffer DEF PgInit, StageTypes, Stages, LockHeld, Progress, Finished
  <1>6. Written
    BY DEF PgInit, Written, Txns
  <1>7. RevokedOnce /\ Charges /\ ResetsTellAll
    BY NamesDiffer DEF PgInit, RevokedOnce, Charges, ResetsTellAll, NoGuard
  <1> QED  BY <1>3, <1>4, <1>5, <1>6, <1>7 DEF PgInv

-----------------------------------------------------------------------------
(* How calls end.                                                           *)

LEMMA FailMoves ==
    ASSUME PgInv, NEW c \in PgCalls, NEW code \in {"40001", "40P01", "network"}, Fail(c, code)
    PROVE  /\ \E to \in {"begin", "failed"} : stage' = [stage EXCEPT ![c] = to]
           /\ code = "network" => stage' = [stage EXCEPT ![c] = "failed"]
           /\ retried' \subseteq PgCalls
  BY DEF Fail, Retryable, PgInv, PgTypeOK

LEMMA ReturnMoves ==
    ASSUME PgInv, NEW c \in PgCalls, NEW x, Return(c, x)
    PROVE  /\ \E to \in {x, "failed"} : stage' = [stage EXCEPT ![c] = to]
           /\ retried' \subseteq PgCalls
  <1>1. CASE Fail(c, "network")
    BY <1>1, FailMoves
  <1>2. CASE ~Fail(c, "network")
    BY <1>2 DEF Return, PgInv, PgTypeOK
  <1> QED  BY <1>1, <1>2

LEMMA ReleaseTypes ==
    ASSUME PgInv, NEW t \in Txns, Release(t)
    PROVE  /\ keyLock' \in Changes \cup {Nobody}
           /\ guardBy' \in Changes \cup {Nobody}
           /\ todo' \in [Txns -> SUBSET (Devices \cup Pins)]
           /\ wrote' \in [Txns -> SUBSET (Devices \cup Pins)]
           /\ todo'[t] = {} /\ wrote'[t] = {}
           /\ \A u \in Txns : u # t => todo'[u] = todo[u] /\ wrote'[u] = wrote[u]
  BY DEF Release, PgInv, PgTypeOK

-----------------------------------------------------------------------------
(* A step that commits no revocation.  It moves one call and leaves every    *)
(* other transaction, the PINs and the devices alone.                        *)

OthersStand(c) ==
    /\ UNCHANGED <<kept, pin, revoked, tallies>>
    /\ \A t \in Txns : t # c => todo'[t] = todo[t] /\ wrote'[t] = wrote[t]
    /\ \A d \in Changes : d # c /\ stage[d] \notin Finished => keyLock' = keyLock

LockTypes ==
    /\ keyLock \in Changes \cup {Nobody}
    /\ guardBy \in Changes \cup {Nobody}
    /\ todo \in [Txns -> SUBSET (Devices \cup Pins)]
    /\ wrote \in [Txns -> SUBSET (Devices \cup Pins)]
    /\ retried \subseteq PgCalls

GuardOK ==
    /\ guard \in [there : BOOLEAN, failed : 0..PinMaxAttempts, locked : BOOLEAN]
    /\ charged \in [Logins -> Nat]
    /\ untold \in Int
    /\ Charges
    /\ ResetsTellAll

\* What Written says of one transaction.
WrittenBy(t) ==
    /\ stage[t] \in Finished => todo[t] = {} /\ wrote[t] = {}
    /\ wrote[t] \subseteq Live \cup (Devices \ revoked)
    /\ \A u \in Txns : u # t => wrote[t] \cap wrote[u] = {}
    /\ kept[t] \notin todo[t] \cup wrote[t]
    /\ t \in RevokeAlls => todo[t] \cup wrote[t] \subseteq Devices

LEMMA WrittenParts == Written <=> \A t \in Txns : WrittenBy(t)
  <1>1. RevokeAlls \subseteq Txns
    BY DEF Txns
  <1> QED  BY <1>1 DEF Written, WrittenBy

LEMMA Frame ==
    ASSUME PgInv, NEW c \in PgCalls, NEW to \in Stages,
           stage' = [stage EXCEPT ![c] = to], OthersStand(c), LockTypes', GuardOK',
           c \in Logins => to \in {"begin", "wrong", "done", "failed"},
           c \in Resets => to \in {"begin", "run", "done", "failed"},
           c \in Changes => Progress(c)' /\ (to \notin Finished => keyLock' = c),
           c \in Txns => WrittenBy(c)'
    PROVE  PgInv'
  <1> USE DEF PgInv
  <1>1. Live' = Live /\ Ever' = Ever /\ \A t \in Txns : OtherDevices(t)' = OtherDevices(t)
    BY DEF OthersStand, Live, Ever, OtherDevices
  <1>2. stage'[c] = to /\ \A u \in PgCalls : u # c => stage'[u] = stage[u]
    BY DEF StageTypes
  <1>3. PgTypeOK'
    BY DEF PgTypeOK, OthersStand, LockTypes, GuardOK
  <1>4. StageTypes'
    <2>1. stage' \in [PgCalls -> Stages]
      BY DEF StageTypes
    <2> QED  BY <1>2, <2>1, NamesDiffer DEF StageTypes
  <1>5. LockHeld'
    BY <1>2, NamesDiffer DEF LockHeld, OthersStand
  <1>6. Written'
    <2>1. ASSUME NEW t \in Txns, t # c
          PROVE  WrittenBy(t)'
      <3>1. WrittenBy(t) /\ t \in PgCalls
        BY <2>1, WrittenParts, NamesDiffer
      <3>2. todo'[t] = todo[t] /\ wrote'[t] = wrote[t] /\ stage'[t] = stage[t] /\ kept' = kept
            /\ revoked' = revoked
        BY <1>2, <2>1, <3>1 DEF OthersStand
      <3>3. ASSUME NEW u \in Txns, u # t
            PROVE  wrote'[t] \cap wrote'[u] = {}
        <4>1. CASE u = c
          BY <2>1, <4>1 DEF WrittenBy
        <4>2. CASE u # c
          BY <3>1, <3>2, <3>3, <4>2 DEF OthersStand, WrittenBy
        <4> QED  BY <4>1, <4>2
      <3> QED  BY <1>1, <3>1, <3>2, <3>3 DEF WrittenBy
    <2>2. \A t \in Txns : WrittenBy(t)'
      BY <2>1
    <2> QED  BY <2>2 DEF Written, WrittenBy, Txns
  <1>7. \A d \in Changes : Progress(d)'
    <2>1. ASSUME NEW d \in Changes, d # c
          PROVE  Progress(d)'
      <3>1. d \in Txns /\ d \in PgCalls
        BY NamesDiffer
      <3>2. todo'[d] = todo[d] /\ wrote'[d] = wrote[d] /\ stage'[d] = stage[d]
        BY <1>2, <2>1, <3>1 DEF OthersStand
      <3> QED  BY <1>1, <3>1, <3>2 DEF Progress
    <2> QED  BY <2>1
  <1>8. OneLive' /\ RevokedOnce'
    BY <1>1 DEF OneLive, RevokedOnce, OthersStand
  <1> QED  BY <1>3, <1>4, <1>5, <1>6, <1>7, <1>8 DEF GuardOK

-----------------------------------------------------------------------------
(* Each action preserves the invariant.                                     *)

\* The parts of the invariant a step that leaves the guard and the locks keeps.
LEMMA GuardRests ==
    ASSUME PgInv, NEW c \in PgCalls, NEW to \in Stages, stage' = [stage EXCEPT ![c] = to],
           UNCHANGED <<guard, ledger>>, c \in Logins => to # "begin" \/ stage[c] = "begin"
    PROVE  GuardOK'
  <1>1. charged \in [Logins -> Nat]
    BY DEF PgInv, PgTypeOK
  <1>2. Charges'
    BY DEF PgInv, StageTypes, Charges, ledger, PgCalls
  <1> QED  BY <1>2 DEF PgInv, PgTypeOK, GuardOK, ResetsTellAll, ledger

LEMMA TakeLockStep ==
    ASSUME PgInv, NEW c \in Changes, TakeLock(c)
    PROVE  PgInv'
  <1>1. /\ c \in PgCalls /\ c \in Txns /\ c \notin Logins /\ c \notin Resets /\ c # Nobody
        /\ c \notin RevokeAlls
    BY NamesDiffer
  <1>2. /\ keyLock = Nobody /\ keyLock' = c /\ stage[c] = "begin"
        /\ stage' = [stage EXCEPT ![c] = "devices"]
        /\ UNCHANGED <<kept, rows, todo, wrote, guardBy, retried, ledger>>
    BY DEF TakeLock, LockFree, Move
  <1>3. stage'[c] = "devices"
    BY <1>1, <1>2 DEF PgInv, StageTypes
  <1>4. todo[c] = {} /\ wrote[c] = {} /\ WrittenBy(c)
    BY <1>1, <1>2, WrittenParts DEF PgInv, WrittenBy, Finished
  <1>5. OthersStand(c)
    BY <1>2, NamesDiffer DEF OthersStand, rows, ledger, PgInv, LockHeld
  <1>6. LockTypes'
    BY <1>2 DEF PgInv, PgTypeOK, LockTypes
  <1>7. GuardOK'
    BY <1>1, <1>2, GuardRests DEF Stages, rows
  <1>8. Progress(c)'
    BY <1>2, <1>3, <1>4 DEF Progress
  <1>9. WrittenBy(c)'
    BY <1>1, <1>2, <1>3, <1>4 DEF WrittenBy, rows, Live
  <1> QED  BY <1>1, <1>2, <1>5, <1>6, <1>7, <1>8, <1>9, Frame DEF Stages

LEMMA StartDevicesStep ==
    ASSUME PgInv, NEW c \in Changes, StartDevices(c)
    PROVE  PgInv'
  <1>1. /\ c \in PgCalls /\ c \in Txns /\ c \notin Logins /\ c \notin Resets /\ c \notin Devices
        /\ c \notin RevokeAlls
    BY NamesDiffer
  <1> DEFINE rs == IF RevokeOthersOnChange /\ IsReplacement THEN OtherDevices(c) ELSE {}
  <1>2. /\ stage[c] = "devices" /\ stage' = [stage EXCEPT ![c] = "run devices"]
        /\ todo' = [todo EXCEPT ![c] = rs]
        /\ UNCHANGED <<kept, rows, keyLock, wrote, guardBy, retried, ledger>>
    BY DEF StartDevices, Move
  <1>3. /\ stage'[c] = "run devices" /\ todo'[c] = rs /\ wrote'[c] = {}
        /\ \A t \in Txns : t # c => todo'[t] = todo[t]
    <2> HIDE DEF rs
    <2>1. todo'[c] = rs /\ \A t \in Txns : t # c => todo'[t] = todo[t]
      BY <1>1, <1>2 DEF PgInv, PgTypeOK
    <2>2. stage'[c] = "run devices"
      BY <1>1, <1>2 DEF PgInv, StageTypes
    <2>3. wrote'[c] = {}
      BY <1>2 DEF PgInv, Progress
    <2> QED  BY <2>1, <2>2, <2>3
  <1>4. rs \subseteq Devices /\ kept[c] \notin rs
    BY DEF OtherDevices
  <1>5. OthersStand(c)
    BY <1>2, <1>3 DEF OthersStand, rows, ledger
  <1>6. LockTypes'
    BY <1>1, <1>2, <1>4 DEF PgInv, PgTypeOK, LockTypes
  <1>7. GuardOK'
    BY <1>1, <1>2, GuardRests DEF Stages, rows
  <1>8. Progress(c)'
    <2>1. Live' = Live /\ OtherDevices(c)' = OtherDevices(c)
      BY <1>2 DEF Live, OtherDevices, rows
    <2> QED  BY <1>3, <1>4, <2>1 DEF Progress, IsReplacement
  <1>9. WrittenBy(c)'
    BY <1>1, <1>2, <1>3, <1>4 DEF WrittenBy, Finished
  <1>10. keyLock' = c
    BY <1>2 DEF PgInv, LockHeld, Finished
  <1> QED  BY <1>1, <1>2, <1>5, <1>6, <1>7, <1>8, <1>9, <1>10, Frame DEF Stages

LEMMA StartRevokeStep ==
    ASSUME PgInv, NEW c \in Changes, StartRevoke(c)
    PROVE  PgInv'
  <1>1. /\ c \in PgCalls /\ c \in Txns /\ c \notin Logins /\ c \notin Resets
        /\ c \notin RevokeAlls /\ Live \subseteq Pins /\ Live \cap Devices = {}
    BY NamesDiffer
  <1>2. /\ stage[c] = "run devices" /\ stage' = [stage EXCEPT ![c] = "run revoke"]
        /\ todo[c] = {} /\ todo' = [todo EXCEPT ![c] = Live]
        /\ UNCHANGED <<kept, rows, keyLock, wrote, guardBy, retried, ledger>>
    BY DEF StartRevoke, Move
  <1>3. /\ stage'[c] = "run revoke" /\ todo'[c] = Live /\ wrote'[c] = wrote[c]
        /\ \A t \in Txns : t # c => todo'[t] = todo[t]
    BY <1>1, <1>2 DEF PgInv, StageTypes, PgTypeOK
  <1>4. kept[c] \notin Live
    BY <1>1, NamesDiffer, PgAssumption DEF PgInv, PgTypeOK, Live, Pins
  <1>5. OthersStand(c)
    BY <1>2, <1>3 DEF OthersStand, rows, ledger
  <1>6. LockTypes'
    BY <1>1, <1>2 DEF PgInv, PgTypeOK, LockTypes
  <1>7. GuardOK'
    BY <1>1, <1>2, GuardRests DEF Stages, rows
  <1>8. Progress(c)'
    <2>1. Live' = Live /\ OtherDevices(c)' = OtherDevices(c)
      BY <1>2 DEF Live, OtherDevices, rows
    <2>2. Progress(c)
      BY DEF PgInv
    <2> QED  BY <1>1, <1>2, <1>3, <2>1, <2>2 DEF Progress
  <1>9. WrittenBy(c)'
    <2>1. WrittenBy(c)
      BY <1>1, WrittenParts DEF PgInv
    <2>2. Live' = Live /\ revoked' = revoked /\ kept' = kept /\ wrote' = wrote
      BY <1>2 DEF Live, rows
    <2> QED  BY <1>1, <1>3, <1>4, <2>1, <2>2 DEF WrittenBy, Finished
  <1>10. keyLock' = c
    BY <1>2 DEF PgInv, LockHeld, Finished
  <1> QED  BY <1>1, <1>2, <1>5, <1>6, <1>7, <1>8, <1>9, <1>10, Frame DEF Stages

\* A transaction that ends without a commit: rolled back, or refused.
LEMMA RollBack ==
    ASSUME PgInv, NEW t \in Txns, NEW to \in {"begin", "failed"},
           stage' = [stage EXCEPT ![t] = to], retried' \subseteq PgCalls, Release(t),
           UNCHANGED <<kept, rows, ledger>>
    PROVE  PgInv'
  <1>1. t \in PgCalls /\ t \notin Logins /\ t \notin Resets
    BY NamesDiffer
  <1>2. /\ stage'[t] = to /\ todo'[t] = {} /\ wrote'[t] = {}
        /\ \A u \in Txns : u # t => todo'[u] = todo[u] /\ wrote'[u] = wrote[u]
    BY <1>1, ReleaseTypes DEF PgInv, StageTypes
  <1>3. OthersStand(t)
    <2>1. \A d \in Changes : d # t /\ stage[d] \notin Finished => keyLock' = keyLock
      BY DEF Release, PgInv, LockHeld
    <2> QED  BY <1>2, <2>1 DEF OthersStand, rows, ledger
  <1>4. LockTypes'
    BY ReleaseTypes DEF LockTypes
  <1>5. GuardOK'
    BY <1>1, GuardRests DEF Stages, rows
  <1>6. Progress(t)' /\ to \in Finished
    BY <1>2 DEF Progress, Finished
  <1>7. WrittenBy(t)'
    BY <1>2 DEF WrittenBy
  <1> QED  BY <1>1, <1>3, <1>4, <1>5, <1>6, <1>7, Frame DEF Stages

LEMMA AbortStep ==
    ASSUME PgInv, NEW t \in Txns, Abort(t)
    PROVE  PgInv'
  <1>1. t \in PgCalls
    BY NamesDiffer
  <1>2. PICK code \in {"40P01", "network"} : Fail(t, code)
    BY DEF Abort
  <1>3. PICK to \in {"begin", "failed"} : stage' = [stage EXCEPT ![t] = to]
    BY <1>1, <1>2, FailMoves
  <1>4. retried' \subseteq PgCalls
    BY <1>1, <1>2, FailMoves
  <1>5. UNCHANGED <<kept, rows, ledger>>
    <2>1. pin' = pin
      BY DEF Abort, Survivors, PgInv, PgTypeOK
    <2> QED  BY <2>1 DEF Abort, Survivors, rows
  <1> QED  BY <1>3, <1>4, <1>5, RollBack DEF Abort

\* Nobody else has the lock, and what was live is written: the place is free.
LEMMA NobodyCollides ==
    ASSUME PgInv, NEW c \in Changes, InsertPin(c)
    PROVE  /\ stage' = [stage EXCEPT ![c] = "inserted"]
           /\ UNCHANGED <<kept, rows, before, ledger, retried, locks>>
           /\ todo[c] = {} /\ stage[c] = "run revoke" /\ Live \subseteq wrote[c]
  BY DEF InsertPin, PgInv, Progress

LEMMA InsertStep ==
    ASSUME PgInv, NEW c \in Changes, InsertPin(c)
    PROVE  PgInv'
  <1>1. c \in PgCalls /\ c \in Txns /\ c \notin Logins /\ c \notin Resets
    BY NamesDiffer
  <1>2. /\ stage' = [stage EXCEPT ![c] = "inserted"]
        /\ UNCHANGED <<kept, rows, before, ledger, retried, locks>>
        /\ todo[c] = {} /\ stage[c] = "run revoke" /\ Live \subseteq wrote[c]
    BY NobodyCollides
  <1>3. stage'[c] = "inserted"
    BY <1>1, <1>2 DEF PgInv, StageTypes
  <1>4. OthersStand(c)
    BY <1>2 DEF OthersStand, rows, locks, ledger
  <1>5. LockTypes'
    BY <1>2 DEF PgInv, PgTypeOK, LockTypes, locks
  <1>6. GuardOK'
    BY <1>1, <1>2, GuardRests DEF Stages, rows
  <1>7. Live' = Live /\ OtherDevices(c)' = OtherDevices(c)
    BY <1>2 DEF Live, OtherDevices, rows
  <1>8. Progress(c)'
    <2>1. Progress(c)
      BY DEF PgInv
    <2> QED  BY <1>2, <1>3, <1>7, <2>1 DEF Progress, locks
  <1>9. WrittenBy(c)'
    <2>1. WrittenBy(c)
      BY <1>1, WrittenParts DEF PgInv
    <2> QED  BY <1>2, <1>3, <1>7, <2>1 DEF WrittenBy, locks, rows, Finished
  <1>10. keyLock' = c
    BY <1>2 DEF PgInv, LockHeld, Finished, locks
  <1> QED  BY <1>1, <1>2, <1>4, <1>5, <1>6, <1>8, <1>9, <1>10, Frame DEF Stages

LEMMA ClearGuardStep ==
    ASSUME PgInv, NEW c \in Changes, ClearGuard(c)
    PROVE  PgInv'
  <1>1. c \in PgCalls /\ c \in Txns /\ c \notin Logins /\ c \notin Resets
    BY NamesDiffer
  <1>2. /\ stage[c] = "inserted" /\ stage' = [stage EXCEPT ![c] = "ready"]
        /\ UNCHANGED <<kept, rows, keyLock, todo, wrote, retried, before, ledger>>
        /\ guardBy' \in {c, Nobody}
    BY DEF ClearGuard, Move
  <1>3. stage'[c] = "ready"
    BY <1>1, <1>2 DEF PgInv, StageTypes
  <1>4. OthersStand(c)
    BY <1>2 DEF OthersStand, rows, ledger
  <1>5. LockTypes'
    BY <1>2 DEF PgInv, PgTypeOK, LockTypes
  <1>6. GuardOK'
    BY <1>1, <1>2, GuardRests DEF Stages, rows
  <1>7. Live' = Live /\ OtherDevices(c)' = OtherDevices(c)
    BY <1>2 DEF Live, OtherDevices, rows
  <1>8. Progress(c)'
    <2>1. Progress(c)
      BY DEF PgInv
    <2> QED  BY <1>2, <1>3, <1>7, <2>1 DEF Progress
  <1>9. WrittenBy(c)'
    <2>1. WrittenBy(c)
      BY <1>1, WrittenParts DEF PgInv
    <2> QED  BY <1>2, <1>3, <1>7, <2>1 DEF WrittenBy, rows, Finished
  <1>10. keyLock' = c
    BY <1>2 DEF PgInv, LockHeld, Finished
  <1> QED  BY <1>1, <1>2, <1>4, <1>5, <1>6, <1>8, <1>9, <1>10, Frame DEF Stages

LEMMA StartRevokeAllStep ==
    ASSUME PgInv, NEW a \in RevokeAlls, StartRevokeAll(a)
    PROVE  PgInv'
  <1>1. a \in PgCalls /\ a \in Txns /\ a \notin Logins /\ a \notin Resets /\ a \notin Changes
    BY NamesDiffer
  <1>2. /\ stage[a] = "begin" /\ stage' = [stage EXCEPT ![a] = "run"]
        /\ todo' = [todo EXCEPT ![a] = OtherDevices(a)]
        /\ UNCHANGED <<kept, rows, keyLock, wrote, guardBy, retried, before, ledger>>
    BY DEF StartRevokeAll, Move
  <1>3. stage'[a] = "run"
    BY <1>1, <1>2 DEF PgInv, StageTypes
  <1>4. /\ todo'[a] = OtherDevices(a)
        /\ \A t \in Txns : t # a => todo'[t] = todo[t]
    BY <1>1, <1>2 DEF PgInv, PgTypeOK
  <1>5. OtherDevices(a) \subseteq Devices /\ kept[a] \notin OtherDevices(a)
    BY DEF OtherDevices
  <1>6. OthersStand(a)
    BY <1>2, <1>4 DEF OthersStand, rows, ledger
  <1>7. LockTypes'
    BY <1>1, <1>2, <1>5 DEF PgInv, PgTypeOK, LockTypes
  <1>8. GuardOK'
    BY <1>1, <1>2, GuardRests DEF Stages, rows
  <1>9. wrote'[a] = {}
    BY <1>1, <1>2 DEF PgInv, Written, Finished
  <1>10. WrittenBy(a)'
    BY <1>2, <1>3, <1>4, <1>5, <1>9 DEF WrittenBy, Finished
  <1> QED  BY <1>1, <1>2, <1>6, <1>7, <1>8, <1>10, Frame DEF Stages

LEMMA WriteRowStep ==
    ASSUME PgInv, NEW t \in Txns, NEW r \in Devices \cup Pins, WriteRow(t, r)
    PROVE  PgInv'
  <1>1. t \in PgCalls /\ t \notin Logins /\ t \notin Resets
    BY NamesDiffer
  <1> DEFINE w == IF StillQualifies(r) THEN wrote[t] \cup {r} ELSE wrote[t]
  <1>2. /\ r \in todo[t] /\ \A u \in Txns : r \notin wrote[u]
        /\ todo' = [todo EXCEPT ![t] = todo[t] \ {r}]
        /\ wrote' = [wrote EXCEPT ![t] = w]
        /\ UNCHANGED <<kept, rows, keyLock, guardBy, stage, retried, before, ledger>>
    BY DEF WriteRow
  <1>3. w \subseteq Devices \cup Pins
    BY DEF PgInv, PgTypeOK
  <1>4. /\ todo'[t] = todo[t] \ {r} /\ wrote'[t] = w
        /\ \A u \in Txns : u # t => todo'[u] = todo[u] /\ wrote'[u] = wrote[u]
    <2> HIDE DEF w
    <2> QED  BY <1>2 DEF PgInv, PgTypeOK
  <1>5. stage' = [stage EXCEPT ![t] = stage[t]] /\ stage[t] \in Stages
    BY <1>1, <1>2 DEF PgInv, StageTypes
  <1>6. OthersStand(t)
    BY <1>2, <1>4 DEF OthersStand, rows, ledger
  <1>7. LockTypes'
    BY <1>2, <1>3 DEF PgInv, PgTypeOK, LockTypes
  <1>8. GuardOK'
    BY <1>1, <1>2, <1>5, GuardRests DEF rows
  <1>9. Live' = Live /\ OtherDevices(t)' = OtherDevices(t) /\ revoked' = revoked /\ kept' = kept
    BY <1>2 DEF Live, OtherDevices, rows
  <1>10. ASSUME t \in Changes
         PROVE  Progress(t)' /\ (stage[t] \notin Finished => keyLock' = t)
    <2>1. Progress(t)
      BY <1>10 DEF PgInv
    <2>2. todo'[t] \cup wrote'[t] \subseteq todo[t] \cup wrote[t]
      BY <1>2, <1>4
    <2>3. \A x \in todo[t] \cup wrote[t] :
              x \in todo'[t] \cup wrote'[t] \/ (x \notin Live /\ x \notin Devices \ revoked)
      BY <1>2, <1>4 DEF StillQualifies
    <2>4. OtherDevices(t) \subseteq Devices \ revoked
      BY DEF OtherDevices
    <2>5. stage[t] \notin {"devices", "inserted", "ready"}
      BY <1>2, <2>1 DEF Progress
    <2>6. stage[t] \notin Finished => keyLock' = t
      BY <1>2, <1>10 DEF PgInv, LockHeld
    <2>7. stage'[t] = stage[t]
      BY <1>2
    <2>8. Progress(t)'
      <3>1. ASSUME stage[t] \in {"run devices", "run revoke"}
            PROVE  IF RevokeOthersOnChange /\ Live # {}
                     THEN OtherDevices(t) \subseteq todo[t] \cup wrote[t]
                     ELSE (todo[t] \cup wrote[t]) \cap Devices = {}
        BY <2>1, <3>1 DEF Progress
      <3>2. ASSUME stage[t] \in {"run devices", "run revoke"}
            PROVE  IF RevokeOthersOnChange /\ Live # {}
                     THEN OtherDevices(t) \subseteq todo'[t] \cup wrote'[t]
                     ELSE (todo'[t] \cup wrote'[t]) \cap Devices = {}
        BY <2>2, <2>3, <2>4, <3>1, <3>2
      <3>3. stage[t] = "run devices" => todo'[t] \cup wrote'[t] \subseteq Devices
        BY <2>1, <2>2 DEF Progress
      <3>4. stage[t] = "run revoke" =>
                Live \subseteq todo'[t] \cup wrote'[t] /\ todo'[t] \cap Devices = {}
        BY <1>4, <2>1, <2>3 DEF Progress
      <3> QED  BY <1>9, <2>5, <2>7, <3>2, <3>3, <3>4 DEF Progress
    <2> QED  BY <2>6, <2>8
  <1>11. WrittenBy(t)'
    <2>1. WrittenBy(t)
      BY WrittenParts DEF PgInv
    <2>2. stage[t] \notin Finished
      BY <1>2, <2>1 DEF WrittenBy
    <2>3. wrote'[t] \subseteq Live \cup (Devices \ revoked)
      BY <1>4, <2>1 DEF WrittenBy, StillQualifies
    <2>4. \A u \in Txns : u # t => wrote'[t] \cap wrote'[u] = {}
      BY <1>2, <1>4, <2>1 DEF WrittenBy
    <2>5. todo'[t] \cup wrote'[t] \subseteq todo[t] \cup wrote[t]
      BY <1>2, <1>4
    <2> QED  BY <1>2, <1>9, <2>1, <2>2, <2>3, <2>4, <2>5 DEF WrittenBy
  <1> QED  BY <1>1, <1>5, <1>6, <1>7, <1>8, <1>10, <1>11, Frame

-----------------------------------------------------------------------------
(* The login guard's statements, each a transaction of its own.             *)

LEMMA GuardStep ==
    ASSUME PgInv, NEW c \in Logins \cup Resets, NEW to \in Stages,
           stage' = [stage EXCEPT ![c] = to], GuardOK', retried' \subseteq PgCalls,
           UNCHANGED <<kept, pin, revoked, locks, tallies>>,
           c \in Logins => to \in {"begin", "wrong", "done", "failed"},
           c \in Resets => to \in {"begin", "run", "done", "failed"}
    PROVE  PgInv'
  <1>1. c \in PgCalls /\ c \notin Txns /\ c \notin Changes
    BY NamesDiffer DEF PgCalls, Txns
  <1>2. OthersStand(c)
    BY DEF OthersStand, locks
  <1>3. LockTypes'
    BY DEF PgInv, PgTypeOK, LockTypes, locks
  <1> QED  BY <1>1, <1>2, <1>3, Frame

LEMMA ReserveStep ==
    ASSUME PgInv, NEW l \in Logins, Reserve(l)
    PROVE  PgInv'
  <1>1. l \in PgCalls /\ l \notin Resets
    BY NamesDiffer
  <1>2. stage[l] = "begin" /\ UNCHANGED <<kept, pin, revoked, locks, before, tallies>>
    BY DEF Reserve
  <1>3. PICK x \in {"wrong", "done"} : Return(l, x) /\ (MayAttempt => x = "wrong")
    BY DEF Reserve
  <1>4. PICK to \in {x, "failed"} : stage' = [stage EXCEPT ![l] = to]
    BY <1>1, <1>3, ReturnMoves
  <1>5. retried' \subseteq PgCalls
    BY <1>1, <1>3, ReturnMoves
  <1>6. stage'[l] = to /\ to # "begin" /\ \A m \in Logins : m # l => stage'[m] = stage[m]
    BY <1>1, <1>4, NamesDiffer DEF PgInv, StageTypes
  <1>7. GuardOK'
    <2>1. CASE MayAttempt
      <3>1. /\ guard' = [guard EXCEPT !.there = TRUE, !.failed = guard.failed + 1]
            /\ charged' = [charged EXCEPT ![l] = charged[l] + 1]
            /\ untold' = untold + 1
        BY <2>1 DEF Reserve
      <3>2. guard' \in [there : BOOLEAN, failed : 0..PinMaxAttempts, locked : BOOLEAN]
            /\ guard'.failed = guard.failed + 1 /\ untold' \in Int /\ untold' = guard'.failed
        <4>1. /\ guard \in [there : BOOLEAN, failed : 0..PinMaxAttempts, locked : BOOLEAN]
              /\ untold = guard.failed /\ PinMaxAttempts \in Nat /\ guard.failed < PinMaxAttempts
          BY <2>1, PgAssumption DEF PgInv, PgTypeOK, ResetsTellAll, MayAttempt
        <4>2. guard.failed + 1 \in 0..PinMaxAttempts
          BY <4>1
        <4>3. guard'.failed = guard.failed + 1
          BY <3>1, <4>1
        <4>4. guard' \in [there : BOOLEAN, failed : 0..PinMaxAttempts, locked : BOOLEAN]
          <5> DEFINE n == guard.failed + 1
          <5>1. guard' = [guard EXCEPT !.there = TRUE, !.failed = n] /\ n \in 0..PinMaxAttempts
            BY <3>1, <4>2
          <5> HIDE DEF n
          <5> QED  BY <4>1, <5>1
        <4>5. untold' \in Int /\ untold' = guard.failed + 1
          BY <3>1, <4>1
        <4> QED  BY <4>3, <4>4, <4>5
      <3>3. charged' \in [Logins -> Nat] /\ Charges'
        <4>1. charged \in [Logins -> Nat] /\ Charges
          BY DEF PgInv, PgTypeOK
        <4>2. charged[l] = 0
          BY <1>2, <4>1 DEF Charges
        <4>3. charged'[l] = 1 /\ \A m \in Logins : m # l => charged'[m] = charged[m]
          BY <3>1, <4>1, <4>2
        <4>4. charged' \in [Logins -> Nat]
          BY <3>1, <4>1
        <4> QED  BY <1>6, <4>1, <4>3, <4>4 DEF Charges
      <3> QED  BY <3>2, <3>3 DEF GuardOK, ResetsTellAll
    <2>2. CASE ~MayAttempt
      <3>1. UNCHANGED <<guard, ledger>>
        BY <1>2, <2>2 DEF Reserve, ledger
      <3> QED  BY <1>1, <1>4, <1>6, <3>1, GuardRests DEF Stages
    <2> QED  BY <2>1, <2>2
  <1> QED  BY <1>1, <1>2, <1>4, <1>5, <1>7, GuardStep DEF Stages

LEMMA LockAccountStep ==
    ASSUME PgInv, NEW l \in Logins, LockAccount(l)
    PROVE  PgInv'
  <1>1. l \in PgCalls /\ l \notin Resets
    BY NamesDiffer
  <1>2. /\ stage' = [stage EXCEPT ![l] = "done"]
        /\ guard' = [guard EXCEPT !.locked = guard.locked \/ guard.failed >= PinMaxAttempts]
        /\ UNCHANGED <<kept, pin, revoked, locks, retried, before, ledger>>
    BY DEF LockAccount
  <1>3. guard' \in [there : BOOLEAN, failed : 0..PinMaxAttempts, locked : BOOLEAN]
        /\ guard'.failed = guard.failed
    BY <1>2 DEF PgInv, PgTypeOK
  <1>4. charged' = charged /\ untold' = untold
    BY <1>2 DEF ledger
  <1>5. Charges'
    BY <1>1, <1>2, <1>4 DEF PgInv, StageTypes, Charges, PgCalls
  <1>6. GuardOK'
    BY <1>3, <1>4, <1>5 DEF GuardOK, PgInv, PgTypeOK, ResetsTellAll
  <1>7. retried' \subseteq PgCalls /\ UNCHANGED <<kept, pin, revoked, locks, tallies>>
    BY <1>2 DEF PgInv, PgTypeOK, ledger
  <1> QED  BY <1>1, <1>2, <1>6, <1>7, GuardStep DEF Stages

LEMMA StartResetStep ==
    ASSUME PgInv, NEW r \in Resets, StartReset(r)
    PROVE  PgInv'
  <1>1. r \in PgCalls /\ r \notin Logins
    BY NamesDiffer
  <1>2. stage' = [stage EXCEPT ![r] = "run"] /\ UNCHANGED <<kept, rows, locks, retried, ledger>>
    BY DEF StartReset, Move
  <1>3. GuardOK'
    BY <1>1, <1>2, GuardRests DEF Stages, rows
  <1>4. retried' \subseteq PgCalls /\ UNCHANGED <<kept, pin, revoked, locks, tallies>>
    BY <1>2 DEF PgInv, PgTypeOK, rows, ledger
  <1> QED  BY <1>1, <1>2, <1>3, <1>4, GuardStep DEF Stages

LEMMA FinishResetStep ==
    ASSUME PgInv, NEW r \in Resets, FinishReset(r)
    PROVE  PgInv'
  <1>1. r \in PgCalls /\ r \notin Logins
    BY NamesDiffer
  <1>2. /\ guard' = [guard EXCEPT !.failed = 0, !.locked = FALSE]
        /\ UNCHANGED <<kept, pin, revoked, locks, charged, tallies>>
    BY DEF FinishReset
  <1>3. PICK to \in {"done", "failed"} : stage' = [stage EXCEPT ![r] = to]
    BY <1>1, FailMoves DEF FinishReset
  <1>4. retried' \subseteq PgCalls
    <2>1. retried' = retried \ {r} \/ Fail(r, "network")
      BY DEF FinishReset
    <2> QED  BY <1>1, <2>1, FailMoves DEF PgInv, PgTypeOK
  <1>5. untold' = untold - guard.failed
    BY DEF FinishReset, Reported
  <1>6. guard' \in [there : BOOLEAN, failed : 0..PinMaxAttempts, locked : BOOLEAN]
        /\ guard'.failed = 0
    <2>1. guard \in [there : BOOLEAN, failed : 0..PinMaxAttempts, locked : BOOLEAN]
          /\ 0 \in 0..PinMaxAttempts
      BY PgAssumption DEF PgInv, PgTypeOK
    <2> QED  BY <1>2, <2>1
  <1>7. untold' = 0
    BY <1>5 DEF PgInv, PgTypeOK, ResetsTellAll
  <1>8. Charges'
    BY <1>1, <1>2, <1>3 DEF PgInv, StageTypes, Charges, PgCalls
  <1>9. GuardOK'
    BY <1>2, <1>6, <1>7, <1>8 DEF GuardOK, PgInv, PgTypeOK, ResetsTellAll
  <1> QED  BY <1>1, <1>2, <1>3, <1>4, <1>9, GuardStep DEF Stages

LEMMA ResetNothingStep ==
    ASSUME PgInv, NEW r \in Resets, ResetNothing(r)
    PROVE  PgInv'
  <1>1. r \in PgCalls /\ r \notin Logins
    BY NamesDiffer
  <1>2. Return(r, "done") /\ UNCHANGED <<kept, rows, locks, before, ledger>>
    BY DEF ResetNothing
  <1>3. PICK to \in {"done", "failed"} : stage' = [stage EXCEPT ![r] = to]
    BY <1>1, <1>2, ReturnMoves
  <1>4. retried' \subseteq PgCalls
    BY <1>1, <1>2, ReturnMoves
  <1>5. GuardOK'
    BY <1>1, <1>2, <1>3, GuardRests DEF Stages, rows
  <1>6. UNCHANGED <<kept, pin, revoked, locks, tallies>>
    BY <1>2 DEF rows, ledger
  <1> QED  BY <1>1, <1>3, <1>4, <1>5, <1>6, GuardStep DEF Stages

LEMMA ThrowStep ==
    ASSUME PgInv, NEW c \in Logins \cup Resets, Reject(c)
    PROVE  PgInv'
  <1>1. c \in PgCalls
    BY DEF PgCalls
  <1>2. /\ stage[c] \in {"begin", "run"}
        /\ UNCHANGED <<kept, rows, locks, before, ledger>>
    BY DEF Reject
  <1>3. PICK code \in {"40001", "network"} : Fail(c, code)
    BY DEF Reject
  <1>4. PICK to \in {"begin", "failed"} : stage' = [stage EXCEPT ![c] = to]
    BY <1>1, <1>3, FailMoves
  <1>5. retried' \subseteq PgCalls
    BY <1>1, <1>3, FailMoves
  <1>6. c \in Logins => stage[c] = "begin"
    BY <1>2 DEF PgInv, StageTypes
  <1>7. GuardOK'
    BY <1>1, <1>2, <1>4, <1>6, GuardRests DEF Stages, rows
  <1>8. UNCHANGED <<kept, pin, revoked, locks, tallies>>
    BY <1>2 DEF rows, ledger
  <1> QED  BY <1>4, <1>5, <1>7, <1>8, GuardStep DEF Stages

-----------------------------------------------------------------------------
(* A commit revokes what the transaction has written, each row the first     *)
(* time; what the others have written and have yet to write still holds.     *)

LEMMA CommitStep ==
    ASSUME PgInv, NEW t \in Txns, NEW to \in {"done", "failed"},
           stage' = [stage EXCEPT ![t] = to], retried' \subseteq PgCalls, Release(t), kept' = kept,
           pin' \in [Pins -> {"none", "live", "revoked"}], Live \ wrote[t] \subseteq Live',
           \A d \in Changes : d # t /\ stage[d] \notin Finished => pin' = pin,
           revoked' = revoked \cup (wrote[t] \cap Devices), tallies' = Tally(t),
           OneLive', GuardOK'
    PROVE  PgInv'
  <1>1. t \in PgCalls /\ t \notin Logins /\ t \notin Resets /\ to \in Stages /\ to \in Finished
    BY NamesDiffer DEF Stages, Finished
  <1>2. stage' \in [PgCalls -> Stages] /\ stage'[t] = to /\ \A u \in PgCalls : u # t => stage'[u] = stage[u]
    BY <1>1 DEF PgInv, StageTypes
  <1>3. /\ todo'[t] = {} /\ wrote'[t] = {}
        /\ \A u \in Txns : u # t => todo'[u] = todo[u] /\ wrote'[u] = wrote[u]
    BY ReleaseTypes
  <1>4. LockTypes'
    BY ReleaseTypes DEF LockTypes
  <1>5. wrote[t] \cap Devices \cap revoked = {}
    <2>1. wrote[t] \subseteq Live \cup (Devices \ revoked)
      BY DEF PgInv, Written
    <2> QED  BY <2>1, NamesDiffer
  <1>6. tallies' \in [Devices -> Nat] /\ RevokedOnce'
    <2>1. \A d \in Devices : tallies[d] \in Nat /\ tallies[d] = IF d \in revoked THEN 1 ELSE 0
      BY DEF PgInv, PgTypeOK, RevokedOnce
    <2>2. \A d \in Devices : tallies'[d] = tallies[d] + IF d \in wrote[t] THEN 1 ELSE 0
      BY DEF Tally
    <2>3. tallies' \in [Devices -> Nat]
      BY <2>1 DEF Tally
    <2>4. \A d \in Devices : d \in revoked' <=> d \in revoked \/ d \in wrote[t]
      OBVIOUS
    <2> QED  BY <1>5, <2>1, <2>2, <2>3, <2>4 DEF RevokedOnce
  <1>7. PgTypeOK'
    BY <1>4, <1>6 DEF PgInv, PgTypeOK, LockTypes, GuardOK
  <1>8. StageTypes'
    BY <1>1, <1>2, NamesDiffer DEF PgInv, StageTypes
  <1>9. LockHeld'
    BY <1>1, <1>2, NamesDiffer DEF PgInv, LockHeld, Release
  <1>10. Written'
    <2>1. WrittenBy(t)'
      BY <1>3 DEF WrittenBy
    <2>2. ASSUME NEW u \in Txns, u # t
          PROVE  WrittenBy(u)'
      <3>1. WrittenBy(u) /\ WrittenBy(t) /\ u \in PgCalls
        BY WrittenParts, NamesDiffer DEF PgInv
      <3>2. todo'[u] = todo[u] /\ wrote'[u] = wrote[u] /\ stage'[u] = stage[u]
        BY <1>2, <1>3, <2>2, <3>1
      <3>3. wrote[u] \cap wrote[t] = {}
        BY <2>2, <3>1 DEF WrittenBy
      <3>4. wrote'[u] \subseteq Live' \cup (Devices \ revoked')
        BY <3>1, <3>2, <3>3 DEF WrittenBy
      <3>5. \A v \in Txns : v # u => wrote'[u] \cap wrote'[v] = {}
        BY <1>3, <3>1, <3>2 DEF WrittenBy
      <3> QED  BY <3>1, <3>2, <3>4, <3>5 DEF WrittenBy
    <2>3. \A u \in Txns : WrittenBy(u)'
      BY <2>1, <2>2
    <2> QED  BY <2>3 DEF Written, WrittenBy, Txns
  <1>11. ASSUME NEW d \in Changes
         PROVE  Progress(d)'
    <2>1. CASE stage'[d] \in Finished
      BY <2>1 DEF Progress, Finished
    <2>2. CASE stage'[d] \notin Finished
      <3>1. d # t /\ d \in Txns /\ d \in PgCalls
        BY <1>1, <1>2, <2>2, NamesDiffer
      <3>2. todo'[d] = todo[d] /\ wrote'[d] = wrote[d] /\ stage'[d] = stage[d]
        BY <1>2, <1>3, <3>1
      <3>3. pin' = pin
        BY <2>2, <3>1, <3>2
      <3>4. Live' = Live
        BY <3>3 DEF Live
      <3>5. OtherDevices(d)' \subseteq OtherDevices(d)
        BY DEF OtherDevices
      <3>6. Progress(d)
        BY DEF PgInv
      <3> QED  BY <3>2, <3>4, <3>5, <3>6 DEF Progress
    <2> QED  BY <2>1, <2>2
  <1> QED  BY <1>6, <1>7, <1>8, <1>9, <1>10, <1>11 DEF PgInv, GuardOK

\* What a change's commit leaves: its own PIN, and the others' devices put out.
LEMMA CommitChangeLeaves ==
    ASSUME PgInv, NEW c \in Changes, CommitChange(c)
    PROVE  /\ Live' = {c}
           /\ wrote[c] \cap Devices =
                  IF RevokeOthersOnChange /\ Live # {} THEN OtherDevices(c) ELSE {}
  <1>1. c \in Txns /\ c \in Pins
    BY NamesDiffer
  <1>2. Progress(c) /\ WrittenBy(c) /\ stage[c] = "ready"
    BY <1>1, WrittenParts DEF PgInv, CommitChange
  <1>3. todo[c] = {} /\ Live \subseteq wrote[c]
    BY <1>2 DEF Progress
  <1>4. Live' = {c}
    <2>1. pin' = [p \in Pins |-> IF p = c THEN "live"
                                 ELSE IF p \in wrote[c] THEN "revoked" ELSE pin[p]]
      BY DEF CommitChange
    <2>2. \A p \in Pins : pin'[p] = "live" <=> p = c
      BY <1>3, <2>1 DEF Live
    <2> QED  BY <1>1, <2>2 DEF Live
  <1>5. wrote[c] \cap Devices \subseteq OtherDevices(c)
    BY <1>2, NamesDiffer DEF WrittenBy, OtherDevices
  <1>6. IF RevokeOthersOnChange /\ Live # {}
          THEN OtherDevices(c) \subseteq wrote[c]
          ELSE wrote[c] \cap Devices = {}
    BY <1>2, <1>3 DEF Progress
  <1>7. OtherDevices(c) \subseteq Devices
    BY DEF OtherDevices
  <1> QED  BY <1>4, <1>5, <1>6, <1>7

LEMMA CommitChangeStep ==
    ASSUME PgInv, NEW c \in Changes, CommitChange(c)
    PROVE  PgInv'
  <1>1. c \in PgCalls /\ c \in Txns /\ c \in Pins /\ c \notin Logins
    BY NamesDiffer
  <1>2. PICK to \in {"done", "failed"} : stage' = [stage EXCEPT ![c] = to]
    BY <1>1, ReturnMoves DEF CommitChange
  <1>3. retried' \subseteq PgCalls
    BY <1>1, ReturnMoves DEF CommitChange
  <1>4. pin' \in [Pins -> {"none", "live", "revoked"}]
    BY DEF CommitChange, PgInv, PgTypeOK
  <1>5. OneLive'
    BY <1>1, CommitChangeLeaves DEF OneLive
  <1>6. Live \ wrote[c] \subseteq Live'
    BY DEF CommitChange, PgInv, Progress
  <1>7. \A d \in Changes : d # c => stage[d] \in Finished
    BY DEF CommitChange, PgInv, LockHeld, Finished
  <1>8. GuardOK'
    <2>1. guard' = guard \/ guard' = [NoGuard EXCEPT !.there = TRUE]
      BY DEF CommitChange
    <2>2. guard' \in [there : BOOLEAN, failed : 0..PinMaxAttempts, locked : BOOLEAN]
      <3>1. guard \in [there : BOOLEAN, failed : 0..PinMaxAttempts, locked : BOOLEAN]
            /\ 0 \in 0..PinMaxAttempts
        BY PgAssumption DEF PgInv, PgTypeOK
      <3> QED  BY <2>1, <3>1 DEF NoGuard
    <2>3. untold' = guard'.failed /\ untold' \in Int
      <3>1. untold = guard.failed /\ untold \in Int
        BY DEF PgInv, PgTypeOK, ResetsTellAll
      <3>2. IF guardBy = c THEN guard'.failed = 0 /\ untold' = untold - guard.failed
                           ELSE guard' = guard /\ untold' = untold
        BY DEF CommitChange, NoGuard
      <3> QED  BY <3>1, <3>2
    <2>4. charged' = charged /\ charged \in [Logins -> Nat]
      BY DEF CommitChange, PgInv, PgTypeOK
    <2>5. Charges'
      BY <1>1, <1>2, <2>4 DEF PgInv, StageTypes, Charges, PgCalls
    <2> QED  BY <2>2, <2>3, <2>4, <2>5 DEF GuardOK, ResetsTellAll
  <1> QED  BY <1>1, <1>2, <1>3, <1>4, <1>5, <1>6, <1>7, <1>8, CommitStep DEF CommitChange

LEMMA CommitRevokeAllStep ==
    ASSUME PgInv, NEW a \in RevokeAlls, CommitRevokeAll(a)
    PROVE  PgInv'
  <1>1. a \in PgCalls /\ a \in Txns /\ a \notin Logins
    BY NamesDiffer
  <1>2. PICK to \in {"done", "failed"} : stage' = [stage EXCEPT ![a] = to]
    BY <1>1, ReturnMoves DEF CommitRevokeAll
  <1>3. retried' \subseteq PgCalls
    BY <1>1, ReturnMoves DEF CommitRevokeAll
  <1>4. /\ UNCHANGED <<kept, pin, guard, charged, untold>>
        /\ revoked' = revoked \cup wrote[a] /\ tallies' = Tally(a) /\ Release(a)
    BY DEF CommitRevokeAll
  <1>5. wrote[a] = wrote[a] \cap Devices
    BY DEF PgInv, Written
  <1>6. Live' = Live /\ OneLive'
    BY <1>4 DEF Live, Ever, OneLive, PgInv
  <1>7. GuardOK'
    <2>1. Charges'
      BY <1>1, <1>2, <1>4 DEF PgInv, StageTypes, Charges, PgCalls
    <2> QED  BY <1>4, <2>1 DEF GuardOK, PgInv, PgTypeOK, ResetsTellAll
  <1>8. pin' \in [Pins -> {"none", "live", "revoked"}]
    BY <1>4 DEF PgInv, PgTypeOK
  <1> QED  BY <1>1, <1>2, <1>3, <1>4, <1>5, <1>6, <1>7, <1>8, CommitStep

-----------------------------------------------------------------------------
(* The invariant holds, and what it says.                                   *)

LEMMA PgStep ==
    PgInv /\ [PgNext]_pgVars => PgInv'
  <1> SUFFICES ASSUME PgInv, [PgNext]_pgVars PROVE PgInv'
    OBVIOUS
  <1>1. ASSUME NEW c \in Changes, Change(c) PROVE PgInv'
    BY <1>1, TakeLockStep, StartDevicesStep, StartRevokeStep, InsertStep, ClearGuardStep,
       CommitChangeStep DEF Change
  <1>2. ASSUME NEW a \in RevokeAlls, StartRevokeAll(a) \/ CommitRevokeAll(a) PROVE PgInv'
    BY <1>2, StartRevokeAllStep, CommitRevokeAllStep
  <1>3. ASSUME NEW t \in Txns, Abort(t) \/ \E r \in Devices \cup Pins : WriteRow(t, r)
        PROVE  PgInv'
    BY <1>3, AbortStep, WriteRowStep
  <1>4. ASSUME NEW l \in Logins, Reserve(l) \/ LockAccount(l) PROVE PgInv'
    BY <1>4, ReserveStep, LockAccountStep
  <1>5. ASSUME NEW r \in Resets, StartReset(r) \/ FinishReset(r) \/ ResetNothing(r) PROVE PgInv'
    BY <1>5, StartResetStep, FinishResetStep, ResetNothingStep
  <1>6. ASSUME NEW c \in Logins \cup Resets, Reject(c) PROVE PgInv'
    BY <1>6, ThrowStep
  <1>7. ASSUME UNCHANGED pgVars PROVE PgInv'
    <2>1. UNCHANGED <<kept, pin, revoked, guard, keyLock, todo, wrote, guardBy, stage, retried,
                      charged, untold, tallies>>
      BY <1>7 DEF pgVars, rows, locks, ledger
    <2>2. Live' = Live /\ Ever' = Ever /\ \A t \in Txns : OtherDevices(t)' = OtherDevices(t)
      BY <2>1 DEF Live, Ever, OtherDevices
    <2>3. PgTypeOK' /\ StageTypes' /\ LockHeld'
      BY <2>1 DEF PgInv, PgTypeOK, StageTypes, LockHeld
    <2>4. Written' /\ OneLive'
      BY <2>1, <2>2 DEF PgInv, Written, OneLive
    <2>5. \A c \in Changes : Progress(c)'
      BY <2>1, <2>2, NamesDiffer DEF PgInv, Progress
    <2>6. RevokedOnce' /\ Charges' /\ ResetsTellAll'
      BY <2>1 DEF PgInv, RevokedOnce, Charges, ResetsTellAll
    <2> QED  BY <2>3, <2>4, <2>5, <2>6 DEF PgInv
  <1> QED  BY <1>1, <1>2, <1>3, <1>4, <1>5, <1>6, <1>7 DEF PgNext

(* Whatever the calls, devices and PINs are: the lock, the written rows and  *)
(* the progress of each change are as replaceCredential leaves them.         *)
THEOREM PgInvariant ==
    PgSpec => []PgInv
  <1>1. PgInit => PgInv
    BY PgStart
  <1>2. PgInv /\ [PgNext]_pgVars => PgInv'
    BY PgStep
  <1> QED  BY <1>1, <1>2, PTL DEF PgSpec

(* Every row and lock has its type, and the guard's count never passes its   *)
(* limit (reserveLoginAttempt's WHERE).                                      *)
THEOREM PgTypes ==
    PgSpec => []PgTypeOK
  <1>1. PgInv => PgTypeOK
    BY DEF PgInv
  <1> QED  BY <1>1, PgInvariant, PTL

(* No PIN change ends in a unique violation, however many run at once: the   *)
(* advisory lock and the snapshot taken after it (replaceCredential).        *)
THEOREM ChangesNeverCollide ==
    PgSpec => []NoChangeCollides
  <1>1. PgInv => NoChangeCollides
    <2> SUFFICES ASSUME PgInv, NEW c \in Changes PROVE stage[c] # "duplicate"
      BY DEF NoChangeCollides
    <2>1. stage[c] \in Stages
      BY NamesDiffer DEF PgInv, StageTypes
    <2> QED  BY <2>1 DEF Stages
  <1> QED  BY <1>1, PgInvariant, PTL

(* An account that has had a PIN has one, whatever change is rolled back and *)
(* run again (replaceCredential, retryOnce).                                 *)
THEOREM AlwaysOnePin ==
    PgSpec => []OnePin
  <1>1. PgInv => OnePin
    <2> SUFFICES ASSUME PgInv, Ever # {} PROVE Cardinality(Live) = 1
      BY DEF OnePin
    <2>1. PICK p \in Pins : Live = {p}
      BY DEF PgInv, OneLive
    <2> QED  BY <2>1, FS_Singleton
  <1> QED  BY <1>1, PgInvariant, PTL

(* Each revocation of a device is in the rows of one committed statement     *)
(* (revokeAllDevices, replaceCredential).                                    *)
THEOREM RevocationReportedOnce ==
    PgSpec => []RevokedOnce
  <1>1. PgInv => RevokedOnce
    BY DEF PgInv
  <1> QED  BY <1>1, PgInvariant, PTL

(* A reservation run again after an error was not charged the first time     *)
(* (reserveLoginAttempt, retryOnce).                                         *)
THEOREM ReservationChargedOnce ==
    PgSpec => []ChargedOnce
  <1>1. PgInv => ChargedOnce
    BY DEF PgInv, Charges, ChargedOnce
  <1> QED  BY <1>1, PgInvariant, PTL

(* Resets report all they clear: their read is of the row they have locked   *)
(* (resetLoginGuard's FOR UPDATE).                                           *)
THEOREM ResetsReportAll ==
    PgSpec => []ResetsTellAll
  <1>1. PgInv => ResetsTellAll
    BY DEF PgInv
  <1> QED  BY <1>1, PgInvariant, PTL

\* Only a change's commit writes PINs.
LEMMA PinMoves ==
    ASSUME PgInv, [PgNext]_pgVars
    PROVE  pin' = pin \/ \E c \in Changes : CommitChange(c)
  <1>1. ASSUME NEW c \in Changes, Change(c), ~CommitChange(c) PROVE pin' = pin
    BY <1>1 DEF Change, TakeLock, StartDevices, StartRevoke, InsertPin, ClearGuard, rows
  <1>2. ASSUME NEW a \in RevokeAlls, StartRevokeAll(a) \/ CommitRevokeAll(a) PROVE pin' = pin
    BY <1>2 DEF StartRevokeAll, CommitRevokeAll, rows
  <1>3. ASSUME NEW t \in Txns, Abort(t) PROVE pin' = pin
    BY <1>3 DEF Abort, Survivors, PgInv, PgTypeOK
  <1>4. ASSUME NEW t \in Txns, NEW r \in Devices \cup Pins, WriteRow(t, r) PROVE pin' = pin
    BY <1>4 DEF WriteRow, rows
  <1>5. ASSUME NEW l \in Logins, Reserve(l) \/ LockAccount(l) PROVE pin' = pin
    BY <1>5 DEF Reserve, LockAccount
  <1>6. ASSUME NEW r \in Resets, StartReset(r) \/ FinishReset(r) \/ ResetNothing(r)
        PROVE  pin' = pin
    BY <1>6 DEF StartReset, FinishReset, ResetNothing, rows
  <1>7. ASSUME NEW c \in Logins \cup Resets, Reject(c) PROVE pin' = pin
    BY <1>7 DEF Reject, rows
  <1>8. ASSUME UNCHANGED pgVars PROVE pin' = pin
    BY <1>8 DEF pgVars, rows
  <1> QED  BY <1>1, <1>2, <1>3, <1>4, <1>5, <1>6, <1>7, <1>8 DEF PgNext

(* The change that replaces a PIN puts every other device out in the step    *)
(* that commits it, and the first PIN puts none out (replaceCredential).     *)
THEOREM DevicesLeaveTogether ==
    PgSpec => DevicesGoWithThePin
  <1> DEFINE Together == \A c \in Changes : pin'[c] = "live" /\ pin[c] # "live" =>
                 revoked' = IF Live # {} /\ RevokeOthersOnChange
                              THEN revoked \cup OtherDevices(c) ELSE revoked
  <1>1. PgInv /\ [PgNext]_pgVars => [Together]_pgVars
    <2> SUFFICES ASSUME PgInv, [PgNext]_pgVars,
                        NEW c \in Changes, pin'[c] = "live", pin[c] # "live"
                 PROVE  revoked' = IF Live # {} /\ RevokeOthersOnChange
                                     THEN revoked \cup OtherDevices(c) ELSE revoked
      OBVIOUS
    <2>1. PICK d \in Changes : CommitChange(d)
      BY PinMoves
    <2>2. c = d
      <3>1. c \in Live'
        BY NamesDiffer DEF Live
      <3> QED  BY <2>1, <3>1, CommitChangeLeaves
    <2>3. revoked' = revoked \cup (wrote[c] \cap Devices)
      BY <2>1, <2>2 DEF CommitChange
    <2> QED  BY <2>1, <2>2, <2>3, CommitChangeLeaves
  <1> QED  BY <1>1, PgInvariant, PTL DEF PgSpec, DevicesGoWithThePin

-----------------------------------------------------------------------------
(* The two stores side by side.                                             *)

\* A behaviour of MCSqlStores is one of the session stores and one of the
\* device-auth store: they share no table, and one of them rests.
THEOREM EachStoreAlone == MCSpec => Spec /\ PgSpec
  <1>1. MCInit => Init /\ PgInit
    BY DEF MCInit
  <1>2. [MCNext]_allVars => [Next]_vars
    BY DEF MCNext, allVars
  <1>3. [MCNext]_allVars => [PgNext]_pgVars
    BY DEF MCNext, allVars
  <1> QED  BY <1>1, <1>2, <1>3, PTL DEF MCSpec, Spec, PgSpec

\* The rows of auth_sessions and of the device-auth tables have their types
\* and bounds, whichever calls run (auth_sessions, auth_login_guard).
THEOREM SqlStoresTypes == MCSpec => []TypesOK
  <1>1. TypeOK /\ PgTypeOK => TypesOK
    BY DEF TypesOK
  <1> QED  BY <1>1, EachStoreAlone, SqlSessionsTypes, PgTypes, PTL
=============================================================================
