---------------------------- MODULE DeviceAuthProofs ----------------------------
(***************************************************************************)
(* Proofs about DeviceAuth: its types, the two halves of the PIN lockout,  *)
(* and that a device that was put out stays out.                           *)
(***************************************************************************)
EXTENDS DeviceAuth, FiniteSetTheorems, TLAPS

-----------------------------------------------------------------------------
(* Types.                                                                   *)

LEMMA TypeInit == Init => TypeOK
  <1> SUFFICES ASSUME Init PROVE TypeOK
    OBVIOUS
  <1>1. guard \in [failed : Nat, locked : BOOLEAN]
    BY DEF Init
  <1>2. OnePin
    BY DEF Init, OnePin
  <1> QED  BY <1>1, <1>2 DEF Init, TypeOK, Labels

\* One step of any request or of the surroundings keeps the types.
LEMMA TypeStep == TypeOK /\ [Next]_vars => TypeOK'
  <1> SUFFICES ASSUME TypeOK, [Next]_vars PROVE TypeOK'
    OBVIOUS
  <1> USE DEF TypeOK, Labels, Requests, Minters, OnePin, tables, request, history
  <1>1. ASSUME NEW e \in Emails, EmailUnlock(e) PROVE TypeOK'
    BY <1>1 DEF EmailUnlock, GuardReset, Goto
  <1>2. ASSUME NEW e \in Emails, EmailTrust(e) PROVE TypeOK'
    BY <1>2 DEF EmailTrust, Goto
  <1>3. ASSUME NEW e \in Emails, EmailTouch(e) PROVE TypeOK'
    BY <1>3 DEF EmailTouch, TouchDevice, Touchable, Unrevoked, Goto
  <1>4. ASSUME NEW e \in Emails, EmailRegister(e) PROVE TypeOK'
    BY <1>4 DEF EmailRegister, Goto
  <1>5. ASSUME NEW m \in Minters, Mint(m) PROVE TypeOK'
    BY <1>5 DEF Mint, Goto
  <1>6. ASSUME NEW l \in Logins, LoginReadDevice(l) PROVE TypeOK'
    BY <1>6 DEF LoginReadDevice, Goto
  <1>7. ASSUME NEW l \in Logins, LoginReadCredential(l) PROVE TypeOK'
    BY <1>7 DEF LoginReadCredential, Goto
  <1>8. ASSUME NEW l \in Logins, LoginAttempt(l) PROVE TypeOK'
    BY <1>8 DEF LoginAttempt, Goto
  <1>9. ASSUME NEW l \in Logins, LoginLock(l) PROVE TypeOK'
    <2>1. MayLock \in BOOLEAN
      BY DEF MayLock
    <2> QED  BY <1>9, <2>1 DEF LoginLock, Goto
  <1>10. ASSUME NEW l \in Logins, LoginUnlock(l) PROVE TypeOK'
    BY <1>10 DEF LoginUnlock, GuardReset, Goto
  <1>11. ASSUME NEW l \in Logins, LoginTouch(l) PROVE TypeOK'
    BY <1>11 DEF LoginTouch, TouchDevice, Touchable, Unrevoked, Goto
  <1>12. ASSUME NEW p \in PinSets, PinGate(p) PROVE TypeOK'
    BY <1>12 DEF PinGate, Goto
  <1>13. ASSUME NEW p \in PinSets, PinReplace(p) PROVE TypeOK'
    BY <1>13 DEF PinReplace, PinsAfter, WithoutDevices, Unrevoked, GuardReset, Goto
  <1>14. ASSUME NEW x \in PinSets \cup RevokeAlls, SignOut(x) PROVE TypeOK'
    BY <1>14 DEF SignOut, AllEnded, Goto
  <1>15. ASSUME NEW a \in RevokeAlls, RevokeAllDevices(a) PROVE TypeOK'
    BY <1>15 DEF RevokeAllDevices, WithoutDevices, Unrevoked, Goto
  <1>16. ASSUME NEW d \in Emails, RevokeDevice(d) PROVE TypeOK'
    BY <1>16 DEF RevokeDevice, WithoutDevices, Unrevoked
  <1>17. ASSUME NEW d \in Emails, ExpireDevice(d) PROVE TypeOK'
    BY <1>17 DEF ExpireDevice, Live
  <1>18. ASSUME NEW s \in Minters, EndSession(s) PROVE TypeOK'
    BY <1>18 DEF EndSession
  <1>19. ASSUME NEW r \in Requests, Throw(r) PROVE TypeOK'
    BY <1>19 DEF Throw, Goto
  <1>20. CASE UNCHANGED vars
    BY <1>20 DEF vars
  <1> QED
    BY <1>1, <1>2, <1>3, <1>4, <1>5, <1>6, <1>7, <1>8, <1>9, <1>10, <1>11, <1>12, <1>13,
       <1>14, <1>15, <1>16, <1>17, <1>18, <1>19, <1>20
       DEF Next, Email, Login, PinSet, RevokeAll

(***************************************************************************)
(* The tables and the locals keep their types, and one PIN is in force at  *)
(* a time, for any number of requests.                                     *)
(***************************************************************************)
THEOREM DeviceAuthTypes == Spec => []TypeOK
  BY TypeInit, TypeStep, PTL DEF Spec

-----------------------------------------------------------------------------
(* The lockout.                                                             *)

\* Every wrong PIN compared since the last reset is on the counter.
Counted == Cardinality(wrong) <= guard.failed /\ guard.failed <= PinMaxAttempts

Lockout == Counted /\ LockIsEarned

LEMMA LockoutInit == Init => Lockout
  BY FS_EmptySet, OptionsAssumption DEF Init, Lockout, Counted, LockIsEarned

LEMMA LockoutStep == TypeOK /\ Lockout /\ [Next]_vars => Lockout'
  <1> SUFFICES ASSUME TypeOK, Lockout, [Next]_vars PROVE Lockout'
    OBVIOUS
  <1> USE OptionsAssumption DEF Lockout, Counted, LockIsEarned
  <1>n. guard.failed \in Nat
    BY DEF TypeOK
  <1>u. ASSUME UNCHANGED <<guard, wrong>> PROVE Lockout'
    BY <1>u
  <1>r. ASSUME GuardReset PROVE Lockout'
    BY <1>r, FS_EmptySet DEF GuardReset
  <1>1. ASSUME NEW l \in Logins, LoginAttempt(l) PROVE Lockout'
    <2>1. CASE MayAttempt /\ guard' = [guard EXCEPT !.failed = guard.failed + 1]
      <3>1. guard'.failed = guard.failed + 1 /\ guard'.locked = guard.locked
        BY <2>1 DEF TypeOK
      <3>2. guard'.failed <= PinMaxAttempts /\ ~guard'.locked
        BY <2>1, <3>1, <1>n DEF MayAttempt
      <3>3. Cardinality(wrong') <= guard'.failed
        <4>1. IsFiniteSet(wrong)
          BY RequestsAssumption, FS_Subset DEF TypeOK
        <4>2. Cardinality(wrong) \in Nat
          BY <4>1, FS_CardinalityType
        <4>3. Cardinality(wrong \cup {l}) <= Cardinality(wrong) + 1
          <5>1. Cardinality(wrong \cup {l}) =
                  IF l \in wrong THEN Cardinality(wrong) ELSE Cardinality(wrong) + 1
            BY <4>1, FS_AddElement, Zenon
          <5> QED  BY <4>2, <5>1
        <4>4. wrong' \in {wrong, wrong \cup {l}}
          BY <1>1 DEF LoginAttempt
        <4>5. CASE wrong' = wrong
          BY <3>1, <4>2, <4>5, <1>n
        <4>6. CASE wrong' = wrong \cup {l}
          <5>1. Cardinality(wrong \cup {l}) \in Nat
            BY <4>1, FS_AddElement, FS_CardinalityType
          <5> QED  BY <3>1, <4>2, <4>3, <4>6, <5>1, <1>n
        <4> QED  BY <4>4, <4>5, <4>6
      <3> QED  BY <3>2, <3>3
    <2>2. CASE UNCHANGED <<guard, wrong>>
      BY <2>2, <1>u
    <2> QED  BY <1>1, <2>1, <2>2 DEF LoginAttempt
  <1>2. ASSUME NEW l \in Logins, LoginLock(l) PROVE Lockout'
    <2>1. MayLock \in BOOLEAN
      BY DEF MayLock
    <2>2. guard'.failed = guard.failed /\ guard'.locked = (guard.locked \/ MayLock)
      BY <1>2 DEF LoginLock, TypeOK
    <2>3. wrong' = wrong
      BY <1>2 DEF LoginLock, history
    <2>4. guard'.locked => guard.failed >= PinMaxAttempts
      BY <2>2 DEF MayLock
    <2> QED  BY <2>2, <2>3, <2>4
  <1> QED
    BY <1>u, <1>r, <1>1, <1>2
       DEF Next, Email, Login, PinSet, RevokeAll, EmailUnlock, EmailTrust, EmailTouch,
           EmailRegister, Mint, LoginReadDevice, LoginReadCredential, LoginUnlock,
           LoginTouch, PinGate, PinReplace, SignOut, RevokeAllDevices, RevokeDevice,
           ExpireDevice, EndSession, Throw, vars, tables, history

(***************************************************************************)
(* At most pin.maxAttempts wrong PINs are compared between two resets of   *)
(* the guard, for any number of concurrent logins (reserveLoginAttempt).   *)
(***************************************************************************)
THEOREM PinGuessesCapped == Spec => []PinGuessCap
  <1>1. TypeOK /\ Lockout => PinGuessCap
    <2> SUFFICES ASSUME TypeOK, Lockout PROVE PinGuessCap
      OBVIOUS
    <2>1. Cardinality(wrong) \in Nat
      BY RequestsAssumption, FS_Subset, FS_CardinalityType DEF TypeOK
    <2> QED
      BY <2>1, OptionsAssumption DEF Lockout, Counted, PinGuessCap, TypeOK
  <1> QED
    BY <1>1, TypeInit, TypeStep, LockoutInit, LockoutStep, PTL DEF Spec

(***************************************************************************)
(* A lock always rests on a spent counter: no late lockAccount re-locks an *)
(* account whose guard was reset meanwhile.                                *)
(***************************************************************************)
THEOREM LocksAreEarned == Spec => []LockIsEarned
  <1>1. Lockout => LockIsEarned
    BY DEF Lockout
  <1> QED
    BY <1>1, TypeInit, TypeStep, LockoutInit, LockoutStep, PTL DEF Spec

-----------------------------------------------------------------------------
(* Devices that were put out.                                               *)

\* Until an email request has registered its device, there is no such device;
\* so a device is registered once, and one that is gone never returns.
Unregistered ==
    \A e \in Emails : pc[e] \in {"idle", "trust", "touch", "register"} => devices[e] = "none"

PutOutIsGone ==
    \A x \in PinSets \cup RevokeAlls : \A d \in out[x] : devices[d] = "gone"

PutOut == Unregistered /\ PutOutIsGone

LEMMA PutOutInit == Init => PutOut
  BY DEF Init, PutOut, Unregistered, PutOutIsGone, Minters

LEMMA PutOutStep == TypeOK /\ PutOut /\ [Next]_vars => PutOut'
  <1> SUFFICES ASSUME TypeOK, PutOut, [Next]_vars PROVE PutOut'
    OBVIOUS
  <1> USE DEF PutOut, Unregistered, PutOutIsGone, TypeOK, Requests, Minters,
              tables, request, history
  <1>u. ASSUME UNCHANGED <<devices, out>>,
               \A e \in Emails : pc'[e] \in {"idle", "trust", "touch", "register"}
                  => pc[e] \in {"idle", "trust", "touch", "register"}
        PROVE  PutOut'
    BY <1>u
  <1>1. ASSUME NEW e \in Emails, EmailUnlock(e) PROVE PutOut'
    BY <1>1, <1>u DEF EmailUnlock, Goto
  <1>2. ASSUME NEW e \in Emails, EmailTrust(e) PROVE PutOut'
    BY <1>2, <1>u DEF EmailTrust, Goto
  <1>3. ASSUME NEW e \in Emails, EmailTouch(e) PROVE PutOut'
    BY <1>3 DEF EmailTouch, TouchDevice, Touchable, Unrevoked, Goto
  <1>4. ASSUME NEW e \in Emails, EmailRegister(e) PROVE PutOut'
    BY <1>4 DEF EmailRegister, Goto
  <1>5. ASSUME NEW m \in Minters, Mint(m) PROVE PutOut'
    BY <1>5, <1>u DEF Mint, Goto
  <1>6. ASSUME NEW l \in Logins,
               LoginReadDevice(l) \/ LoginReadCredential(l) \/ LoginAttempt(l)
               \/ LoginLock(l) \/ LoginUnlock(l)
        PROVE  PutOut'
    <2>1. UNCHANGED <<devices, out>>
      BY <1>6 DEF LoginReadDevice, LoginReadCredential, LoginAttempt, LoginLock, LoginUnlock
    <2>2. \A e \in Emails : pc'[e] = pc[e]
      BY <1>6, RequestsAssumption
         DEF LoginReadDevice, LoginReadCredential, LoginAttempt, LoginLock, LoginUnlock, Goto
    <2> QED  BY <2>1, <2>2, <1>u
  <1>7. ASSUME NEW l \in Logins, LoginTouch(l) PROVE PutOut'
    <2>1. \A e \in Emails : pc'[e] = pc[e]
      BY <1>7, RequestsAssumption DEF LoginTouch, Goto
    <2> QED  BY <1>7, <2>1 DEF LoginTouch, TouchDevice, Touchable, Unrevoked
  <1>8. ASSUME NEW p \in PinSets, PinGate(p) PROVE PutOut'
    BY <1>8, <1>u, RequestsAssumption DEF PinGate, Goto
  <1>9. ASSUME NEW p \in PinSets, PinReplace(p) PROVE PutOut'
    <2>1. \A e \in Emails : pc'[e] = pc[e]
      BY <1>9, RequestsAssumption DEF PinReplace, Goto
    <2>2. PICK others \in SUBSET Unrevoked :
            devices' = WithoutDevices(others) /\ out' = [out EXCEPT ![p] = others]
      BY <1>9 DEF PinReplace
    <2> QED  BY <2>1, <2>2 DEF WithoutDevices, Unrevoked
  <1>10. ASSUME NEW x \in PinSets \cup RevokeAlls, SignOut(x) PROVE PutOut'
    BY <1>10, <1>u, RequestsAssumption DEF SignOut, Goto
  <1>11. ASSUME NEW a \in RevokeAlls, RevokeAllDevices(a) PROVE PutOut'
    <2>1. \A e \in Emails : pc'[e] = pc[e]
      BY <1>11, RequestsAssumption DEF RevokeAllDevices, Goto
    <2> QED  BY <1>11, <2>1 DEF RevokeAllDevices, WithoutDevices, Unrevoked
  <1>12. ASSUME NEW d \in Emails, RevokeDevice(d) PROVE PutOut'
    BY <1>12 DEF RevokeDevice, WithoutDevices, Unrevoked
  <1>13. ASSUME NEW d \in Emails, ExpireDevice(d) PROVE PutOut'
    BY <1>13 DEF ExpireDevice, Live
  <1>14. ASSUME NEW s \in Minters, EndSession(s) PROVE PutOut'
    BY <1>14, <1>u DEF EndSession
  <1>15. ASSUME NEW r \in Requests, Throw(r) PROVE PutOut'
    BY <1>15, <1>u DEF Throw, Goto
  <1>16. CASE UNCHANGED vars
    BY <1>16, <1>u DEF vars
  <1> QED
    BY <1>1, <1>2, <1>3, <1>4, <1>5, <1>6, <1>7, <1>8, <1>9, <1>10, <1>11, <1>12, <1>13,
       <1>14, <1>15, <1>16
       DEF Next, Email, Login, PinSet, RevokeAll

(***************************************************************************)
(* No session of a device that a PIN change or a revoke-all put out is     *)
(* usable, whenever it was minted (deviceBoundSessionStore.get).           *)
(***************************************************************************)
THEOREM PutOutDevicesStayOut == Spec => []PutOutStaysOut
  <1>1. TypeOK /\ PutOut => PutOutStaysOut
    BY RequestsAssumption
       DEF TypeOK, PutOut, PutOutIsGone, PutOutStaysOut, Usable, Live
  <1> QED
    BY <1>1, TypeInit, TypeStep, PutOutInit, PutOutStep, PTL DEF Spec
=============================================================================
