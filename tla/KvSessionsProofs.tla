---------------------------- MODULE KvSessionsProofs ----------------------------
(***************************************************************************)
(* Proofs about KvSessions: its types, that a logged-out session's record  *)
(* never comes back, and that the store implements SessionStore.           *)
(***************************************************************************)
EXTENDS KvSessions, FiniteSetTheorems, TLAPS

-----------------------------------------------------------------------------
(* Keys.                                                                    *)

LEMMA KeyTypes ==
    ASSUME NEW V, NEW v \in V
    PROVE  Key(v) \in KeyOf(V)
  BY DEF Key, KeyOf

LEMMA WrittenTypes ==
    ASSUME NEW V, NEW key \in KeyOf(V), NEW v \in V
    PROVE  Written(key, v) \in KeyOf(V)
  BY DEF Written, KeyOf

LEMMA WrittenReads ==
    ASSUME NEW key, NEW v
    PROVE  Written(key, v).reads = key.reads \cup {v}
  BY DEF Written

LEMMA KeyOfGrows ==
    ASSUME NEW V, NEW W, V \subseteq W, NEW key \in KeyOf(V)
    PROVE  key \in KeyOf(W)
  BY DEF KeyOf

\* Key, Written and KeyOf stay folded in what follows.

LEMMA OneMore ==
    ASSUME NEW S, IsFiniteSet(S), NEW x
    PROVE  /\ Cardinality(S \cup {x}) \in Nat
           /\ Cardinality(S \cup {x}) <= Cardinality(S) + 1
  <1>1. Cardinality(S) \in Nat
    BY FS_CardinalityType
  <1>2. /\ IsFiniteSet(S \cup {x})
        /\ Cardinality(S \cup {x}) = IF x \in S THEN Cardinality(S) ELSE Cardinality(S) + 1
    BY FS_AddElement
  <1> QED  BY <1>1, <1>2

-----------------------------------------------------------------------------
(* The memory of marker writes.                                             *)

LEMMA GuardBounded ==
    ASSUME TypeOK, NEW g \in Gets, NEW i \in Isolates, BeginTouch(g, i)
    PROVE  /\ touchGuard' \in [Isolates -> [Sids -> Nat]]
           /\ \A j \in Isolates : Cardinality(Guarded(j)') <= TouchGuardMax
  <1> DEFINE s == asked[g].sid
             full == Cardinality(Guarded(i)) >= TouchGuardMax
  <1>1. s \in Sids /\ clock \in Nat \ {0} /\ touchGuard \in [Isolates -> [Sids -> Nat]]
    BY DEF TypeOK, Times
  <1>2. touchGuard' = [touchGuard EXCEPT ![i] =
            [q \in Sids |-> IF q = s THEN clock ELSE IF full THEN 0 ELSE touchGuard[i][q]]]
    BY DEF BeginTouch
  <1>3. touchGuard' \in [Isolates -> [Sids -> Nat]]
    BY <1>1, <1>2
  <1>4. ASSUME NEW j \in Isolates, j # i
        PROVE  Cardinality(Guarded(j)') <= TouchGuardMax
    <2>1. Guarded(j)' = Guarded(j)
      BY <1>1, <1>2, <1>4 DEF Guarded
    <2> QED  BY <2>1 DEF TypeOK
  <1>5. Cardinality(Guarded(i)') <= TouchGuardMax
    <2>1. IsFiniteSet(Guarded(i))
      BY FS_Subset, SetsAssumption DEF Guarded
    <2>2. Cardinality(Guarded(i)) \in Nat /\ TouchGuardMax \in Nat \ {0}
      BY <2>1, FS_CardinalityType, TtlAssumption
    <2>3. CASE full
      <3>1. Guarded(i)' = {s}
        BY <1>1, <1>2, <2>3 DEF Guarded
      <3>2. Cardinality({s}) = 1
        BY FS_Singleton
      <3> QED  BY <3>1, <3>2, <2>2
    <2>4. CASE ~full
      <3>1. Guarded(i)' = Guarded(i) \cup {s}
        BY <1>1, <1>2, <2>4 DEF Guarded
      <3>2. Cardinality(Guarded(i)) < TouchGuardMax
        BY <2>2, <2>4
      <3>3. /\ Cardinality(Guarded(i) \cup {s}) \in Nat
            /\ Cardinality(Guarded(i) \cup {s}) <= Cardinality(Guarded(i)) + 1
        BY <2>1, OneMore, Zenon
      <3> QED  BY <2>2, <3>1, <3>2, <3>3
    <2> QED  BY <2>3, <2>4
  <1> QED  BY <1>3, <1>4, <1>5

-----------------------------------------------------------------------------
(* Types.                                                                   *)

LEMMA TypeInit == Init => TypeOK
  <1> SUFFICES ASSUME Init PROVE TypeOK
    OBVIOUS
  <1>1. clock = 1 /\ 0 \in 0..clock
    BY DEF Init
  <1>2. record \in [Sids -> KeyOf(BOOLEAN)] /\ marker \in [Sids -> KeyOf(0..clock)]
    <2>1. Key(FALSE) \in KeyOf(BOOLEAN)
      BY KeyTypes, Zenon
    <2>2. Key(0) \in KeyOf(0..clock)
      BY <1>1, KeyTypes, Zenon
    <2> QED  BY <2>1, <2>2, Zenon DEF Init, NoMarker
  <1>3. \A i \in Isolates : Cardinality(Guarded(i)) <= TouchGuardMax
    <2>1. \A i \in Isolates : Guarded(i) = {}
      BY DEF Init, Guarded
    <2> QED  BY <2>1, FS_EmptySet, TtlAssumption
  <1>4. asked \in [Gets -> [sid : Sids, gone : BOOLEAN, over : BOOLEAN]]
    <2>1. \A s \in Sids : [sid |-> s, gone |-> FALSE, over |-> FALSE]
                            \in [sid : Sids, gone : BOOLEAN, over : BOOLEAN]
      OBVIOUS
    <2>2. asked \in [Gets -> {[sid |-> s, gone |-> FALSE, over |-> FALSE] : s \in Sids}]
      BY DEF Init
    <2>3. ASSUME NEW g \in Gets
          PROVE  asked[g] \in [sid : Sids, gone : BOOLEAN, over : BOOLEAN]
      <3>1. asked[g] \in {[sid |-> s, gone |-> FALSE, over |-> FALSE] : s \in Sids}
        BY <2>2, Zenon
      <3> QED  BY <2>1, <3>1, Zenon
    <2>4. asked = [g \in Gets |-> asked[g]]
      BY <2>2, Zenon
    <2> QED  BY <2>3, <2>4, Zenon
  <1>5. /\ \A g \in Gets : pc[g] = "idle"
        /\ \A x \in Revokers : pc[x] = "idle"
        /\ pc \in [Calls -> PcOfGet \cup PcOfRevoker]
    BY DEF Init, Calls, PcOfGet, PcOfRevoker
  <1>6. /\ clock \in Times /\ list \in BOOLEAN /\ revokedBefore \in Nat /\ made \subseteq Sids
        /\ createdAt \in [Sids -> 0..clock] /\ tombstone \in [Sids -> Nat]
        /\ touchGuard \in [Isolates -> [Sids -> Nat]]
        /\ at \in [Gets -> 0..clock] /\ seen \in [Gets -> 0..clock]
        /\ bound \in [Revokers -> Nat] /\ reach \in [Revokers -> SUBSET Sids]
        /\ told \in [Gets -> BOOLEAN]
    BY DEF Init, Times
  <1>7. "idle" \in PcOfGet /\ "idle" \in PcOfRevoker
    BY DEF PcOfGet, PcOfRevoker
  <1> QED
    BY <1>2, <1>3, <1>4, <1>5, <1>6, <1>7, Zenon DEF TypeOK
PcTypes ==
    /\ pc \in [Calls -> PcOfGet \cup PcOfRevoker]
    /\ \A g \in Gets : pc[g] \in PcOfGet
    /\ \A x \in Revokers : pc[x] \in PcOfRevoker

LEMMA GotoOfGet ==
    ASSUME TypeOK, NEW g \in Gets, NEW from, NEW to \in PcOfGet, Goto(g, from, to)
    PROVE  PcTypes'
  BY SetsAssumption DEF TypeOK, PcTypes, Goto, Calls

LEMMA GotoOfRevoker ==
    ASSUME TypeOK, NEW x \in Revokers, NEW from, NEW to \in PcOfRevoker, Goto(x, from, to)
    PROVE  PcTypes'
  BY SetsAssumption DEF TypeOK, PcTypes, Goto, Calls

LEMMA ForgetTypes ==
    ASSUME TypeOK, NEW s \in Sids, Forget(s)
    PROVE  /\ record' \in [Sids -> KeyOf(BOOLEAN)]
           /\ marker' \in [Sids -> KeyOf(0..clock)]
  <1>1. Written(record[s], FALSE) \in KeyOf(BOOLEAN)
    <2>1. record[s] \in KeyOf(BOOLEAN)
      BY DEF TypeOK
    <2> QED  BY <2>1, WrittenTypes, Zenon
  <1>2. Written(marker[s], 0) \in KeyOf(0..clock)
    <2>1. marker[s] \in KeyOf(0..clock) /\ 0 \in 0..clock
      BY DEF TypeOK, Times
    <2> QED  BY <2>1, WrittenTypes, Zenon
  <1> QED  BY <1>1, <1>2 DEF Forget, NoMarker, TypeOK

\* What most steps leave alone: the clock and the memory of marker writes.
Rest ==
    /\ list \in BOOLEAN
    /\ createdAt \in [Sids -> 0..clock]
    /\ made \subseteq Sids
    /\ record \in [Sids -> KeyOf(BOOLEAN)]
    /\ marker \in [Sids -> KeyOf(0..clock)]
    /\ tombstone \in [Sids -> Nat]
    /\ revokedBefore \in Nat
    /\ at \in [Gets -> 0..clock]
    /\ seen \in [Gets -> 0..clock]
    /\ bound \in [Revokers -> Nat]
    /\ asked \in [Gets -> [sid : Sids, gone : BOOLEAN, over : BOOLEAN]]
    /\ told \in [Gets -> BOOLEAN]
    /\ reach \in [Revokers -> SUBSET Sids]

GuardTypes ==
    /\ touchGuard \in [Isolates -> [Sids -> Nat]]
    /\ \A i \in Isolates : Cardinality(Guarded(i)) <= TouchGuardMax

LEMMA TypeParts == TypeOK <=> clock \in Times /\ PcTypes /\ Rest /\ GuardTypes
  BY DEF TypeOK, PcTypes, Rest, GuardTypes

LEMMA TypePartsPrime ==
    ASSUME (clock \in Times)', PcTypes', Rest', GuardTypes'
    PROVE  TypeOK'
  BY DEF TypeOK, PcTypes, Rest, GuardTypes

LEMMA GuardUnchanged == ASSUME TypeOK, UNCHANGED touchGuard PROVE GuardTypes'
  BY DEF TypeOK, GuardTypes, Guarded

LEMMA PcUnchanged == ASSUME TypeOK, UNCHANGED pc PROVE PcTypes'
  BY DEF TypeOK, PcTypes
\* One step of a get.
LEMMA TypeGet ==
    ASSUME TypeOK, NEW g \in Gets, Get(g)
    PROVE  TypeOK'
  <1> DEFINE s == asked[g].sid
  <1>1. /\ s \in Sids /\ clock \in Times /\ clock \in 0..clock /\ Rest
        /\ record \in [Sids -> KeyOf(BOOLEAN)]
        /\ marker \in [Sids -> KeyOf(0..clock)]
    BY DEF TypeOK, Times, Rest
  <1> HIDE DEF s
  <1> USE DEF keys, rows, locals, history, sessions
  <1>2. {"asked", "null", "expired", "check", "session", "touch", "touched"} \subseteq PcOfGet
    BY DEF PcOfGet
  <1>3. CASE AskGet(g)
    <2>1. PcTypes'
      BY <1>2, <1>3, GotoOfGet DEF AskGet
    <2>2. asked' \in [Gets -> [sid : Sids, gone : BOOLEAN, over : BOOLEAN]]
      <3>1. asked \in [Gets -> [sid : Sids, gone : BOOLEAN, over : BOOLEAN]]
        BY <1>1 DEF Rest
      <3>2. \A a, b \in BOOLEAN : [asked EXCEPT ![g].gone = a, ![g].over = b]
                \in [Gets -> [sid : Sids, gone : BOOLEAN, over : BOOLEAN]]
        BY <3>1
      <3>3. (asked[g].sid \in Gone) \in BOOLEAN /\ (asked[g].sid \in Over) \in BOOLEAN
        OBVIOUS
      <3>4. asked' = [asked EXCEPT ![g].gone = asked[g].sid \in Gone,
                                   ![g].over = asked[g].sid \in Over]
        BY <1>3 DEF AskGet
      <3> QED  BY <3>2, <3>3, <3>4, Zenon
    <2>3. told' \in [Gets -> BOOLEAN]
      <3>1. told' = [told EXCEPT ![g] =
                \E h \in Gets : pc[h] = "expired" /\ asked[h].sid = asked[g].sid]
        BY <1>3 DEF AskGet
      <3>2. \A b \in BOOLEAN : [told EXCEPT ![g] = b] \in [Gets -> BOOLEAN]
        BY <1>1, Zenon DEF Rest
      <3>3. (\E h \in Gets : pc[h] = "expired" /\ asked[h].sid = asked[g].sid) \in BOOLEAN
        OBVIOUS
      <3> QED  BY <3>1, <3>2, <3>3, Zenon
    <2>4. Rest'
      BY <1>1, <1>3, <2>2, <2>3 DEF AskGet, Rest
    <2> QED  BY <1>1, <1>3, <2>1, <2>4, GuardUnchanged, TypePartsPrime DEF AskGet
  <1>4. CASE FindNothing(g)
    <2>1. PcTypes'
      BY <1>2, <1>4, GotoOfGet DEF FindNothing
    <2>2. Rest'
      BY <1>1, <1>4 DEF FindNothing, Rest
    <2> QED  BY <1>1, <1>4, <2>1, <2>2, GuardUnchanged, TypePartsPrime DEF FindNothing
  <1>5. CASE FindExpired(g)
    <2>1. PcTypes'
      BY <1>2, <1>5, GotoOfGet DEF FindExpired
    <2>2. Rest'
      BY <1>1, <1>5 DEF FindExpired, Rest
    <2> QED  BY <1>1, <1>5, <2>1, <2>2, GuardUnchanged, TypePartsPrime DEF FindExpired
  <1>6. CASE FindLive(g)
    <2>1. PcTypes'
      BY <1>2, <1>6, GotoOfGet DEF FindLive
    <2>2. PICK m \in marker[s].reads :
              ~Expired(s, m) /\ seen' = [seen EXCEPT ![g] = LastSeen(s, m)]
      BY <1>6 DEF FindLive, s
    <2>3. LastSeen(s, m) \in 0..clock
      <3>1. marker[s] \in KeyOf(0..clock)
        BY <1>1
      <3>2. m \in 0..clock
        BY <2>2, <3>1 DEF KeyOf
      <3> QED  BY <1>1, <3>2 DEF LastSeen, Rest
    <2>4. Rest'
      BY <1>1, <1>6, <2>2, <2>3 DEF FindLive, Rest
    <2> QED  BY <1>1, <1>6, <2>1, <2>4, GuardUnchanged, TypePartsPrime DEF FindLive
  <1>7. CASE CheckRevoked(g)
    <2>1. PcTypes'
      BY <1>2, <1>7, GotoOfGet DEF CheckRevoked
    <2>2. Rest'
      BY <1>1, <1>7 DEF CheckRevoked, Rest
    <2> QED  BY <1>1, <1>7, <2>1, <2>2, GuardUnchanged, TypePartsPrime DEF CheckRevoked
  <1>8. CASE ForgetExpired(g)
    <2>1. PcTypes'
      BY <1>2, <1>8, GotoOfGet DEF ForgetExpired
    <2>2. Rest'
      BY <1>1, <1>8, ForgetTypes DEF ForgetExpired, Rest, s
    <2> QED  BY <1>1, <1>8, <2>1, <2>2, GuardUnchanged, TypePartsPrime DEF ForgetExpired
  <1>9. CASE PutMarker(g)
    <2>1. PcTypes'
      BY <1>2, <1>9, GotoOfGet DEF PutMarker
    <2>2. Written(marker[s], at[g]) \in KeyOf(0..clock)
      <3>1. marker[s] \in KeyOf(0..clock) /\ at[g] \in 0..clock
        BY <1>1 DEF Rest
      <3> QED  BY <3>1, WrittenTypes, Zenon
    <2>3. Rest'
      BY <1>1, <1>9, <2>2 DEF PutMarker, Rest, SeenAt, s
    <2> QED  BY <1>1, <1>9, <2>1, <2>3, GuardUnchanged, TypePartsPrime DEF PutMarker
  <1>10. ASSUME NEW i \in Isolates, BeginTouch(g, i) PROVE TypeOK'
    <2>1. PcTypes'
      BY <1>2, <1>10, GotoOfGet DEF BeginTouch
    <2>2. Rest'
      BY <1>1, <1>10 DEF BeginTouch, Rest
    <2>3. GuardTypes'
      BY <1>10, GuardBounded DEF GuardTypes
    <2> QED  BY <1>1, <1>10, <2>1, <2>2, <2>3, TypePartsPrime DEF BeginTouch
  <1> QED
    BY <1>3, <1>4, <1>5, <1>6, <1>7, <1>8, <1>9, <1>10, Zenon DEF Get

\* One step of a revocation.
LEMMA TypeRevoke ==
    ASSUME TypeOK, NEW x \in Revokers, Revoke(x)
    PROVE  TypeOK'
  <1>1. /\ clock \in Times /\ Rest
        /\ record \in [Sids -> KeyOf(BOOLEAN)]
    BY DEF TypeOK, Times, Rest
  <1> USE DEF keys, rows, locals, history, sessions
  <1>2. {"look", "bury", "forget", "mark", "out", "done"} \subseteq PcOfRevoker
    BY DEF PcOfRevoker
  <1>3. \A s \in Sids : Abs(s) \in Nat
    BY <1>1, TtlAssumption DEF Abs, Rest, Times
  <1>4. CASE BeginRevokeAll(x)
    <2>1. PcTypes'
      BY <1>2, <1>4, GotoOfRevoker DEF BeginRevokeAll
    <2>2. Rest'
      BY <1>1, <1>4 DEF BeginRevokeAll, Rest, Cutoff, Times
    <2> QED  BY <1>1, <1>4, <2>1, <2>2, GuardUnchanged, TypePartsPrime DEF BeginRevokeAll
  <1>5. CASE MarkUser(x)
    <2>1. PcTypes'
      BY <1>2, <1>5, GotoOfRevoker DEF MarkUser
    <2>2. Rest'
      BY <1>1, <1>5 DEF MarkUser, Rest, Larger
    <2> QED  BY <1>1, <1>5, <2>1, <2>2, GuardUnchanged, TypePartsPrime DEF MarkUser
  <1>6. ASSUME NEW s \in Sids, BeginRevoke(x, s) PROVE TypeOK'
    <2>1. PcTypes'
      BY <1>2, <1>6, GotoOfRevoker DEF BeginRevoke
    <2>2. Rest'
      BY <1>1, <1>6 DEF BeginRevoke, Rest
    <2> QED  BY <1>1, <1>6, <2>1, <2>2, GuardUnchanged, TypePartsPrime DEF BeginRevoke
  <1>7. ASSUME NEW s \in Sids, LookUp(x, s) PROVE TypeOK'
    <2>1. PcTypes'
      BY <1>2, <1>7, GotoOfRevoker DEF LookUp
    <2>2. bound' \in [Revokers -> Nat]
      <3>1. clock + TombstoneFallback \in Nat
        BY <1>1, TtlAssumption DEF Times
      <3> QED  BY <1>1, <1>3, <1>7, <3>1 DEF LookUp, Rest
    <2>3. Rest'
      BY <1>1, <1>7, <2>2 DEF LookUp, Rest
    <2> QED  BY <1>1, <1>7, <2>1, <2>3, GuardUnchanged, TypePartsPrime DEF LookUp
  <1>8. ASSUME NEW s \in Sids, Bury(x, s) PROVE TypeOK'
    <2>1. PcTypes'
      BY <1>2, <1>8, GotoOfRevoker DEF Bury
    <2>2. Rest'
      BY <1>1, <1>8 DEF Bury, Rest, Larger
    <2> QED  BY <1>1, <1>8, <2>1, <2>2, GuardUnchanged, TypePartsPrime DEF Bury
  <1>9. ASSUME NEW s \in Sids, ForgetRevoked(x, s) PROVE TypeOK'
    <2>1. PcTypes'
      BY <1>2, <1>9, GotoOfRevoker DEF ForgetRevoked
    <2>2. Rest'
      BY <1>1, <1>9, ForgetTypes DEF ForgetRevoked, Rest
    <2> QED  BY <1>1, <1>9, <2>1, <2>2, GuardUnchanged, TypePartsPrime DEF ForgetRevoked
  <1> QED
    BY <1>4, <1>5, <1>6, <1>7, <1>8, <1>9, Zenon DEF Revoke
\* One step of the surroundings.
LEMMA TypeStorage ==
    ASSUME TypeOK, NEW s \in Sids, Storage(s)
    PROVE  TypeOK'
  <1>1. /\ clock \in Times /\ clock \in 0..clock /\ Rest
        /\ record \in [Sids -> KeyOf(BOOLEAN)]
        /\ marker \in [Sids -> KeyOf(0..clock)]
        /\ record[s] \in KeyOf(BOOLEAN) /\ marker[s] \in KeyOf(0..clock)
    BY DEF TypeOK, Times, Rest
  <1> USE DEF keys, rows, locals, history, sessions
  <1>2. /\ Written(record[s], TRUE) \in KeyOf(BOOLEAN)
        /\ Written(record[s], FALSE) \in KeyOf(BOOLEAN)
    BY <1>1, WrittenTypes, Zenon
  <1>3. Written(marker[s], NoMarker) \in KeyOf(0..clock)
    <2>1. NoMarker \in 0..clock
      BY <1>1 DEF NoMarker, Times
    <2> QED  BY <1>1, <2>1, WrittenTypes, Zenon
  <1>4. Key(record[s].now) \in KeyOf(BOOLEAN) /\ Key(marker[s].now) \in KeyOf(0..clock)
    <2>1. record[s].now \in BOOLEAN /\ marker[s].now \in 0..clock
      BY <1>1 DEF KeyOf
    <2> QED  BY <2>1, KeyTypes, Zenon
  <1>5. UNCHANGED <<clock, touchGuard, pc>>
    BY DEF Storage, BeginCreate, PutRecord, ExpireRecord, ExpireMarker,
           PropagateRecord, PropagateMarker
  <1>6. Rest'
    <2>1. CASE BeginCreate(s)
      BY <1>1, <2>1 DEF BeginCreate, Rest
    <2>2. CASE PutRecord(s)
      BY <1>1, <1>2, <2>2 DEF PutRecord, Rest
    <2>3. CASE ExpireRecord(s)
      BY <1>1, <1>2, <2>3 DEF ExpireRecord, Rest
    <2>4. CASE ExpireMarker(s)
      BY <1>1, <1>3, <2>4 DEF ExpireMarker, Rest
    <2>5. CASE PropagateRecord(s)
      BY <1>1, <1>4, <2>5 DEF PropagateRecord, Rest
    <2>6. CASE PropagateMarker(s)
      BY <1>1, <1>4, <2>6 DEF PropagateMarker, Rest
    <2> QED  BY <2>1, <2>2, <2>3, <2>4, <2>5, <2>6 DEF Storage
  <1> QED
    BY <1>1, <1>5, <1>6, GuardUnchanged, PcUnchanged, TypePartsPrime

LEMMA TypeStep == TypeOK /\ [Next]_vars => TypeOK'
  <1> SUFFICES ASSUME TypeOK, [Next]_vars PROVE TypeOK'
    OBVIOUS
  <1>1. clock \in Times /\ Rest
    BY DEF TypeOK, Times, Rest
  <1> USE DEF keys, rows, locals, history, sessions
  <1>2. ASSUME NEW c \in Calls, Throw(c) PROVE TypeOK'
    <2>1. PcTypes'
      BY <1>2, SetsAssumption DEF Throw, TypeOK, PcTypes, PcOfGet, PcOfRevoker, Calls
    <2>2. Rest'
      BY <1>1, <1>2 DEF Throw, Rest
    <2> QED  BY <1>1, <1>2, <2>1, <2>2, GuardUnchanged, TypePartsPrime DEF Throw
  <1>3. CASE Cleanup
    <2>1. Rest'
      BY <1>1, <1>3 DEF Cleanup, Rest
    <2> QED  BY <1>1, <1>3, <2>1, GuardUnchanged, PcUnchanged, TypePartsPrime DEF Cleanup
  <1>4. CASE Tick
    <2>1. clock' \in Times /\ 0..clock \subseteq 0..clock'
      BY <1>1, <1>4 DEF Tick, Times
    <2>2. marker' \in [Sids -> KeyOf(0..clock')]
      <3>1. marker' = marker /\ marker \in [Sids -> KeyOf(0..clock)]
        BY <1>1, <1>4 DEF Tick, Rest
      <3>2. \A s \in Sids : marker[s] \in KeyOf(0..clock')
        BY <2>1, <3>1, KeyOfGrows, Zenon
      <3> QED  BY <3>1, <3>2, Zenon
    <2>3. Rest'
      BY <1>1, <1>4, <2>1, <2>2 DEF Tick, Rest
    <2> QED  BY <1>4, <2>1, <2>3, GuardUnchanged, PcUnchanged, TypePartsPrime DEF Tick
  <1>5. CASE UNCHANGED vars
    <2>1. UNCHANGED <<clock, touchGuard, pc>> /\ Rest'
      BY <1>1, <1>5 DEF vars, Rest
    <2> QED  BY <1>1, <2>1, GuardUnchanged, PcUnchanged, TypePartsPrime
  <1> QED
    BY <1>2, <1>3, <1>4, <1>5, TypeGet, TypeRevoke, TypeStorage, Zenon DEF Next

(***************************************************************************)
(* The keys, the rows and the locals keep their types, and an isolate's    *)
(* memory of marker writes (kv.ts touchGuard) never exceeds its limit.     *)
(***************************************************************************)
THEOREM KvSessionsTypes == Spec => []TypeOK
  BY TypeInit, TypeStep, PTL DEF Spec
-----------------------------------------------------------------------------
(* The inductive invariant.                                                 *)

\* A revocation of s is on the list, or is no longer needed.
Covered(s) ==
    \/ s \in Over
    \/ tombstone[s] >= Abs(s)
    \/ revokedBefore > createdAt[s]

MadeInv ==
    /\ \A s \in made : createdAt[s] # 0
    /\ \A s \in Sids : TRUE \in record[s].reads => s \in made
    /\ \A x \in Revokers : reach[x] \subseteq made

RevokerInv(x) ==
    /\ pc[x] = "idle" => reach[x] = {}
    /\ pc[x] \in {"bury", "mark"} => list
    /\ pc[x] = "bury" => \A s \in reach[x] : bound[x] >= Abs(s)
    /\ pc[x] = "mark" => \A s \in reach[x] : bound[x] > createdAt[s]
    /\ list /\ pc[x] \in {"forget", "out", "done"} => \A s \in reach[x] : Covered(s)

GetInv(g) ==
    LET s == asked[g].sid IN
    /\ asked[g].over => s \in Over
    /\ asked[g].gone => list /\ s \in made /\ Covered(s)
    /\ pc[g] = "check" => list /\ s \in made /\ ~asked[g].over /\ at[g] < Abs(s)

KvInv ==
    /\ MadeInv
    /\ \A x \in Revokers : RevokerInv(x)
    /\ \A g \in Gets : GetInv(g)
LEMMA KvInit == Init => KvInv
  <1> SUFFICES ASSUME Init PROVE KvInv
    OBVIOUS
  <1>1. MadeInv
    BY DEF Init, MadeInv, Key
  <1>2. \A x \in Revokers : RevokerInv(x)
    BY DEF Init, RevokerInv, Calls
  <1>3. ASSUME NEW g \in Gets PROVE GetInv(g)
    <2>1. asked[g] \in {[sid |-> s, gone |-> FALSE, over |-> FALSE] : s \in Sids}
      BY Zenon DEF Init
    <2>2. ~asked[g].gone /\ ~asked[g].over
      BY <2>1
    <2>3. pc[g] = "idle"
      BY DEF Init, Calls
    <2> QED  BY <2>2, <2>3 DEF GetInv
  <1> QED  BY <1>1, <1>2, <1>3 DEF KvInv

\* What each kind of step leaves alone.
LEMMA GetLeaves ==
    ASSUME NEW g \in Gets, Get(g)
    PROVE  UNCHANGED <<clock, list, createdAt, made, tombstone, revokedBefore, bound, reach>>
  BY DEF Get, AskGet, FindNothing, FindExpired, FindLive, CheckRevoked, ForgetExpired,
         PutMarker, BeginTouch, rows, sessions, keys, locals, history

LEMMA RevokeLeaves ==
    ASSUME NEW x \in Revokers, Revoke(x)
    PROVE  UNCHANGED <<clock, list, createdAt, made, at, seen, asked>>
  BY DEF Revoke, BeginRevokeAll, MarkUser, BeginRevoke, LookUp, Bury, ForgetRevoked,
         rows, sessions, keys, locals, history

LEMMA StorageLeaves ==
    ASSUME NEW s \in Sids, Storage(s)
    PROVE  UNCHANGED <<clock, list, tombstone, revokedBefore, pc, at, seen, bound, asked, reach>>
  BY DEF Storage, BeginCreate, PutRecord, ExpireRecord, ExpireMarker,
         PropagateRecord, PropagateMarker, rows, sessions, keys, locals, history

LEMMA RevokeRows ==
    ASSUME TypeOK, NEW x \in Revokers, Revoke(x)
    PROVE  /\ \A s \in Sids : tombstone'[s] >= tombstone[s] /\ tombstone'[s] \in Nat
           /\ revokedBefore' >= revokedBefore /\ revokedBefore' \in Nat
  <1> USE DEF TypeOK, Larger, keys, rows, sessions, locals, history
  <1>1. CASE BeginRevokeAll(x)
    BY <1>1 DEF BeginRevokeAll
  <1>2. CASE MarkUser(x)
    BY <1>2 DEF MarkUser
  <1>3. ASSUME NEW s \in Sids, BeginRevoke(x, s) \/ LookUp(x, s) \/ ForgetRevoked(x, s)
        PROVE  UNCHANGED <<tombstone, revokedBefore>>
    BY <1>3 DEF BeginRevoke, LookUp, ForgetRevoked
  <1>4. ASSUME NEW s \in Sids, Bury(x, s)
        PROVE  /\ \A q \in Sids : tombstone'[q] >= tombstone[q] /\ tombstone'[q] \in Nat
               /\ UNCHANGED revokedBefore
    BY <1>4 DEF Bury
  <1> QED  BY <1>1, <1>2, <1>3, <1>4 DEF Revoke

LEMMA CreatedOnce ==
    ASSUME TypeOK, [Next]_vars
    PROVE  /\ list' = list
           /\ made \subseteq made'
           /\ \A s \in Sids : createdAt[s] # 0 => createdAt'[s] = createdAt[s]
           /\ clock' \in Nat /\ clock' >= clock
  <1> USE DEF TypeOK, Times
  <1>1. ASSUME NEW s \in Sids, Storage(s)
        PROVE  /\ list' = list /\ clock' = clock /\ made \subseteq made'
               /\ \A q \in Sids : createdAt[q] # 0 => createdAt'[q] = createdAt[q]
    BY <1>1, StorageLeaves DEF Storage, BeginCreate, PutRecord, ExpireRecord, ExpireMarker,
         PropagateRecord, PropagateMarker, sessions
  <1>2. ASSUME NEW c \in Calls, Throw(c)
        PROVE  UNCHANGED <<list, clock, createdAt, made>>
    BY <1>2 DEF Throw, sessions
  <1>3. CASE Cleanup
    BY <1>3 DEF Cleanup, sessions
  <1>4. CASE Tick
    BY <1>4 DEF Tick, sessions
  <1>5. CASE UNCHANGED vars
    BY <1>5 DEF vars, sessions
  <1> QED  BY <1>1, <1>2, <1>3, <1>4, <1>5, GetLeaves, RevokeLeaves DEF Next

LEMMA OverStays ==
    ASSUME TypeOK, [Next]_vars, NEW s \in Over
    PROVE  s \in Over'
  <1>1. /\ s \in Sids /\ createdAt[s] # 0 /\ clock >= Abs(s)
        /\ Abs(s) \in Nat /\ clock \in Nat
    BY TtlAssumption DEF Over, Abs, TypeOK, Times
  <1>2. createdAt'[s] = createdAt[s] /\ clock' \in Nat /\ clock' >= clock
    BY <1>1, CreatedOnce
  <1> QED  BY <1>1, <1>2 DEF Over, Abs

\* The list keeps a revocation for as long as the session could be live.
LEMMA CoveredStays ==
    ASSUME TypeOK, MadeInv, [Next]_vars, NEW s \in made, Covered(s)
    PROVE  Covered(s)'
  <1>1. /\ s \in Sids /\ createdAt[s] # 0 /\ createdAt[s] \in Nat
        /\ tombstone[s] \in Nat /\ revokedBefore \in Nat /\ clock \in Nat
    BY DEF TypeOK, MadeInv, Times
  <1>2. createdAt'[s] = createdAt[s] /\ Abs(s)' = Abs(s) /\ Abs(s) \in Nat
    BY <1>1, CreatedOnce, TtlAssumption DEF Abs, Times
  <1>3. CASE s \in Over
    BY <1>3, OverStays DEF Covered
  <1>4. CASE s \notin Over
    <2>1. CASE \/ tombstone'[s] >= tombstone[s] /\ revokedBefore' >= revokedBefore
                  /\ tombstone'[s] \in Nat /\ revokedBefore' \in Nat
      BY <1>1, <1>2, <1>4, <2>1 DEF Covered
    <2>2. CASE Cleanup
      <3>1. PICK cutoff \in 1..clock :
                /\ tombstone' = [q \in Sids |->
                       IF tombstone[q] <= cutoff THEN 0 ELSE tombstone[q]]
                /\ revokedBefore' =
                       IF revokedBefore <= cutoff - MaxSessionLifetime THEN 0 ELSE revokedBefore
        BY <2>2 DEF Cleanup
      <3>2. clock < Abs(s)
        BY <1>1, <1>2, <1>4 DEF Over
      <3>3. CASE tombstone[s] >= Abs(s)
        BY <1>1, <1>2, <3>1, <3>2, <3>3 DEF Covered
      <3>4. CASE revokedBefore > createdAt[s]
        <4>1. Abs(s) = createdAt[s] + AbsoluteTtl /\ AbsoluteTtl <= MaxSessionLifetime
              /\ AbsoluteTtl \in Nat /\ MaxSessionLifetime \in Nat
          BY TtlAssumption DEF Abs, Times
        <4>2. ~(revokedBefore <= cutoff - MaxSessionLifetime)
          BY <1>1, <3>1, <3>2, <3>4, <4>1
        <4>3. revokedBefore' > createdAt'[s]
          BY <1>2, <3>1, <3>4, <4>2
        <4> QED  BY <4>3 DEF Covered
      <3> QED  BY <1>4, <3>3, <3>4 DEF Covered
    <2>3. ASSUME UNCHANGED <<tombstone, revokedBefore>> PROVE Covered(s)'
      BY <1>1, <2>1, <2>3
    <2>4. ASSUME NEW c \in Calls, Throw(c) PROVE Covered(s)'
      BY <2>3, <2>4 DEF Throw, rows
    <2>5. CASE Tick
      BY <2>3, <2>5 DEF Tick, rows
    <2>6. CASE UNCHANGED vars
      BY <2>3, <2>6 DEF vars, rows
    <2>7. ASSUME NEW x \in Revokers, Revoke(x) PROVE Covered(s)'
      BY <1>1, <2>1, <2>7, RevokeRows
    <2>8. ASSUME NEW g \in Gets, Get(g) PROVE Covered(s)'
      BY <2>3, <2>8, GetLeaves
    <2>9. ASSUME NEW q \in Sids, Storage(q) PROVE Covered(s)'
      BY <2>3, <2>9, StorageLeaves
    <2> QED  BY <2>2, <2>4, <2>5, <2>6, <2>7, <2>8, <2>9 DEF Next
  <1> QED  BY <1>3, <1>4
\* Only create's put makes a record readable.
LEMMA RecordReads ==
    ASSUME TypeOK, [Next]_vars, NEW q \in Sids, TRUE \in record'[q].reads
    PROVE  TRUE \in record[q].reads \/ (q \notin made /\ q \in made')
  <1> USE DEF keys, sessions
  <1>1. record \in [Sids -> KeyOf(BOOLEAN)]
    BY DEF TypeOK
  <1>2. ASSUME NEW s \in Sids, Forget(s) PROVE TRUE \in record[q].reads
    <2>1. record' = [record EXCEPT ![s] = Written(@, FALSE)]
      BY <1>2 DEF Forget
    <2> QED  BY <1>1, <2>1 DEF Written
  <1>3. CASE UNCHANGED record
    BY <1>3
  <1>4. ASSUME NEW g \in Gets, Get(g) PROVE TRUE \in record[q].reads
    <2>1. asked[g].sid \in Sids
      BY DEF TypeOK
    <2>2. UNCHANGED record \/ Forget(asked[g].sid)
      BY <1>4 DEF Get, AskGet, FindNothing, FindExpired, FindLive, CheckRevoked,
                  ForgetExpired, PutMarker, BeginTouch
    <2> QED  BY <1>2, <1>3, <2>1, <2>2
  <1>5. ASSUME NEW x \in Revokers, Revoke(x) PROVE TRUE \in record[q].reads
    <2>1. UNCHANGED record \/ \E s \in Sids : Forget(s)
      BY <1>5 DEF Revoke, BeginRevokeAll, MarkUser, BeginRevoke, LookUp, Bury, ForgetRevoked
    <2> QED  BY <1>2, <1>3, <2>1
  <1>6. ASSUME NEW s \in Sids, Storage(s) PROVE TRUE \in record[q].reads \/ (q \notin made /\ q \in made')
    <2>1. CASE BeginCreate(s) \/ ExpireMarker(s) \/ PropagateMarker(s)
      BY <2>1 DEF BeginCreate, ExpireMarker, PropagateMarker
    <2>2. CASE PutRecord(s)
      BY <1>1, <2>2 DEF PutRecord
    <2>3. CASE ExpireRecord(s)
      BY <1>1, <2>3 DEF ExpireRecord, Written
    <2>4. CASE PropagateRecord(s)
      <3>1. record[s].now \in record[s].reads
        BY <1>1 DEF KeyOf
      <3> QED  BY <1>1, <2>4, <3>1 DEF PropagateRecord, Key
    <2> QED  BY <1>6, <2>1, <2>2, <2>3, <2>4 DEF Storage
  <1>7. ASSUME NEW c \in Calls, Throw(c) PROVE TRUE \in record[q].reads
    BY <1>7 DEF Throw
  <1>8. CASE Cleanup \/ Tick \/ UNCHANGED vars
    BY <1>8 DEF Cleanup, Tick, vars
  <1> QED  BY <1>4, <1>5, <1>6, <1>7, <1>8 DEF Next

LEMMA MadeStep ==
    ASSUME TypeOK, MadeInv, [Next]_vars
    PROVE  MadeInv'
  <1>1. \A s \in made' : createdAt'[s] # 0
    <2>1. \A s \in made' : s \in made \/ (s \in Sids /\ createdAt[s] # 0)
      <3>1. ASSUME NEW s \in Sids, Storage(s)
            PROVE  made' = made \/ (createdAt[s] # 0 /\ made' = made \cup {s})
        BY <3>1 DEF Storage, BeginCreate, PutRecord, ExpireRecord, ExpireMarker,
                    PropagateRecord, PropagateMarker, sessions
      <3>2. ASSUME NEW c \in Calls, Throw(c) PROVE made' = made
        BY <3>2 DEF Throw, sessions
      <3>3. CASE Cleanup \/ Tick \/ UNCHANGED vars
        BY <3>3 DEF Cleanup, Tick, vars, sessions
      <3> QED  BY <3>1, <3>2, <3>3, GetLeaves, RevokeLeaves DEF Next
    <2> QED  BY <2>1, CreatedOnce DEF MadeInv, TypeOK
  <1>2. \A s \in Sids : TRUE \in record'[s].reads => s \in made'
    BY RecordReads, CreatedOnce DEF MadeInv
  <1>3. \A x \in Revokers : reach'[x] \subseteq made'
    <2>1. reach \in [Revokers -> SUBSET Sids]
      BY DEF TypeOK
    <2>2. ASSUME NEW y \in Revokers, Revoke(y)
          PROVE  \A x \in Revokers : reach'[x] \subseteq made
      <3>1. CASE BeginRevokeAll(y)
        BY <2>1, <3>1 DEF BeginRevokeAll, MadeInv
      <3>2. CASE MarkUser(y)
        BY <3>2 DEF MarkUser, MadeInv, history
      <3>3. ASSUME NEW s \in Sids, BeginRevoke(y, s)
            PROVE  \A x \in Revokers : reach'[x] \subseteq made
        BY <2>1, <3>3 DEF BeginRevoke, MadeInv
      <3>4. ASSUME NEW s \in Sids, LookUp(y, s) \/ Bury(y, s) \/ ForgetRevoked(y, s)
            PROVE  \A x \in Revokers : reach'[x] \subseteq made
        BY <3>4 DEF LookUp, Bury, ForgetRevoked, MadeInv, history
      <3> QED  BY <2>2, <3>1, <3>2, <3>3, <3>4 DEF Revoke
    <2>3. CASE UNCHANGED reach
      BY <2>3, CreatedOnce DEF MadeInv
    <2>4. ASSUME NEW c \in Calls, Throw(c) PROVE UNCHANGED reach
      BY <2>4 DEF Throw, history
    <2>5. CASE Cleanup \/ Tick \/ UNCHANGED vars
      BY <2>3, <2>5 DEF Cleanup, Tick, vars, history
    <2> QED
      BY <2>2, <2>3, <2>4, <2>5, GetLeaves, StorageLeaves, CreatedOnce DEF Next
  <1> QED  BY <1>1, <1>2, <1>3 DEF MadeInv
LEMMA RevokerKept ==
    ASSUME TypeOK, MadeInv, [Next]_vars, NEW x \in Revokers, RevokerInv(x),
           pc'[x] \in {pc[x], "null"}, reach'[x] = reach[x], bound'[x] = bound[x]
    PROVE  RevokerInv(x)'
  <1>1. reach[x] \subseteq made /\ \A s \in made : s \in Sids /\ createdAt[s] # 0
    BY DEF MadeInv, TypeOK
  <1>2. \A s \in reach[x] : createdAt'[s] = createdAt[s] /\ Abs(s)' = Abs(s)
    BY <1>1, CreatedOnce DEF Abs
  <1>3. \A s \in reach[x] : Covered(s) => Covered(s)'
    BY <1>1, CoveredStays
  <1>4. list' = list
    BY CreatedOnce
  <1>5. CASE pc'[x] = "null"
    BY <1>5 DEF RevokerInv
  <1>6. CASE pc'[x] = pc[x]
    BY <1>2, <1>3, <1>4, <1>6 DEF RevokerInv
  <1> QED  BY <1>5, <1>6

LEMMA RevokerMoves ==
    ASSUME TypeOK, MadeInv, NEW x \in Revokers, RevokerInv(x), Revoke(x)
    PROVE  RevokerInv(x)'
  <1>1. /\ pc \in [Calls -> PcOfGet \cup PcOfRevoker] /\ x \in Calls
        /\ bound \in [Revokers -> Nat] /\ reach \in [Revokers -> SUBSET Sids]
        /\ made \subseteq Sids /\ list \in BOOLEAN
        /\ tombstone \in [Sids -> Nat] /\ revokedBefore \in Nat
        /\ clock \in Nat /\ createdAt \in [Sids -> 0..clock]
    BY DEF TypeOK, Calls, Times
  <1>2. \A s \in Sids : Abs(s) \in Nat /\ Abs(s) <= clock + TombstoneFallback
    BY <1>1, TtlAssumption DEF Abs, Times
  <1>3. UNCHANGED <<clock, list, createdAt, made>> /\ \A s \in Sids : Abs(s)' = Abs(s)
    BY RevokeLeaves DEF Abs
  <1> USE DEF keys, rows, sessions, locals, history, Goto
  <1>4. CASE BeginRevokeAll(x)
    <2>1. /\ pc'[x] = IF list THEN "mark" ELSE "done"
          /\ bound'[x] = clock + 1 /\ reach'[x] = made
      BY <1>1, <1>4 DEF BeginRevokeAll, Cutoff
    <2>2. \A s \in made : bound'[x] > createdAt[s]
      BY <1>1, <2>1
    <2> QED  BY <1>1, <1>3, <2>1, <2>2 DEF RevokerInv
  <1>5. CASE MarkUser(x)
    <2>1. /\ pc[x] = "mark" /\ pc'[x] = "done" /\ reach' = reach
          /\ revokedBefore' = Larger(revokedBefore, bound[x])
      BY <1>1, <1>5 DEF MarkUser
    <2>2. \A s \in reach[x] : revokedBefore' > createdAt[s]
      BY <1>1, <2>1 DEF RevokerInv, Larger
    <2>3. \A s \in reach[x] : Covered(s)'
      BY <1>3, <2>2 DEF Covered
    <2> QED  BY <2>1, <2>3 DEF RevokerInv
  <1>6. ASSUME NEW s \in Sids, BeginRevoke(x, s) PROVE RevokerInv(x)'
    BY <1>1, <1>6 DEF BeginRevoke, RevokerInv
  <1>7. ASSUME NEW s \in Sids, LookUp(x, s) PROVE RevokerInv(x)'
    <2>1. /\ pc[x] = "look" /\ pc'[x] = IF list THEN "bury" ELSE "forget"
          /\ reach' = reach /\ reach[x] = {s}
          /\ bound'[x] = Abs(s) \/ bound'[x] = clock + TombstoneFallback
      BY <1>1, <1>7 DEF LookUp
    <2>2. bound'[x] >= Abs(s)
      BY <1>2, <2>1
    <2> QED  BY <1>3, <2>1, <2>2 DEF RevokerInv
  <1>8. ASSUME NEW s \in Sids, Bury(x, s) PROVE RevokerInv(x)'
    <2>1. /\ pc[x] = "bury" /\ pc'[x] = "forget" /\ reach' = reach /\ reach[x] = {s}
          /\ tombstone'[s] = Larger(tombstone[s], bound[x])
      BY <1>1, <1>8 DEF Bury
    <2>2. tombstone'[s] >= Abs(s)
      BY <1>1, <1>2, <2>1 DEF RevokerInv, Larger
    <2>3. Covered(s)'
      BY <1>3, <2>2 DEF Covered
    <2> QED  BY <2>1, <2>3 DEF RevokerInv
  <1>9. ASSUME NEW s \in Sids, ForgetRevoked(x, s) PROVE RevokerInv(x)'
    <2>1. pc[x] = "forget" /\ pc'[x] = "out"
      BY <1>1, <1>9 DEF ForgetRevoked
    <2>2. UNCHANGED <<reach, tombstone, revokedBefore>>
      BY <1>9 DEF ForgetRevoked
    <2>3. \A q \in Sids : Covered(q) => Covered(q)'
      BY <1>3, <2>2 DEF Covered, Over
    <2> QED  BY <1>1, <1>3, <2>1, <2>2, <2>3 DEF RevokerInv
  <1> QED  BY <1>4, <1>5, <1>6, <1>7, <1>8, <1>9 DEF Revoke

LEMMA RevokerStep ==
    ASSUME TypeOK, MadeInv, [Next]_vars, NEW x \in Revokers, RevokerInv(x)
    PROVE  RevokerInv(x)'
  <1>1. /\ pc \in [Calls -> PcOfGet \cup PcOfRevoker] /\ x \in Calls /\ x \notin Gets
        /\ bound \in [Revokers -> Nat] /\ reach \in [Revokers -> SUBSET Sids]
    BY SetsAssumption DEF TypeOK, Calls
  <1> DEFINE Kept == pc'[x] \in {pc[x], "null"} /\ reach'[x] = reach[x] /\ bound'[x] = bound[x]
  <1>2. SUFFICES Kept \/ Revoke(x)
    BY RevokerKept, RevokerMoves
  <1>3. ASSUME NEW g \in Gets, Get(g) PROVE Kept
    <2>1. pc'[x] = pc[x]
      BY <1>1, <1>3 DEF Get, AskGet, FindNothing, FindExpired, FindLive, CheckRevoked,
                        ForgetExpired, PutMarker, BeginTouch, Goto
    <2> QED  BY <1>3, <2>1, GetLeaves
  <1>4. ASSUME NEW y \in Revokers, Revoke(y), y # x PROVE Kept
    BY <1>1, <1>4 DEF Revoke, BeginRevokeAll, MarkUser, BeginRevoke, LookUp, Bury,
                      ForgetRevoked, Goto, locals, history
  <1>5. ASSUME NEW s \in Sids, Storage(s) PROVE Kept
    BY <1>5, StorageLeaves
  <1>6. ASSUME NEW c \in Calls, Throw(c) PROVE Kept
    <2>1. pc[x] # "touch"
      BY DEF TypeOK, PcOfRevoker
    <2> QED  BY <1>1, <1>6, <2>1 DEF Throw, locals, history
  <1>7. CASE Cleanup \/ Tick \/ UNCHANGED vars
    BY <1>7 DEF Cleanup, Tick, vars, locals, history
  <1> QED  BY <1>3, <1>4, <1>5, <1>6, <1>7 DEF Next
LEMMA GetKept ==
    ASSUME TypeOK, MadeInv, [Next]_vars, NEW g \in Gets, GetInv(g),
           asked'[g] = asked[g], pc'[g] # "check" \/ (pc'[g] = pc[g] /\ at'[g] = at[g])
    PROVE  GetInv(g)'
  <1>1. asked[g].sid \in Sids /\ made \subseteq Sids
    BY DEF TypeOK
  <1>2. \A s \in made : Abs(s)' = Abs(s)
    BY <1>1, CreatedOnce DEF Abs, MadeInv
  <1>3. list' = list /\ made \subseteq made'
    BY CreatedOnce
  <1>4. asked[g].over => asked[g].sid \in Over'
    BY OverStays DEF GetInv
  <1>5. asked[g].gone => list /\ asked[g].sid \in made /\ Covered(asked[g].sid)'
    BY CoveredStays DEF GetInv
  <1> QED  BY <1>2, <1>3, <1>4, <1>5 DEF GetInv

\* What is gone is covered by the list.
LEMMA GoneCovered ==
    ASSUME TypeOK, KvInv, NEW s \in Gone
    PROVE  list /\ s \in made /\ Covered(s)
  <1>1. list
    BY DEF Gone
  <1>2. PICK x \in Returned : s \in reach[x]
    BY <1>1 DEF Gone
  <1> QED  BY <1>1, <1>2 DEF KvInv, MadeInv, RevokerInv, Returned
LEMMA GetStep ==
    ASSUME TypeOK, KvInv, [Next]_vars, NEW g \in Gets
    PROVE  GetInv(g)'
  <1>1. /\ pc \in [Calls -> PcOfGet \cup PcOfRevoker] /\ g \in Calls /\ g \notin Revokers
        /\ at \in [Gets -> 0..clock] /\ asked \in [Gets -> [sid : Sids, gone : BOOLEAN, over : BOOLEAN]]
        /\ MadeInv /\ GetInv(g)
    BY SetsAssumption DEF TypeOK, Calls, KvInv
  <1> DEFINE s == asked[g].sid
             Kept == /\ asked'[g] = asked[g]
                     /\ pc'[g] # "check" \/ (pc'[g] = pc[g] /\ at'[g] = at[g])
  <1>2. ASSUME Kept PROVE GetInv(g)'
    BY <1>1, <1>2, GetKept
  <1>3. CASE AskGet(g)
    <2>1. /\ asked'[g].sid = s /\ asked'[g].gone = (s \in Gone) /\ asked'[g].over = (s \in Over)
          /\ pc'[g] = "asked"
      BY <1>1, <1>3 DEF AskGet, Goto
    <2>2. s \in Over => s \in Over'
      BY OverStays
    <2>3. ASSUME s \in Gone PROVE list' /\ s \in made' /\ Covered(s)'
      <3>1. list /\ s \in made /\ Covered(s)
        BY <2>3, GoneCovered, Zenon
      <3>2. PICK q \in made : q = s
        BY <3>1
      <3>3. Covered(q)'
        BY <1>1, <3>1, <3>2, CoveredStays
      <3>4. Covered(s)'
        BY <2>1, <3>2, <3>3
      <3>5. list' = list /\ made \subseteq made'
        BY CreatedOnce, Zenon
      <3> QED  BY <3>1, <3>4, <3>5, Zenon
    <2> QED  BY <2>1, <2>2, <2>3 DEF GetInv
  <1>4. CASE FindLive(g)
    <2>1. /\ TRUE \in record[s].reads /\ clock < Abs(s) /\ at'[g] = clock
          /\ UNCHANGED <<clock, list, createdAt, made, asked, tombstone, revokedBefore>>
          /\ pc'[g] = IF list THEN "check" ELSE "session"
      <3>1. \E m \in marker[s].reads : ~Expired(s, m)
        BY <1>4 DEF FindLive
      <3>2. clock < Abs(s)
        <4>1. Abs(s) \in Nat /\ clock \in Nat
          BY <1>1, TtlAssumption DEF Abs, Times, TypeOK
        <4> QED  BY <3>1, <4>1 DEF Expired
      <3> QED  BY <1>1, <1>4, <3>2 DEF FindLive, Goto, sessions, rows, history
    <2>2. s \in made
      BY <1>1, <2>1 DEF MadeInv
    <2>3. ~asked[g].over
      <3>1. Abs(s) \in Nat /\ clock \in Nat
        BY <1>1, TtlAssumption DEF Abs, Times, TypeOK
      <3> QED  BY <1>1, <2>1, <3>1 DEF GetInv, Over
    <2>4. asked[g].gone => list /\ s \in made /\ Covered(s)'
      BY <1>1, <2>1 DEF GetInv, Covered, Over, Abs
    <2>5. Abs(s)' = Abs(s)
      BY <2>1 DEF Abs
    <2>6. list \in BOOLEAN
      BY DEF TypeOK
    <2> QED  BY <2>1, <2>2, <2>3, <2>4, <2>5, <2>6 DEF GetInv
  <1>5. CASE \/ FindNothing(g) \/ FindExpired(g) \/ CheckRevoked(g) \/ ForgetExpired(g)
             \/ PutMarker(g)
    <2>1. Kept
      BY <1>1, <1>5 DEF FindNothing, FindExpired, CheckRevoked, ForgetExpired, PutMarker,
                        Goto, history
    <2> QED  BY <1>2, <2>1
  <1>6. ASSUME NEW i \in Isolates, BeginTouch(g, i) PROVE GetInv(g)'
    <2>1. Kept
      BY <1>1, <1>6 DEF BeginTouch, Goto, history
    <2> QED  BY <1>2, <2>1
  <1>7. ASSUME NEW h \in Gets, Get(h), h # g PROVE GetInv(g)'
    <2>1. Kept
      BY <1>1, <1>7 DEF Get, AskGet, FindNothing, FindExpired, FindLive, CheckRevoked,
                        ForgetExpired, PutMarker, BeginTouch, Goto, locals, history
    <2> QED  BY <1>2, <2>1
  <1>8. ASSUME NEW y \in Revokers, Revoke(y) PROVE GetInv(g)'
    <2>1. pc'[g] = pc[g]
      BY <1>1, <1>8 DEF Revoke, BeginRevokeAll, MarkUser, BeginRevoke, LookUp, Bury,
                        ForgetRevoked, Goto
    <2> QED  BY <1>2, <1>8, <2>1, RevokeLeaves
  <1>9. ASSUME NEW q \in Sids, Storage(q) PROVE GetInv(g)'
    BY <1>2, <1>9, StorageLeaves
  <1>10. ASSUME NEW c \in Calls, Throw(c) PROVE GetInv(g)'
    <2>1. Kept
      BY <1>1, <1>10 DEF Throw, locals, history
    <2> QED  BY <1>2, <2>1
  <1>11. CASE Cleanup \/ Tick \/ UNCHANGED vars
    <2>1. Kept
      BY <1>11 DEF Cleanup, Tick, vars, locals, history
    <2> QED  BY <1>2, <2>1
  <1>12. ASSUME Get(g) PROVE GetInv(g)'
    BY <1>3, <1>4, <1>5, <1>6, <1>12, Zenon DEF Get
  <1> QED  BY <1>7, <1>8, <1>9, <1>10, <1>11, <1>12, Zenon DEF Next

LEMMA KvStep == TypeOK /\ KvInv /\ [Next]_vars => KvInv'
  <1> SUFFICES ASSUME TypeOK, KvInv, [Next]_vars PROVE KvInv'
    OBVIOUS
  <1>1. MadeInv'
    BY MadeStep DEF KvInv
  <1>2. \A x \in Revokers : RevokerInv(x)'
    BY RevokerStep DEF KvInv
  <1>3. \A g \in Gets : GetInv(g)'
    BY GetStep
  <1> QED  BY <1>1, <1>2, <1>3 DEF KvInv

LEMMA KvInvariant == Spec => [](TypeOK /\ KvInv)
  BY TypeInit, TypeStep, KvInit, KvStep, PTL DEF Spec

-----------------------------------------------------------------------------
(***************************************************************************)
(* Once the record of a logged-out session reads nowhere, no call in       *)
(* flight, and in particular no late touch, makes it readable again.       *)
(***************************************************************************)
THEOREM RecordsStayDeleted == Spec => NoResurrection
  <1> DEFINE Stays == \A s \in LoggedOut : record[s].reads = {FALSE} => record'[s].reads = {FALSE}
  <1>1. ASSUME TypeOK, KvInv, [Next]_vars PROVE [Stays]_vars
    <2> SUFFICES ASSUME NEW s \in LoggedOut, record[s].reads = {FALSE}
                 PROVE  record'[s].reads = {FALSE}
      OBVIOUS
    <2>1. s \in Sids /\ s \in made
      BY <1>1 DEF LoggedOut, KvInv, MadeInv
    <2>2. TRUE \notin record'[s].reads
      <3>1. CASE UNCHANGED record
        BY <3>1
      <3>2. ASSUME TRUE \in record'[s].reads PROVE FALSE
        BY <1>1, <2>1, <3>2, RecordReads
      <3> QED  BY <3>2
    <2>3. record'[s].reads \subseteq BOOLEAN /\ record'[s].reads # {}
      BY <1>1, <2>1, TypeStep DEF TypeOK, KeyOf
    <2> QED  BY <2>2, <2>3
  <1> QED  BY <1>1, KvInvariant, PTL DEF Spec, NoResurrection
-----------------------------------------------------------------------------
(* The refinement.                                                          *)

covers == IF list THEN reach ELSE [x \in Revokers |-> {}]
state == [g \in Gets |-> State(g)]

LEMMA PromiseStutters ==
    ASSUME UNCHANGED <<made, Over, Gone, covers, state, asked, Returned>>
    PROVE  UNCHANGED Promise!vars
  BY DEF Promise!vars, covers, state

LEMMA PromiseInit == Init => Promise!Init
  <1> SUFFICES ASSUME Init PROVE Promise!Init
    OBVIOUS
  <1>1. made = {} /\ Over = {}
    BY DEF Init, Over
  <1>2. Returned = {} /\ Gone = {}
    BY DEF Init, Returned, Gone, Calls
  <1>3. (IF list THEN reach ELSE [x \in Revokers |-> {}]) = [x \in Revokers |-> {}]
    BY DEF Init
  <1>4. [g \in Gets |-> State(g)] = [g \in Gets |-> "idle"]
    BY DEF Init, State, Calls
  <1>5. asked \in [Gets -> {[sid |-> s, gone |-> FALSE, over |-> FALSE] : s \in Sids}]
    BY DEF Init
  <1> QED  BY <1>1, <1>2, <1>3, <1>4, <1>5, Zenon DEF Promise!Init

\* A get's step changes nothing the revocations are judged by.
LEMMA GetFrame ==
    ASSUME TypeOK, NEW g \in Gets, Get(g)
    PROVE  /\ UNCHANGED <<made, Over, Gone, covers, Returned>>
           /\ state' = [state EXCEPT ![g] = State(g)']
  <1>1. /\ pc \in [Calls -> PcOfGet \cup PcOfRevoker] /\ g \in Calls /\ g \notin Revokers
        /\ Revokers \subseteq Calls /\ Gets \subseteq Calls
    BY SetsAssumption DEF TypeOK, Calls
  <1>2. \A c \in Calls : c # g => pc'[c] = pc[c]
    BY <1>1 DEF Get, AskGet, FindNothing, FindExpired, FindLive, CheckRevoked,
                ForgetExpired, PutMarker, BeginTouch, Goto
  <1>3. UNCHANGED <<clock, list, createdAt, made, reach>>
    BY GetLeaves
  <1>4. UNCHANGED Returned
    BY <1>1, <1>2 DEF Returned
  <1>5. UNCHANGED <<Over, covers>>
    BY <1>3 DEF Over, Abs, covers
  <1>6. UNCHANGED Gone
    BY <1>3, <1>4 DEF Gone
  <1>7. \A h \in Gets : h # g => State(h)' = State(h)
    BY <1>1, <1>2 DEF State
  <1> QED  BY <1>3, <1>4, <1>5, <1>6, <1>7 DEF state

LEMMA GetImplements ==
    ASSUME TypeOK, KvInv, NEW g \in Gets, Get(g)
    PROVE  [Promise!Next]_(Promise!vars)
  <1> DEFINE s == asked[g].sid
  <1>1. /\ UNCHANGED <<made, Over, Gone, covers, Returned>>
        /\ state' = [state EXCEPT ![g] = State(g)']
        /\ state[g] = State(g)
    BY GetFrame DEF state
  <1>2. /\ pc \in [Calls -> PcOfGet \cup PcOfRevoker] /\ g \in Calls
        /\ MadeInv /\ GetInv(g)
    BY DEF TypeOK, Calls, KvInv
  <1>3. ASSUME UNCHANGED asked, State(g)' = State(g) PROVE UNCHANGED Promise!vars
    <2>1. UNCHANGED state
      BY <1>1, <1>3 DEF state
    <2> QED  BY <1>1, <1>3, <2>1, PromiseStutters
  <1>4. ASSUME UNCHANGED asked, State(g) = "asked", State(g)' = "null" PROVE Promise!Next
    <2>1. Promise!Refuse(g)
      BY <1>1, <1>4 DEF Promise!Refuse, covers, state
    <2> QED  BY <2>1 DEF Promise!Next
  <1>5. ASSUME UNCHANGED asked, State(g) = "asked", State(g)' = "session",
               ~asked[g].over, asked[g].gone => s \in Over
        PROVE  Promise!Next
    <2>1. Promise!Answer(g)
      BY <1>1, <1>5 DEF Promise!Answer, covers, state
    <2> QED  BY <2>1 DEF Promise!Next
  <1>6. CASE AskGet(g)
    <2>1. /\ State(g) = "idle" /\ State(g)' = "asked"
          /\ asked' = [asked EXCEPT ![g].gone = s \in Gone, ![g].over = s \in Over]
      BY <1>2, <1>6 DEF AskGet, Goto, State
    <2>2. Promise!Ask(g)
      BY <1>1, <2>1 DEF Promise!Ask, covers, state
    <2> QED  BY <2>2 DEF Promise!Next
  <1>7. CASE FindNothing(g)
    <2>1. State(g) = "asked" /\ State(g)' = "null" /\ UNCHANGED asked
      BY <1>2, <1>7 DEF FindNothing, Goto, State, history
    <2> QED  BY <1>4, <2>1
  <1>8. CASE FindExpired(g)
    <2>1. State(g) = "asked" /\ State(g)' = "null" /\ UNCHANGED asked
      BY <1>2, <1>8 DEF FindExpired, Goto, State, history
    <2> QED  BY <1>4, <2>1
  <1>9. CASE FindLive(g)
    <2>1. /\ pc[g] = "asked" /\ UNCHANGED asked
          /\ pc'[g] = IF list THEN "check" ELSE "session"
      BY <1>2, <1>9 DEF FindLive, Goto, history
    <2>2. CASE list
      <3>1. State(g)' = State(g)
        BY <2>1, <2>2 DEF State
      <3> QED  BY <1>3, <2>1, <3>1
    <2>3. CASE ~list
      <3>1. State(g) = "asked" /\ State(g)' = "session"
        BY <2>1, <2>3 DEF State
      <3>2. ~asked[g].gone
        BY <1>2, <2>3 DEF GetInv
      <3>3. clock < Abs(s)
        <4>1. Abs(s) \in Nat /\ clock \in Nat
          BY TtlAssumption DEF Abs, Times, TypeOK
        <4>2. \E m \in marker[s].reads : ~Expired(s, m)
          BY <1>9 DEF FindLive
        <4> QED  BY <4>1, <4>2 DEF Expired
      <3>4. ~asked[g].over
        <4>1. Abs(s) \in Nat /\ clock \in Nat
          BY TtlAssumption DEF Abs, Times, TypeOK
        <4> QED  BY <1>2, <3>3, <4>1 DEF GetInv, Over
      <3> QED  BY <1>5, <2>1, <3>1, <3>2, <3>4
    <2> QED  BY <2>2, <2>3
  <1>10. CASE CheckRevoked(g)
    <2>1. /\ pc[g] = "check" /\ UNCHANGED asked
          /\ pc'[g] = IF IsRevoked(s, at[g]) THEN "null" ELSE "session"
      BY <1>2, <1>10 DEF CheckRevoked, Goto, history
    <2>2. CASE IsRevoked(s, at[g])
      <3>1. State(g) = "asked" /\ State(g)' = "null"
        BY <2>1, <2>2 DEF State
      <3> QED  BY <1>4, <2>1, <3>1
    <2>3. CASE ~IsRevoked(s, at[g])
      <3>1. State(g) = "asked" /\ State(g)' = "session"
        BY <2>1, <2>3 DEF State
      <3>2. ~asked[g].over /\ at[g] < Abs(s)
        BY <1>2, <2>1 DEF GetInv
      <3>3. ASSUME asked[g].gone PROVE s \in Over
        <4>1. Covered(s)
          BY <1>2, <3>3 DEF GetInv
        <4>2. /\ tombstone[s] \in Nat /\ at[g] \in Nat /\ Abs(s) \in Nat
              /\ ~(tombstone[s] > at[g]) /\ ~(revokedBefore > createdAt[s])
          BY <2>3, TtlAssumption DEF IsRevoked, TypeOK, Abs, Times
        <4> QED  BY <3>2, <4>1, <4>2 DEF Covered
      <3> QED  BY <1>5, <2>1, <3>1, <3>2, <3>3
    <2> QED  BY <2>2, <2>3
  <1>11. CASE ForgetExpired(g)
    <2>1. State(g)' = State(g) /\ UNCHANGED asked
      BY <1>2, <1>11 DEF ForgetExpired, Goto, State, history
    <2> QED  BY <1>3, <2>1
  <1>12. CASE PutMarker(g)
    <2>1. State(g)' = State(g) /\ UNCHANGED asked
      BY <1>2, <1>12 DEF PutMarker, Goto, State, history
    <2> QED  BY <1>3, <2>1
  <1>13. ASSUME NEW i \in Isolates, BeginTouch(g, i) PROVE UNCHANGED Promise!vars
    <2>1. State(g)' = State(g) /\ UNCHANGED asked
      BY <1>2, <1>13 DEF BeginTouch, Goto, State, history
    <2> QED  BY <1>3, <2>1
  <1> QED
    BY <1>6, <1>7, <1>8, <1>9, <1>10, <1>11, <1>12, <1>13, Zenon DEF Get
\* What a revocation's step leaves alone; it may return.
LEMMA RevokeFrame ==
    ASSUME TypeOK, NEW x \in Revokers, Revoke(x)
    PROVE  /\ UNCHANGED <<made, Over, state, asked, list>>
           /\ pc'[x] \notin {"out", "done"} => Returned' = Returned \ {x}
           /\ pc'[x] \in {"out", "done"} => Returned' = Returned \cup {x}
  <1>1. /\ pc \in [Calls -> PcOfGet \cup PcOfRevoker] /\ x \in Calls /\ x \notin Gets
        /\ Revokers \subseteq Calls /\ Gets \subseteq Calls
    BY SetsAssumption DEF TypeOK, Calls
  <1>2. \A c \in Calls : c # x => pc'[c] = pc[c]
    BY <1>1 DEF Revoke, BeginRevokeAll, MarkUser, BeginRevoke, LookUp, Bury,
                ForgetRevoked, Goto
  <1>3. UNCHANGED <<clock, list, createdAt, made, asked>>
    BY RevokeLeaves
  <1>4. UNCHANGED Over
    BY <1>3 DEF Over, Abs
  <1>5. \A g \in Gets : State(g)' = State(g)
    BY <1>1, <1>2 DEF State
  <1> QED  BY <1>1, <1>2, <1>3, <1>4, <1>5 DEF state, Returned

LEMMA RevokeImplements ==
    ASSUME TypeOK, KvInv, NEW x \in Revokers, Revoke(x)
    PROVE  [Promise!Next]_(Promise!vars)
  <1>1. /\ pc \in [Calls -> PcOfGet \cup PcOfRevoker] /\ x \in Calls
        /\ reach \in [Revokers -> SUBSET Sids] /\ list \in BOOLEAN
        /\ RevokerInv(x)
    BY DEF TypeOK, Calls, KvInv
  <1>2. /\ UNCHANGED <<made, Over, state, asked, list>>
        /\ pc'[x] \notin {"out", "done"} => Returned' = Returned \ {x}
        /\ pc'[x] \in {"out", "done"} => Returned' = Returned \cup {x}
    BY RevokeFrame
  <1>3. pc[x] \notin {"out", "done"} => x \notin Returned
    BY DEF Returned
  \* Three kinds of step: under way, beginning, returning.
  <1>4. ASSUME pc[x] \notin {"out", "done"}, pc'[x] \notin {"out", "done"}, UNCHANGED reach
        PROVE  UNCHANGED Promise!vars
    <2>1. UNCHANGED Returned
      BY <1>2, <1>3, <1>4
    <2>2. UNCHANGED <<Gone, covers>>
      BY <1>2, <1>4, <2>1 DEF Gone, covers
    <2> QED  BY <1>2, <2>1, <2>2, PromiseStutters
  <1>5. ASSUME NEW S \in {made} \cup {{s} : s \in made},
               pc[x] = "idle", pc'[x] \notin {"out", "done"},
               reach' = [reach EXCEPT ![x] = S], list
        PROVE  Promise!Next
    <2>1. UNCHANGED Returned /\ x \notin Returned
      BY <1>2, <1>3, <1>5
    <2>2. covers = reach /\ covers' = reach' /\ covers[x] = {}
      BY <1>1, <1>2, <1>5 DEF covers, RevokerInv
    <2>3. UNCHANGED Gone
      <3>1. \A y \in Returned : reach'[y] = reach[y]
        BY <1>1, <1>5, <2>1 DEF Returned
      <3>2. {reach'[y] : y \in Returned} = {reach[y] : y \in Returned}
        BY <3>1, Zenon
      <3> QED  BY <1>2, <2>1, <3>2 DEF Gone
    <2>4. Promise!BeginRevoke(x)
      <3>1. \E T \in {made} \cup {{s} : s \in made} : covers' = [covers EXCEPT ![x] = T]
        BY <1>5, <2>2
      <3> QED  BY <1>2, <2>1, <2>2, <2>3, <3>1 DEF Promise!BeginRevoke, covers, state
    <2> QED  BY <2>4 DEF Promise!Next
  <1>6. ASSUME pc[x] \notin {"out", "done"}, pc'[x] \in {"out", "done"},
               list => UNCHANGED reach
        PROVE  Promise!Next
    <2>1. Returned' = Returned \cup {x} /\ x \notin Returned
      BY <1>2, <1>3, <1>6
    <2>2. UNCHANGED covers
      BY <1>2, <1>6 DEF covers
    <2>3. Gone' = Gone \cup covers[x]
      <3>1. CASE list
        <4>1. Gone' = UNION {reach[y] : y \in Returned \cup {x}}
          BY <1>2, <1>6, <2>1, <3>1 DEF Gone
        <4>2. Gone = UNION {reach[y] : y \in Returned} /\ covers = reach
          BY <3>1 DEF Gone, covers
        <4> QED  BY <4>1, <4>2
      <3>2. CASE ~list
        BY <1>2, <3>2 DEF Gone, covers
      <3> QED  BY <3>1, <3>2
    <2>4. Promise!ReturnRevoke(x)
      BY <1>2, <2>1, <2>2, <2>3 DEF Promise!ReturnRevoke, covers, state
    <2> QED  BY <2>4 DEF Promise!Next
  <1>7. CASE BeginRevokeAll(x)
    <2>1. /\ pc[x] = "idle" /\ pc'[x] = IF list THEN "mark" ELSE "done"
          /\ reach' = [reach EXCEPT ![x] = made]
      BY <1>1, <1>7 DEF BeginRevokeAll, Goto
    <2>2. CASE list
      BY <1>5, <2>1, <2>2
    <2>3. CASE ~list
      BY <1>6, <2>1, <2>3
    <2> QED  BY <2>2, <2>3
  <1>8. CASE MarkUser(x)
    <2>1. pc[x] = "mark" /\ pc'[x] = "done" /\ UNCHANGED reach
      BY <1>1, <1>8 DEF MarkUser, Goto, history
    <2> QED  BY <1>6, <2>1
  <1>9. ASSUME NEW s \in Sids, BeginRevoke(x, s) PROVE [Promise!Next]_(Promise!vars)
    <2>1. /\ pc[x] = "idle" /\ pc'[x] = "look" /\ s \in made
          /\ reach' = [reach EXCEPT ![x] = {s}]
      BY <1>1, <1>9 DEF BeginRevoke, Goto
    <2>2. CASE list
      <3>1. {s} \in {made} \cup {{q} : q \in made}
        BY <2>1
      <3> QED  BY <1>5, <2>1, <2>2, <3>1
    <2>3. CASE ~list
      <3>1. UNCHANGED <<Returned, Gone, covers>>
        BY <1>2, <1>3, <2>1, <2>3 DEF Gone, covers
      <3> QED  BY <1>2, <3>1, PromiseStutters
    <2> QED  BY <2>2, <2>3
  <1>10. ASSUME NEW s \in Sids, LookUp(x, s) \/ Bury(x, s) PROVE UNCHANGED Promise!vars
    <2>1. /\ pc[x] \notin {"out", "done"} /\ pc'[x] \notin {"out", "done"}
          /\ UNCHANGED reach
      BY <1>1, <1>10 DEF LookUp, Bury, Goto, history
    <2> QED  BY <1>4, <2>1
  <1>11. ASSUME NEW s \in Sids, ForgetRevoked(x, s) PROVE Promise!Next
    <2>1. pc[x] = "forget" /\ pc'[x] = "out" /\ UNCHANGED reach
      BY <1>1, <1>11 DEF ForgetRevoked, Goto, history
    <2> QED  BY <1>6, <2>1
  <1> QED  BY <1>7, <1>8, <1>9, <1>10, <1>11 DEF Revoke

LEMMA StorageImplements ==
    ASSUME TypeOK, NEW s \in Sids, Storage(s)
    PROVE  [Promise!Next]_(Promise!vars)
  <1>1. /\ UNCHANGED <<clock, list, pc, asked, reach>>
        /\ clock \in Nat /\ createdAt \in [Sids -> 0..clock]
    BY StorageLeaves DEF TypeOK, Times
  <1>2. UNCHANGED <<state, Returned, Gone, covers>>
    BY <1>1 DEF state, State, Returned, Gone, covers
  <1>3. CASE BeginCreate(s)
    <2>1. UNCHANGED made /\ createdAt[s] = 0 /\ createdAt' = [createdAt EXCEPT ![s] = clock]
      BY <1>3 DEF BeginCreate
    <2>2. UNCHANGED Over
      <3>1. \A q \in Sids : q # s => createdAt'[q] = createdAt[q]
        BY <1>1, <2>1
      <3>2. createdAt'[s] = clock /\ ~(clock >= clock + AbsoluteTtl)
        BY <1>1, <2>1, TtlAssumption DEF Times
      <3> QED  BY <1>1, <2>1, <3>1, <3>2 DEF Over, Abs
    <2> QED  BY <1>1, <1>2, <2>1, <2>2, PromiseStutters
  <1>4. CASE PutRecord(s)
    <2>1. UNCHANGED Over
      BY <1>1, <1>4 DEF PutRecord, Over, Abs
    <2>2. Promise!Create(s)
      BY <1>1, <1>2, <1>4, <2>1 DEF PutRecord, Promise!Create, covers, state
    <2> QED  BY <2>2 DEF Promise!Next
  <1>5. CASE ExpireRecord(s) \/ ExpireMarker(s) \/ PropagateRecord(s) \/ PropagateMarker(s)
    <2>1. UNCHANGED <<made, createdAt>>
      BY <1>5 DEF ExpireRecord, ExpireMarker, PropagateRecord, PropagateMarker, sessions
    <2>2. UNCHANGED Over
      BY <1>1, <2>1 DEF Over, Abs
    <2> QED  BY <1>1, <1>2, <2>1, <2>2, PromiseStutters
  <1> QED  BY <1>3, <1>4, <1>5 DEF Storage

LEMMA StepImplements ==
    TypeOK /\ KvInv /\ [Next]_vars => [Promise!Next]_(Promise!vars)
  <1> SUFFICES ASSUME TypeOK, KvInv, [Next]_vars PROVE [Promise!Next]_(Promise!vars)
    OBVIOUS
  <1>1. ASSUME NEW c \in Calls, Throw(c) PROVE [Promise!Next]_(Promise!vars)
    <2>1. /\ pc \in [Calls -> PcOfGet \cup PcOfRevoker]
          /\ Calls = Gets \cup Revokers /\ Gets \cap Revokers = {}
      BY SetsAssumption DEF TypeOK, Calls
    <2>2. UNCHANGED <<clock, list, createdAt, made, asked, reach>>
      BY <1>1 DEF Throw, sessions, history
    <2>3. UNCHANGED <<Over, covers>>
      BY <2>2 DEF Over, Abs, covers
    <2>4. pc[c] \notin {"out", "done"} /\ pc'[c] \notin {"out", "done"}
          /\ \A b \in Calls : b # c => pc'[b] = pc[b]
      BY <1>1, <2>1 DEF Throw
    <2>5. UNCHANGED Returned
      BY <2>1, <2>4 DEF Returned
    <2>6. UNCHANGED Gone
      BY <2>2, <2>5 DEF Gone
    <2>7. \A h \in Gets : h # c => State(h)' = State(h)
      BY <2>1, <2>4 DEF State
    <2>8. CASE c \in Gets /\ pc[c] \in {"asked", "check"}
      <3>1. State(c) = "asked" /\ State(c)' = "null"
        BY <1>1, <2>1, <2>8 DEF Throw, State
      <3>2. Promise!Refuse(c)
        BY <2>2, <2>3, <2>5, <2>6, <2>7, <2>8, <3>1 DEF Promise!Refuse, covers
      <3> QED  BY <2>8, <3>2 DEF Promise!Next
    <2>9. CASE ~(c \in Gets /\ pc[c] \in {"asked", "check"})
      <3>1. \A h \in Gets : State(h)' = State(h)
        BY <1>1, <2>1, <2>7, <2>9 DEF Throw, State, TypeOK, PcOfGet
      <3>2. UNCHANGED state
        BY <3>1 DEF state
      <3> QED  BY <2>2, <2>3, <2>5, <2>6, <3>2, PromiseStutters
    <2> QED  BY <2>8, <2>9
  <1>2. CASE Tick
    <2>1. UNCHANGED <<list, pc, made, asked, reach>>
      BY <1>2 DEF Tick, sessions, history
    <2>2. UNCHANGED <<state, Returned, Gone, covers>>
      BY <2>1 DEF state, State, Returned, Gone, covers
    <2>3. Over \subseteq Over' /\ Over' \subseteq Sids
      BY OverStays DEF Over
    <2>4. Promise!End
      BY <2>1, <2>2, <2>3 DEF Promise!End, covers, state
    <2> QED  BY <2>4 DEF Promise!Next
  <1>3. CASE Cleanup \/ UNCHANGED vars
    <2>1. UNCHANGED <<clock, list, createdAt, made, pc, asked, reach>>
      BY <1>3 DEF Cleanup, vars, sessions, history
    <2>2. UNCHANGED <<state, Returned, Gone, covers, Over>>
      BY <2>1 DEF state, State, Returned, Gone, covers, Over, Abs
    <2> QED  BY <2>1, <2>2, PromiseStutters
  <1> QED
    BY <1>1, <1>2, <1>3, GetImplements, RevokeImplements, StorageImplements, Zenon DEF Next

(***************************************************************************)
(* The KV store implements SessionStore: no get that began after a revoke  *)
(* or a revokeAllForUser returned answers a session it reached, whatever   *)
(* KV reads return and whenever the list is cleaned up.                    *)
(***************************************************************************)
THEOREM KvStoreKeepsItsPromise == Spec => Implements
  BY PromiseInit, StepImplements, KvInvariant, PTL DEF Spec, Implements, Promise!Spec
=============================================================================
