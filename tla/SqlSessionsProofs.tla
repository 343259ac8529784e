--------------------------- MODULE SqlSessionsProofs ---------------------------
(***************************************************************************)
(* Proofs about SqlSessions: its types, that no touch revives a session,   *)
(* and that the D1 and Postgres stores implement SessionStore.             *)
(***************************************************************************)
EXTENDS SqlSessions, TLAPS

-----------------------------------------------------------------------------
(* Types.                                                                   *)

Rows == [seen : 0..clock, idle : Nat]

RowsBounded ==
    /\ row \in [Sids -> Rows]
    /\ \A s \in Sids : row[s] # NoRow =>
           /\ s \in made
           /\ row[s].idle <= Abs(s)
           /\ row[s].idle <= row[s].seen + IdleTtl

PcTypes ==
    /\ pc \in [Calls -> PcOfGet \cup PcOfRevoker]
    /\ \A g \in Gets : pc[g] \in PcOfGet
    /\ \A x \in Revokers : pc[x] \in PcOfRevoker

Rest ==
    /\ clock \in Times
    /\ store \in {"d1", "d1 with list", "pg"}
    /\ createdAt \in [Sids -> 0..clock]
    /\ made \subseteq Sids
    /\ tombstone \in [Sids -> Nat]
    /\ revokedBefore \in Nat
    /\ at \in [Gets -> 0..clock]
    /\ held \in [Gets -> Rows]
    /\ bound \in [Revokers -> Nat]
    /\ asked \in [Gets -> [sid : Sids, gone : BOOLEAN, over : BOOLEAN]]
    /\ reach \in [Revokers -> SUBSET Sids]

LEMMA TypeParts == TypeOK <=> Rest /\ RowsBounded /\ PcTypes
  BY DEF TypeOK, Rest, RowsBounded, PcTypes, Rows

LEMMA Ttls ==
    /\ AbsoluteTtl \in Nat /\ IdleTtl \in Nat /\ MaxSessionLifetime \in Nat
    /\ AbsoluteTtl > 0 /\ IdleTtl > 0 /\ AbsoluteTtl <= MaxSessionLifetime
  BY TtlAssumption DEF Times

LEMMA Numbers ==
    ASSUME Rest
    PROVE  /\ clock \in Nat /\ clock \in Times /\ clock \in 0..clock /\ 0 \in 0..clock
           /\ \A s \in Sids : createdAt[s] \in Nat /\ createdAt[s] <= clock
           /\ \A s \in Sids : Abs(s) \in Nat /\ Abs(s) > createdAt[s]
  <1>1. clock \in Nat /\ clock \in Times /\ createdAt \in [Sids -> 0..clock]
    BY DEF Rest, Times
  <1>2. \A s \in Sids : createdAt[s] \in Nat /\ createdAt[s] <= clock
    BY <1>1
  <1> QED  BY <1>1, <1>2, Ttls DEF Abs

LEMMA TypePartsPrime ==
    ASSUME Rest', RowsBounded', PcTypes'
    PROVE  TypeOK'
  BY DEF TypeOK, Rest, RowsBounded, PcTypes, Rows

LEMMA TypeInit == Init => TypeOK
  <1> SUFFICES ASSUME Init PROVE TypeOK
    OBVIOUS
  <1>1. PcTypes
    BY DEF Init, PcTypes, Calls, PcOfGet, PcOfRevoker
  <1>2. NoRow \in Rows
    <2>1. clock = 1
      BY Zenon DEF Init
    <2> QED  BY <2>1 DEF Rows, NoRow
  <1>3. RowsBounded
    <2>1. row = [s \in Sids |-> NoRow]
      BY Zenon DEF Init
    <2> QED  BY <1>2, <2>1 DEF RowsBounded
  <1>4. asked \in [Gets -> [sid : Sids, gone : BOOLEAN, over : BOOLEAN]]
    <2>1. \A s \in Sids : [sid |-> s, gone |-> FALSE, over |-> FALSE]
                            \in [sid : Sids, gone : BOOLEAN, over : BOOLEAN]
      OBVIOUS
    <2>2. asked \in [Gets -> {[sid |-> s, gone |-> FALSE, over |-> FALSE] : s \in Sids}]
      BY DEF Init
    <2>3. ASSUME NEW g \in Gets
          PROVE  asked[g] \in [sid : Sids, gone : BOOLEAN, over : BOOLEAN]
      <3>1. asked[g] \in {[sid |-> s, gone |-> FALSE, over |-> FALSE] : s \in Sids}
        BY <2>2, Zenon
      <3> QED  BY <2>1, <3>1, Zenon
    <2>4. asked = [g \in Gets |-> asked[g]]
      BY <2>2, Zenon
    <2> QED  BY <2>3, <2>4, Zenon
  <1>5. Rest
    <2>1. clock = 1
      BY Zenon DEF Init
    <2>2. clock \in Times /\ 0 \in 0..clock
      BY <2>1 DEF Times
    <2> QED  BY <1>2, <1>4, <2>2 DEF Init, Rest
  <1> QED  BY <1>1, <1>3, <1>5, TypeParts

LEMMA GotoOfGet ==
    ASSUME TypeOK, NEW g \in Gets, NEW from, NEW to \in PcOfGet, Goto(g, from, to)
    PROVE  PcTypes'
  BY SetsAssumption DEF TypeOK, PcTypes, Goto, Calls

LEMMA GotoOfRevoker ==
    ASSUME TypeOK, NEW x \in Revokers, NEW from, NEW to \in PcOfRevoker, Goto(x, from, to)
    PROVE  PcTypes'
  BY SetsAssumption DEF TypeOK, PcTypes, Goto, Calls

\* Deleting rows, whatever else of the types a step leaves alone.
LEMMA DeletingRows ==
    ASSUME TypeOK, UNCHANGED <<clock, createdAt, made>>, NEW S,
           row' = [s \in Sids |-> IF s \in S THEN NoRow ELSE row[s]]
    PROVE  RowsBounded'
  <1>1. NoRow \in Rows /\ Rows' = Rows
    <2>1. 0 \in 0..clock
      BY TypeParts, Numbers
    <2> QED  BY <2>1 DEF Rows, NoRow
  <1>2. RowsBounded
    BY TypeParts
  <1>3. row' \in [Sids -> Rows']
    BY <1>1, <1>2 DEF RowsBounded
  <1>4. \A s \in Sids : row'[s] # NoRow => row'[s] = row[s]
    OBVIOUS
  <1>5. \A s \in Sids : Abs(s)' = Abs(s)
    BY DEF Abs
  <1>6. NoRow' = NoRow
    BY DEF NoRow
  <1> QED  BY <1>2, <1>3, <1>4, <1>5, <1>6 DEF RowsBounded

LEMMA DeletingOne ==
    ASSUME TypeOK, UNCHANGED <<clock, createdAt, made>>, NEW q \in Sids,
           row' = [row EXCEPT ![q] = NoRow]
    PROVE  RowsBounded'
  <1>1. row \in [Sids -> Rows]
    BY TypeParts DEF RowsBounded
  <1>2. row' = [s \in Sids |-> IF s \in {q} THEN NoRow ELSE row[s]]
    BY <1>1
  <1> QED  BY <1>2, DeletingRows

LEMMA RowsUnchanged ==
    ASSUME TypeOK, UNCHANGED <<clock, createdAt, made, row>>
    PROVE  RowsBounded'
  BY TypeParts DEF RowsBounded, Rows, Abs, NoRow

LEMMA TypeGet ==
    ASSUME TypeOK, NEW g \in Gets, Get(g)
    PROVE  TypeOK'
  <1> DEFINE s == asked[g].sid
  <1>1. /\ s \in Sids /\ clock \in Times /\ clock \in 0..clock /\ Rest /\ RowsBounded
        /\ g \in Calls
    <2>1. Rest /\ RowsBounded
      BY TypeParts
    <2>2. s \in Sids /\ g \in Calls
      BY <2>1 DEF Rest, Calls
    <2> QED  BY <2>1, <2>2, Numbers
  <1>2. {"asked", "null", "check", "found", "expired", "session", "touch", "touched"}
            \subseteq PcOfGet
    BY DEF PcOfGet
  <1> HIDE DEF s
  <1> USE DEF lists, locals, history, sessions
  <1>3. CASE AskGet(g)
    <2>1. PcTypes'
      BY <1>2, <1>3, GotoOfGet DEF AskGet
    <2>2. asked' \in [Gets -> [sid : Sids, gone : BOOLEAN, over : BOOLEAN]]
      <3>1. asked \in [Gets -> [sid : Sids, gone : BOOLEAN, over : BOOLEAN]]
        BY <1>1 DEF Rest
      <3>2. \A a, b \in BOOLEAN : [asked EXCEPT ![g].gone = a, ![g].over = b]
                \in [Gets -> [sid : Sids, gone : BOOLEAN, over : BOOLEAN]]
        BY <3>1
      <3>3. (asked[g].sid \in Gone) \in BOOLEAN /\ (asked[g].sid \in Over) \in BOOLEAN
        OBVIOUS
      <3>4. asked' = [asked EXCEPT ![g].gone = asked[g].sid \in Gone,
                                   ![g].over = asked[g].sid \in Over]
        BY <1>3 DEF AskGet
      <3> QED  BY <3>2, <3>3, <3>4, Zenon
    <2>3. Rest' /\ RowsBounded'
      BY <1>1, <1>3, <2>2, RowsUnchanged DEF AskGet, Rest, Rows
    <2> QED  BY <2>1, <2>3, TypePartsPrime
  <1>4. CASE FindNothing(g)
    <2>1. PcTypes'
      BY <1>2, <1>4, GotoOfGet DEF FindNothing
    <2>2. Rest' /\ RowsBounded'
      BY <1>1, <1>4, RowsUnchanged DEF FindNothing, Rest, Rows
    <2> QED  BY <2>1, <2>2, TypePartsPrime
  <1>5. CASE FindRow(g)
    <2>1. PcTypes'
      BY <1>2, <1>5, GotoOfGet DEF FindRow
    <2>2. row[s] \in Rows
      BY <1>1 DEF RowsBounded
    <2>3. /\ held' = [held EXCEPT ![g] = row[s]]
          /\ at' = [at EXCEPT ![g] = clock]
          /\ UNCHANGED <<clock, store, sessions, row, lists, bound, history>>
      BY <1>5 DEF FindRow, s
    <2>4. Rest' /\ RowsBounded'
      BY <1>1, <2>2, <2>3, RowsUnchanged DEF Rest, Rows
    <2> QED  BY <2>1, <2>4, TypePartsPrime
  <1>6. CASE CheckRevoked(g)
    <2>1. PcTypes'
      BY <1>2, <1>6, GotoOfGet DEF CheckRevoked
    <2>2. Rest' /\ RowsBounded'
      BY <1>1, <1>6, RowsUnchanged DEF CheckRevoked, Rest, Rows
    <2> QED  BY <2>1, <2>2, TypePartsPrime
  <1>7. CASE Decide(g)
    <2>1. PcTypes'
      BY <1>2, <1>7, GotoOfGet DEF Decide
    <2>2. Rest' /\ RowsBounded'
      BY <1>1, <1>7, RowsUnchanged DEF Decide, Rest, Rows
    <2> QED  BY <2>1, <2>2, TypePartsPrime
  <1>8. CASE DeleteExpired(g)
    <2>1. PcTypes'
      BY <1>2, <1>8, GotoOfGet DEF DeleteExpired
    <2>2. row' = [row EXCEPT ![s] = NoRow]
      BY <1>8 DEF DeleteExpired, s
    <2>3. Rest' /\ RowsBounded'
      BY <1>1, <1>8, <2>2, DeletingOne DEF DeleteExpired, Rest, Rows
    <2> QED  BY <2>1, <2>3, TypePartsPrime
  <1>9. CASE BeginTouch(g)
    <2>1. PcTypes'
      BY <1>2, <1>9, GotoOfGet DEF BeginTouch
    <2>2. Rest' /\ RowsBounded'
      BY <1>1, <1>9, RowsUnchanged DEF BeginTouch, Rest, Rows
    <2> QED  BY <2>1, <2>2, TypePartsPrime
  <1>10. CASE Update(g)
    <2>1. PcTypes'
      BY <1>2, <1>10, GotoOfGet DEF Update
    <2>2. Rest'
      BY <1>1, <1>10 DEF Update, Rest, Rows
    <2>3. PICK t \in at[g]..clock :
              row' = IF Touchable(s, t)
                       THEN [row EXCEPT ![s] = TouchedRow(s, t, at[g] + IdleTtl)]
                       ELSE row
      BY <1>10 DEF Update, s
    <2>4. UNCHANGED <<clock, createdAt, made>>
      BY <1>10 DEF Update
    <2>5. ASSUME Touchable(s, t) PROVE RowsBounded'
      <3> DEFINE new == TouchedRow(s, t, at[g] + IdleTtl)
      <3>1. /\ at[g] \in 0..clock /\ Abs(s) \in Nat /\ IdleTtl \in Nat
            /\ clock \in Nat /\ t \in 0..clock /\ at[g] <= t
        <4>1. at[g] \in 0..clock /\ t \in at[g]..clock /\ clock \in Nat
          BY <1>1, Numbers DEF Rest
        <4> QED  BY <1>1, <4>1, Ttls, Numbers
      <3>2. /\ new \in Rows
            /\ new.idle <= Abs(s)
            /\ new.idle <= new.seen + IdleTtl
        BY <3>1 DEF TouchedRow, Smaller, Rows
      <3>3. row[s] # NoRow /\ row' = [row EXCEPT ![s] = new]
        BY <2>3, <2>5 DEF Touchable
      <3> HIDE DEF new
      <3> QED  BY <1>1, <2>4, <3>2, <3>3 DEF RowsBounded, Rows, Abs, NoRow
    <2>6. RowsBounded'
      BY <2>3, <2>4, <2>5, RowsUnchanged
    <2> QED  BY <2>1, <2>2, <2>6, TypePartsPrime
  <1> QED
    BY <1>3, <1>4, <1>5, <1>6, <1>7, <1>8, <1>9, <1>10, Zenon DEF Get

LEMMA TypeRevoke ==
    ASSUME TypeOK, NEW x \in Revokers, Revoke(x)
    PROVE  TypeOK'
  <1>1. /\ clock \in Times /\ Rest /\ x \in Calls
        /\ \A s \in Sids : Abs(s) \in Nat
    <2>1. Rest
      BY TypeParts
    <2> QED  BY <2>1, Numbers DEF Calls
  <1>2. {"look", "bury", "delete", "mark", "mark elsewhere", "delete all", "out", "done",
         "null"} \subseteq PcOfRevoker
    BY DEF PcOfRevoker
  <1> USE DEF lists, locals, history, sessions
  <1>3. CASE BeginRevokeAll(x)
    <2>1. PcTypes'
      BY <1>2, <1>3, GotoOfRevoker DEF BeginRevokeAll
    <2>2. clock + 1 \in Nat
      BY <1>1, Numbers
    <2>3. Rest'
      BY <1>1, <1>3, <2>2 DEF BeginRevokeAll, Rest, Rows, Cutoff
    <2>4. RowsBounded'
      BY <1>3, RowsUnchanged DEF BeginRevokeAll
    <2> QED  BY <2>1, <2>3, <2>4, TypePartsPrime
  <1>4. CASE MarkUser(x)
    <2>1. PcTypes'
      BY <1>2, <1>4, GotoOfRevoker DEF MarkUser
    <2>2. Rest' /\ RowsBounded'
      BY <1>1, <1>4, RowsUnchanged DEF MarkUser, Rest, Rows, Larger
    <2> QED  BY <2>1, <2>2, TypePartsPrime
  <1>5. CASE DeleteAll(x)
    <2>1. PcTypes'
      BY <1>2, <1>5, GotoOfRevoker DEF DeleteAll
    <2>2. row' = [s \in Sids |-> IF s \in Sids THEN NoRow ELSE row[s]]
      BY <1>5 DEF DeleteAll
    <2>3. Rest' /\ RowsBounded'
      BY <1>1, <1>5, <2>2, DeletingRows DEF DeleteAll, Rest, Rows
    <2> QED  BY <2>1, <2>3, TypePartsPrime
  <1>6. ASSUME NEW s \in Sids, BeginRevoke(x, s) PROVE TypeOK'
    <2>1. PcTypes'
      BY <1>2, <1>6, GotoOfRevoker DEF BeginRevoke
    <2>2. Rest' /\ RowsBounded'
      BY <1>1, <1>6, RowsUnchanged DEF BeginRevoke, Rest, Rows
    <2> QED  BY <2>1, <2>2, TypePartsPrime
  <1>7. ASSUME NEW s \in Sids, LookUp(x, s) PROVE TypeOK'
    <2>1. PcTypes'
      BY <1>2, <1>7, GotoOfRevoker DEF LookUp
    <2>2. Rest' /\ RowsBounded'
      BY <1>1, <1>7, RowsUnchanged DEF LookUp, Rest, Rows
    <2> QED  BY <2>1, <2>2, TypePartsPrime
  <1>8. ASSUME NEW s \in Sids, Bury(x, s) PROVE TypeOK'
    <2>1. PcTypes'
      BY <1>2, <1>8, GotoOfRevoker DEF Bury
    <2>2. Rest' /\ RowsBounded'
      BY <1>1, <1>8, RowsUnchanged DEF Bury, Rest, Rows, Larger
    <2> QED  BY <2>1, <2>2, TypePartsPrime
  <1>9. ASSUME NEW s \in Sids, Delete(x, s) PROVE TypeOK'
    <2>1. PcTypes'
      BY <1>2, <1>9, GotoOfRevoker DEF Delete
    <2>2. Rest' /\ RowsBounded'
      BY <1>1, <1>9, DeletingOne DEF Delete, Rest, Rows
    <2> QED  BY <2>1, <2>2, TypePartsPrime
  <1> QED
    BY <1>3, <1>4, <1>5, <1>6, <1>7, <1>8, <1>9, Zenon DEF Revoke

LEMMA PcUnchanged == ASSUME TypeOK, UNCHANGED pc PROVE PcTypes'
  BY DEF TypeOK, PcTypes

LEMMA TypeStep == TypeOK /\ [Next]_vars => TypeOK'
  <1> SUFFICES ASSUME TypeOK, [Next]_vars PROVE TypeOK'
    OBVIOUS
  <1>1. /\ clock \in Times /\ clock \in 0..clock /\ Rest /\ RowsBounded
        /\ \A s \in Sids : Abs(s) \in Nat
    BY TypeParts, Numbers
  <1> USE DEF lists, locals, history, sessions
  <1>2. ASSUME NEW s \in Sids, BeginCreate(s) PROVE TypeOK'
    <2>1. Rest'
      BY <1>1, <1>2 DEF BeginCreate, Rest, Rows
    <2>2. \A q \in Sids : Abs(q)' >= Abs(q)
      <3>1. createdAt' = [createdAt EXCEPT ![s] = clock] /\ createdAt[s] = 0
        BY <1>2 DEF BeginCreate
      <3>2. createdAt \in [Sids -> 0..clock]
        BY <1>1 DEF Rest
      <3>3. \A q \in Sids : createdAt'[q] >= createdAt[q] /\ createdAt'[q] \in Nat
        BY <3>1, <3>2, <1>1, Numbers
      <3> QED  BY <3>3, <1>1, Numbers, Ttls DEF Abs
    <2>3. \A q \in Sids : Abs(q)' \in Nat
      <3>1. createdAt' \in [Sids -> 0..clock'] /\ clock' \in Nat
        BY <2>1 DEF Rest, Times
      <3> QED  BY <3>1, Ttls DEF Abs
    <2>4. UNCHANGED <<clock, row, made>>
      BY <1>2 DEF BeginCreate
    <2>5. \A q \in Sids : row[q].idle <= Abs(q) => row[q].idle <= Abs(q)'
      BY <1>1, <2>2, <2>3 DEF RowsBounded, Rows
    <2>6. RowsBounded'
      BY <1>1, <2>4, <2>5 DEF RowsBounded, Rows, NoRow
    <2> QED  BY <1>2, <2>1, <2>6, PcUnchanged, TypePartsPrime DEF BeginCreate
  <1>3. ASSUME NEW s \in Sids, Insert(s) PROVE TypeOK'
    <2> DEFINE new == [seen |-> createdAt[s],
                       idle |-> Smaller(createdAt[s] + IdleTtl, Abs(s))]
    <2>1. Rest'
      BY <1>1, <1>3 DEF Insert, Rest, Rows
    <2>2. /\ new \in Rows
          /\ new.idle <= Abs(s)
          /\ new.idle <= new.seen + IdleTtl
      <3> QED  BY <1>1, Numbers, Ttls DEF Smaller, Rows
    <2>3. /\ row' = [row EXCEPT ![s] = new]
          /\ made' = made \cup {s}
          /\ UNCHANGED <<clock, createdAt>>
      BY <1>3 DEF Insert
    <2> HIDE DEF new
    <2>4. RowsBounded'
      BY <1>1, <2>2, <2>3 DEF RowsBounded, Rows, Abs, NoRow
    <2> QED  BY <1>3, <2>1, <2>4, PcUnchanged, TypePartsPrime DEF Insert
  <1>4. ASSUME NEW c \in Calls, Throw(c) PROVE TypeOK'
    <2>1. PcTypes'
      BY <1>4, SetsAssumption DEF Throw, TypeOK, PcTypes, PcOfGet, PcOfRevoker, Calls
    <2>2. Rest' /\ RowsBounded'
      BY <1>1, <1>4, RowsUnchanged DEF Throw, Rest, Rows
    <2> QED  BY <2>1, <2>2, TypePartsPrime
  <1>5. CASE Cleanup
    <2>1. PICK S : row' = [s \in Sids |-> IF s \in S THEN NoRow ELSE row[s]]
      BY <1>5, Zenon DEF Cleanup
    <2>2. Rest' /\ RowsBounded'
      BY <1>1, <1>5, <2>1, DeletingRows DEF Cleanup, Rest, Rows
    <2> QED  BY <1>5, <2>2, PcUnchanged, TypePartsPrime DEF Cleanup
  <1>6. CASE CleanupList
    <2>1. /\ tombstone' \in [Sids -> Nat]
          /\ revokedBefore' \in Nat
      <3>1. tombstone \in [Sids -> Nat] /\ revokedBefore \in Nat
        BY <1>1 DEF Rest
      <3> QED  BY <1>6, <3>1 DEF CleanupList
    <2>2. Rest' /\ RowsBounded'
      BY <1>1, <1>6, <2>1, RowsUnchanged DEF CleanupList, Rest, Rows
    <2> QED  BY <1>6, <2>2, PcUnchanged, TypePartsPrime DEF CleanupList
  <1>7. CASE Tick
    <2>1. clock' \in Times /\ 0..clock \subseteq 0..clock'
      BY <1>1, <1>7 DEF Tick, Times
    <2>2. Rows \subseteq Rows'
      BY <2>1 DEF Rows
    <2>3. Rest'
      BY <1>1, <1>7, <2>1, <2>2 DEF Tick, Rest
    <2>4. RowsBounded'
      BY <1>1, <1>7, <2>2 DEF Tick, RowsBounded, Abs, NoRow
    <2> QED  BY <1>7, <2>3, <2>4, PcUnchanged, TypePartsPrime DEF Tick
  <1>8. CASE UNCHANGED vars
    <2>1. Rest' /\ RowsBounded'
      BY <1>1, <1>8, RowsUnchanged DEF vars, Rest, Rows
    <2> QED  BY <1>8, <2>1, PcUnchanged, TypePartsPrime DEF vars
  <1> QED
    BY <1>2, <1>3, <1>4, <1>5, <1>6, <1>7, <1>8, TypeGet, TypeRevoke, Zenon DEF Next

(***************************************************************************)
(* Rows, lists and locals keep their types, and no row's idle window ever  *)
(* reaches past the session's absolute lifetime nor further than a window  *)
(* from its last use (the MIN of create and touch).                        *)
(***************************************************************************)
THEOREM SqlSessionsTypes == Spec => []TypeOK
  BY TypeInit, TypeStep, PTL DEF Spec

-----------------------------------------------------------------------------
(* No revival.                                                              *)

\* What a step may do to the row of a session whose create has returned.
LEMMA RowStep ==
    ASSUME TypeOK, [Next]_vars, NEW s \in made
    PROVE  \/ row'[s] \in {row[s], NoRow}
           \/ row[s] # NoRow /\ Extending(s)
  <1>1. /\ Rest /\ s \in Sids /\ row \in [Sids -> Rows]
        /\ at \in [Gets -> 0..clock] /\ clock \in Nat
    BY TypeParts, Numbers DEF Rest, RowsBounded
  <1> USE DEF sessions
  <1>2. ASSUME NEW g \in Gets, Update(g)
        PROVE  \/ row'[s] \in {row[s], NoRow}
               \/ row[s] # NoRow /\ Extending(s)
    <2>1. PICK t \in at[g]..clock :
              row' = IF Touchable(asked[g].sid, t)
                       THEN [row EXCEPT ![asked[g].sid] =
                                TouchedRow(asked[g].sid, t, at[g] + IdleTtl)]
                       ELSE row
      BY <1>2 DEF Update
    <2>2. CASE asked[g].sid = s /\ Touchable(s, t)
      <3>1. pc[g] = "touch"
        BY <1>2 DEF Update, Goto
      <3>2. row[s] # NoRow /\ row[s].idle > t
        BY <2>2 DEF Touchable
      <3>3. at[g] < row[s].idle
        <4>1. at[g] \in Nat /\ t \in Nat /\ at[g] <= t /\ row[s].idle \in Nat
          BY <1>1, <2>1 DEF Rows
        <4> QED  BY <3>2, <4>1
      <3> QED  BY <2>2, <3>1, <3>2, <3>3 DEF Extending
    <2>3. CASE ~(asked[g].sid = s /\ Touchable(s, t))
      BY <1>1, <2>1, <2>3
    <2> QED  BY <2>2, <2>3
  <1>3. ASSUME NEW q \in Sids, Insert(q) PROVE row'[s] = row[s]
    BY <1>1, <1>3 DEF Insert
  <1>4. ASSUME NEW g \in Gets, Get(g), ~Update(g) PROVE row'[s] \in {row[s], NoRow}
    BY <1>1, <1>4 DEF Get, AskGet, FindNothing, FindRow, CheckRevoked, Decide,
                      DeleteExpired, BeginTouch
  <1>5. ASSUME NEW x \in Revokers, Revoke(x) PROVE row'[s] \in {row[s], NoRow}
    BY <1>1, <1>5 DEF Revoke, BeginRevokeAll, MarkUser, DeleteAll, BeginRevoke, LookUp,
                      Bury, Delete
  <1>6. ASSUME Cleanup PROVE row'[s] \in {row[s], NoRow}
    <2>1. PICK S : row' = [q \in Sids |-> IF q \in S THEN NoRow ELSE row[q]]
      BY <1>6, Zenon DEF Cleanup
    <2> QED  BY <1>1, <2>1
  <1>7. ASSUME \/ \E q \in Sids : BeginCreate(q)
               \/ \E c \in Calls : Throw(c)
               \/ CleanupList \/ Tick \/ UNCHANGED vars
        PROVE  row'[s] = row[s]
    BY <1>7 DEF BeginCreate, Throw, CleanupList, Tick, vars
  <1> QED
    BY <1>2, <1>3, <1>4, <1>5, <1>6, <1>7, Zenon DEF Next

(***************************************************************************)
(* A session whose idle window has run out stays out: a touch finds no row *)
(* to extend unless it was sent while the window was open, and creates     *)
(* none (the WHERE of touch).                                              *)
(***************************************************************************)
THEOREM TouchRevivesNothing == Spec => NoRevival
  <1>1. TypeOK /\ [Next]_vars =>
            [\A s \in made : (clock >= row[s].idle /\ ~Extending(s)) =>
                 row'[s] \in {row[s], NoRow}]_vars
    BY RowStep
  <1> QED  BY <1>1, SqlSessionsTypes, PTL DEF Spec, NoRevival
-----------------------------------------------------------------------------
(* The inductive invariant.                                                 *)

\* A get that begins now does not answer s, or need not refuse it.
Covered(s) ==
    \/ s \in Over
    \/ row[s] = NoRow
    \/ List /\ revokedBefore > createdAt[s]

MadeInv ==
    /\ \A s \in made : createdAt[s] # 0
    /\ \A x \in Revokers : reach[x] \subseteq made

RevokerInv(x) ==
    /\ pc[x] = "idle" => reach[x] = {}
    /\ pc[x] \in {"mark", "mark elsewhere"} => List
    /\ pc[x] \in {"mark", "mark elsewhere"} => \A s \in reach[x] : bound[x] > createdAt[s]
    /\ pc[x] \in {"out", "done"} => \A s \in reach[x] : Covered(s)

GetInv(g) ==
    LET s == asked[g].sid IN
    /\ asked[g].over => s \in Over
    /\ asked[g].gone => s \in made /\ Covered(s)
    /\ pc[g] \in {"check", "found"} => s \in made
    /\ pc[g] = "check" /\ asked[g].gone => s \in Over \/ revokedBefore > createdAt[s]
    /\ pc[g] = "found" /\ asked[g].gone => s \in Over

SqlInv ==
    /\ MadeInv
    /\ \A x \in Revokers : RevokerInv(x)
    /\ \A g \in Gets : GetInv(g)

LEMMA SqlInit == Init => SqlInv
  <1> SUFFICES ASSUME Init PROVE SqlInv
    OBVIOUS
  <1>1. MadeInv
    BY DEF Init, MadeInv
  <1>2. \A x \in Revokers : RevokerInv(x)
    BY DEF Init, RevokerInv, Calls
  <1>3. ASSUME NEW g \in Gets PROVE GetInv(g)
    <2>1. asked[g] \in {[sid |-> s, gone |-> FALSE, over |-> FALSE] : s \in Sids}
      BY Zenon DEF Init
    <2>2. ~asked[g].gone /\ ~asked[g].over
      BY <2>1
    <2>3. pc[g] = "idle"
      BY DEF Init, Calls
    <2> QED  BY <2>2, <2>3 DEF GetInv
  <1> QED  BY <1>1, <1>2, <1>3 DEF SqlInv

\* What each kind of step leaves alone.
LEMMA GetLeaves ==
    ASSUME NEW g \in Gets, Get(g)
    PROVE  UNCHANGED <<clock, store, createdAt, made, tombstone, revokedBefore, bound, reach>>
  BY DEF Get, AskGet, FindNothing, FindRow, CheckRevoked, Decide, DeleteExpired,
         BeginTouch, Update, lists, sessions, locals, history

LEMMA RevokeLeaves ==
    ASSUME NEW x \in Revokers, Revoke(x)
    PROVE  UNCHANGED <<clock, store, createdAt, made, at, held, asked>>
  BY DEF Revoke, BeginRevokeAll, MarkUser, DeleteAll, BeginRevoke, LookUp, Bury, Delete,
         lists, sessions, locals, history

LEMMA CreateLeaves ==
    ASSUME NEW s \in Sids, BeginCreate(s) \/ Insert(s)
    PROVE  UNCHANGED <<clock, store, tombstone, revokedBefore, pc, at, held, bound, asked, reach>>
  BY DEF BeginCreate, Insert, lists, locals, history

LEMMA RestLeaves ==
    ASSUME \/ Cleanup \/ CleanupList \/ Tick \/ UNCHANGED vars
           \/ \E c \in Calls : Throw(c)
    PROVE  UNCHANGED <<store, createdAt, made, at, held, bound, asked, reach>>
  BY DEF Cleanup, CleanupList, Tick, Throw, vars, sessions, locals, history

LEMMA CreatedOnce ==
    ASSUME TypeOK, [Next]_vars
    PROVE  /\ store' = store
           /\ made \subseteq made'
           /\ \A s \in Sids : createdAt[s] # 0 =>
                  createdAt'[s] = createdAt[s] /\ Abs(s)' = Abs(s)
           /\ clock' \in Nat /\ clock' >= clock
  <1>1. clock \in Nat /\ createdAt \in [Sids -> 0..clock]
    BY TypeParts, Numbers DEF Rest
  <1>2. ASSUME NEW s \in Sids, BeginCreate(s) \/ Insert(s)
        PROVE  /\ made \subseteq made'
               /\ \A q \in Sids : createdAt[q] # 0 => createdAt'[q] = createdAt[q]
    BY <1>1, <1>2 DEF BeginCreate, Insert
  <1>3. CASE Tick
    BY <1>1, <1>3, RestLeaves DEF Tick, Abs
  <1>4. ASSUME Cleanup \/ CleanupList \/ UNCHANGED vars \/ \E c \in Calls : Throw(c)
        PROVE  clock' = clock
    BY <1>4 DEF Cleanup, CleanupList, Throw, vars
  <1> QED
    BY <1>1, <1>2, <1>3, <1>4, GetLeaves, RevokeLeaves, CreateLeaves, RestLeaves
    DEF Next, Abs

LEMMA OverStays ==
    ASSUME TypeOK, [Next]_vars, NEW s \in Over
    PROVE  s \in Over'
  <1>1. /\ s \in Sids /\ createdAt[s] # 0 /\ clock >= Abs(s)
        /\ Abs(s) \in Nat /\ clock \in Nat
    BY TypeParts, Numbers DEF Over
  <1>2. /\ createdAt'[s] = createdAt[s] /\ Abs(s)' = Abs(s)
        /\ clock' \in Nat /\ clock' >= clock
    BY <1>1, CreatedOnce
  <1> QED  BY <1>1, <1>2 DEF Over

\* The user's marker stays for as long as a session it covers could be live.
LEMMA MarkerStays ==
    ASSUME TypeOK, MadeInv, [Next]_vars, NEW s \in made, revokedBefore > createdAt[s]
    PROVE  s \in Over' \/ revokedBefore' > createdAt'[s]
  <1>1. /\ s \in Sids /\ createdAt[s] # 0 /\ createdAt[s] \in Nat
        /\ revokedBefore \in Nat /\ clock \in Nat /\ Abs(s) \in Nat
    BY TypeParts, Numbers DEF Rest, MadeInv
  <1>2. createdAt'[s] = createdAt[s]
    BY <1>1, CreatedOnce
  <1>3. CASE UNCHANGED revokedBefore
    BY <1>2, <1>3
  <1>4. CASE CleanupList
    <2>1. PICK cutoff \in 1..clock :
              revokedBefore' =
                  IF revokedBefore <= cutoff - MaxSessionLifetime THEN 0 ELSE revokedBefore
      BY <1>4 DEF CleanupList
    <2>2. CASE revokedBefore <= cutoff - MaxSessionLifetime
      <3>1. createdAt[s] + AbsoluteTtl <= clock
        BY <1>1, <2>1, <2>2, Ttls
      <3>2. s \in Over
        BY <1>1, <3>1 DEF Over, Abs
      <3> QED  BY <3>2, OverStays
    <2>3. CASE ~(revokedBefore <= cutoff - MaxSessionLifetime)
      BY <1>2, <2>1, <2>3
    <2> QED  BY <2>2, <2>3
  <1>5. ASSUME NEW x \in Revokers, Revoke(x)
        PROVE  s \in Over' \/ revokedBefore' > createdAt'[s]
    <2>1. CASE MarkUser(x)
      <3>1. revokedBefore' = Larger(revokedBefore, bound[x]) /\ bound[x] \in Nat
        BY <2>1, TypeParts DEF MarkUser, Rest
      <3> QED  BY <1>1, <1>2, <3>1 DEF Larger
    <2>2. CASE ~MarkUser(x)
      <3>1. UNCHANGED revokedBefore
        BY <1>5, <2>2 DEF Revoke, BeginRevokeAll, DeleteAll, BeginRevoke, LookUp, Bury,
                          Delete, lists
      <3> QED  BY <1>3, <3>1
    <2> QED  BY <2>1, <2>2
  <1>6. ASSUME Cleanup \/ Tick \/ UNCHANGED vars \/ \E c \in Calls : Throw(c)
        PROVE  UNCHANGED revokedBefore
    BY <1>6 DEF Cleanup, Tick, Throw, vars, lists
  <1> QED
    BY <1>3, <1>4, <1>5, <1>6, GetLeaves, CreateLeaves, Zenon DEF Next

LEMMA CoveredStays ==
    ASSUME TypeOK, MadeInv, [Next]_vars, NEW s \in made, Covered(s)
    PROVE  Covered(s)'
  <1>1. List' = List
    BY CreatedOnce DEF List
  <1>2. CASE s \in Over
    BY <1>2, OverStays DEF Covered
  <1>3. CASE row[s] = NoRow
    <2>1. row'[s] = NoRow
      BY <1>3, RowStep
    <2>2. NoRow' = NoRow
      BY DEF NoRow
    <2> QED  BY <2>1, <2>2 DEF Covered
  <1>4. CASE List /\ revokedBefore > createdAt[s]
    BY <1>1, <1>4, MarkerStays DEF Covered
  <1> QED  BY <1>2, <1>3, <1>4 DEF Covered

LEMMA MadeStep ==
    ASSUME TypeOK, MadeInv, [Next]_vars
    PROVE  MadeInv'
  <1>1. \A s \in made' : createdAt'[s] # 0
    <2>1. \A s \in made' : s \in Sids /\ createdAt[s] # 0
      <3>1. \A s \in made : s \in Sids /\ createdAt[s] # 0
        BY TypeParts DEF MadeInv, Rest
      <3>2. ASSUME NEW s \in Sids, BeginCreate(s) \/ Insert(s)
            PROVE  made' = made \/ (createdAt[s] # 0 /\ made' = made \cup {s})
        BY <3>2 DEF BeginCreate, Insert
      <3> QED  BY <3>1, <3>2, GetLeaves, RevokeLeaves, RestLeaves DEF Next
    <2> QED  BY <2>1, CreatedOnce
  <1>2. \A x \in Revokers : reach'[x] \subseteq made'
    <2>1. reach \in [Revokers -> SUBSET Sids]
      BY TypeParts DEF Rest
    <2>2. ASSUME NEW y \in Revokers, Revoke(y)
          PROVE  \A x \in Revokers : reach'[x] \subseteq made
      <3>1. CASE BeginRevokeAll(y)
        BY <2>1, <3>1 DEF BeginRevokeAll, MadeInv
      <3>2. ASSUME NEW s \in Sids, BeginRevoke(y, s)
            PROVE  \A x \in Revokers : reach'[x] \subseteq made
        BY <2>1, <3>2 DEF BeginRevoke, MadeInv
      <3>3. ASSUME \/ MarkUser(y) \/ DeleteAll(y)
                   \/ \E s \in Sids : LookUp(y, s) \/ Bury(y, s) \/ Delete(y, s)
            PROVE  \A x \in Revokers : reach'[x] \subseteq made
        BY <3>3 DEF MarkUser, DeleteAll, LookUp, Bury, Delete, MadeInv, history
      <3> QED  BY <2>2, <3>1, <3>2, <3>3, Zenon DEF Revoke
    <2>3. ASSUME UNCHANGED reach PROVE \A x \in Revokers : reach'[x] \subseteq made'
      BY <2>3, CreatedOnce DEF MadeInv
    <2> QED
      BY <2>2, <2>3, GetLeaves, CreateLeaves, RestLeaves, CreatedOnce DEF Next
  <1> QED  BY <1>1, <1>2 DEF MadeInv

LEMMA RevokerKept ==
    ASSUME TypeOK, MadeInv, [Next]_vars, NEW x \in Revokers, RevokerInv(x),
           pc'[x] \in {pc[x], "null"}, reach'[x] = reach[x], bound'[x] = bound[x]
    PROVE  RevokerInv(x)'
  <1>1. \A s \in reach[x] : s \in made /\ s \in Sids /\ createdAt[s] # 0
    BY TypeParts DEF MadeInv, Rest
  <1>2. \A s \in reach[x] : createdAt'[s] = createdAt[s]
    BY <1>1, CreatedOnce
  <1>3. \A s \in reach[x] : Covered(s) => Covered(s)'
    BY <1>1, CoveredStays
  <1>4. List' = List
    BY CreatedOnce DEF List
  <1> QED  BY <1>2, <1>3, <1>4 DEF RevokerInv

LEMMA RevokerMoves ==
    ASSUME TypeOK, MadeInv, NEW x \in Revokers, RevokerInv(x), Revoke(x)
    PROVE  RevokerInv(x)'
  <1>1. /\ pc \in [Calls -> PcOfGet \cup PcOfRevoker] /\ x \in Calls
        /\ bound \in [Revokers -> Nat] /\ reach \in [Revokers -> SUBSET Sids]
        /\ made \subseteq Sids /\ revokedBefore \in Nat /\ row \in [Sids -> Rows]
    BY TypeParts DEF Rest, RowsBounded, PcTypes, Calls
  <1>0. /\ clock \in Nat
        /\ \A s \in made : createdAt[s] \in Nat /\ clock + 1 > createdAt[s]
    <2>1. clock \in Nat /\ \A s \in Sids : createdAt[s] \in Nat /\ createdAt[s] <= clock
      BY TypeParts, Numbers
    <2>2. \A s \in made : createdAt[s] \in Nat /\ createdAt[s] <= clock
      BY <1>1, <2>1, Zenon
    <2> QED  BY <2>1, <2>2
  <1>2. UNCHANGED <<clock, store, createdAt, made>> /\ List' = List /\ NoRow' = NoRow
    BY RevokeLeaves DEF List, NoRow
  <1> USE DEF Goto
  <1>3. CASE BeginRevokeAll(x)
    <2>1. /\ pc'[x] \in IF List THEN {"mark", "mark elsewhere"} ELSE {"delete all"}
          /\ bound'[x] = clock + 1 /\ reach'[x] = made
      BY <1>1, <1>3 DEF BeginRevokeAll, Cutoff
    <2>2. \A s \in made : bound'[x] > createdAt'[s]
      BY <1>2, <1>0, <2>1
    <2> QED  BY <1>2, <2>1, <2>2 DEF RevokerInv
  <1>4. CASE MarkUser(x)
    <2>1. /\ pc[x] \in {"mark", "mark elsewhere"} /\ pc'[x] \in {"delete all", "done"}
          /\ reach' = reach /\ revokedBefore' = Larger(revokedBefore, bound[x])
      BY <1>1, <1>4 DEF MarkUser, history
    <2>2. \A s \in reach[x] : revokedBefore' > createdAt'[s]
      <3>1. \A s \in reach[x] : bound[x] > createdAt[s] /\ createdAt[s] \in Nat
        BY <1>0, <2>1 DEF RevokerInv, MadeInv
      <3>2. bound[x] \in Nat /\ revokedBefore \in Nat
        BY <1>1
      <3>3. \A s \in reach[x] : Larger(revokedBefore, bound[x]) > createdAt[s]
        BY <3>1, <3>2 DEF Larger
      <3> QED  BY <1>2, <2>1, <3>3
    <2>3. List
      BY <2>1 DEF RevokerInv
    <2>4. \A s \in reach[x] : Covered(s)'
      BY <1>2, <2>2, <2>3 DEF Covered
    <2> QED  BY <2>1, <2>4 DEF RevokerInv
  <1>5. CASE DeleteAll(x)
    <2>1. /\ pc'[x] \in {"done", "null"} /\ reach' = reach
          /\ row' = [s \in Sids |-> NoRow]
      BY <1>1, <1>5 DEF DeleteAll, history
    <2>2. \A s \in Sids : Covered(s)'
      BY <1>2, <2>1 DEF Covered
    <2> QED  BY <1>1, <2>1, <2>2 DEF RevokerInv
  <1>6. ASSUME NEW s \in Sids, BeginRevoke(x, s) PROVE RevokerInv(x)'
    <2>1. pc'[x] \in {"look", "delete"}
      BY <1>1, <1>6 DEF BeginRevoke
    <2> QED  BY <2>1 DEF RevokerInv
  <1>7. ASSUME NEW s \in Sids, LookUp(x, s) \/ Bury(x, s) PROVE RevokerInv(x)'
    <2>1. pc'[x] \in {"delete", "bury"}
      BY <1>1, <1>7 DEF LookUp, Bury
    <2> QED  BY <2>1 DEF RevokerInv
  <1>8. ASSUME NEW s \in Sids, Delete(x, s) PROVE RevokerInv(x)'
    <2>1. /\ pc'[x] \in {"out", "null"} /\ reach' = reach /\ reach[x] = {s}
          /\ row' = [row EXCEPT ![s] = NoRow]
      BY <1>1, <1>8 DEF Delete, history
    <2>2. Covered(s)'
      BY <1>1, <1>2, <2>1 DEF Covered
    <2> QED  BY <2>1, <2>2 DEF RevokerInv
  <1> QED  BY <1>3, <1>4, <1>5, <1>6, <1>7, <1>8, Zenon DEF Revoke

LEMMA RevokerStep ==
    ASSUME TypeOK, MadeInv, [Next]_vars, NEW x \in Revokers, RevokerInv(x)
    PROVE  RevokerInv(x)'
  <1>1. /\ pc \in [Calls -> PcOfGet \cup PcOfRevoker] /\ x \in Calls /\ x \notin Gets
        /\ bound \in [Revokers -> Nat] /\ reach \in [Revokers -> SUBSET Sids]
        /\ pc[x] \in PcOfRevoker
    BY SetsAssumption DEF TypeOK, Calls
  <1> DEFINE Kept == pc'[x] \in {pc[x], "null"} /\ reach'[x] = reach[x] /\ bound'[x] = bound[x]
  <1>2. SUFFICES Kept \/ Revoke(x)
    BY RevokerKept, RevokerMoves
  <1>3. ASSUME NEW g \in Gets, Get(g) PROVE Kept
    <2>1. pc'[x] = pc[x]
      BY <1>1, <1>3 DEF Get, AskGet, FindNothing, FindRow, CheckRevoked, Decide,
                        DeleteExpired, BeginTouch, Update, Goto
    <2> QED  BY <1>3, <2>1, GetLeaves
  <1>4. ASSUME NEW y \in Revokers, Revoke(y), y # x PROVE Kept
    BY <1>1, <1>4 DEF Revoke, BeginRevokeAll, MarkUser, DeleteAll, BeginRevoke, LookUp,
                      Bury, Delete, Goto, locals, history
  <1>5. ASSUME NEW s \in Sids, BeginCreate(s) \/ Insert(s) PROVE Kept
    BY <1>5, CreateLeaves
  <1>6. ASSUME NEW c \in Calls, Throw(c) PROVE Kept
    <2>1. pc[x] # "touch"
      BY <1>1 DEF PcOfRevoker
    <2> QED  BY <1>1, <1>6, <2>1, RestLeaves DEF Throw
  <1>7. ASSUME Cleanup \/ CleanupList \/ Tick \/ UNCHANGED vars PROVE Kept
    <2>1. pc' = pc
      BY <1>7 DEF Cleanup, CleanupList, Tick, vars
    <2> QED  BY <1>7, <2>1, RestLeaves
  <1> QED  BY <1>3, <1>4, <1>5, <1>6, <1>7, Zenon DEF Next

LEMMA GetKept ==
    ASSUME TypeOK, MadeInv, [Next]_vars, NEW g \in Gets, GetInv(g),
           asked'[g] = asked[g], pc'[g] \notin {"check", "found"} \/ pc'[g] = pc[g]
    PROVE  GetInv(g)'
  <1> DEFINE s == asked[g].sid
  <1>1. made \subseteq made'
    BY CreatedOnce
  <1>2. s \in Over => s \in Over'
    BY OverStays
  <1>3. s \in made /\ Covered(s) => Covered(s)'
    BY CoveredStays
  <1>4. s \in made /\ revokedBefore > createdAt[s] =>
            s \in Over' \/ revokedBefore' > createdAt'[s]
    BY MarkerStays
  <1> QED  BY <1>1, <1>2, <1>3, <1>4 DEF GetInv

\* What a returned revocation has reached is covered.
LEMMA GoneCovered ==
    ASSUME SqlInv, NEW s \in Gone
    PROVE  s \in made /\ Covered(s)
  <1>1. PICK x \in Returned : s \in reach[x]
    BY DEF Gone
  <1> QED  BY <1>1 DEF SqlInv, MadeInv, RevokerInv, Returned

LEMMA GetStep ==
    ASSUME TypeOK, SqlInv, [Next]_vars, NEW g \in Gets
    PROVE  GetInv(g)'
  <1>1. /\ pc \in [Calls -> PcOfGet \cup PcOfRevoker] /\ g \in Calls /\ g \notin Revokers
        /\ asked \in [Gets -> [sid : Sids, gone : BOOLEAN, over : BOOLEAN]]
        /\ at \in [Gets -> 0..clock] /\ asked[g].sid \in Sids
        /\ MadeInv /\ GetInv(g)
    BY SetsAssumption DEF TypeOK, Calls, SqlInv
  <1> DEFINE s == asked[g].sid
             Kept == /\ asked'[g] = asked[g]
                     /\ pc'[g] \notin {"check", "found"} \/ pc'[g] = pc[g]
  <1>2. ASSUME Kept PROVE GetInv(g)'
    BY <1>1, <1>2, GetKept
  <1>3. CASE AskGet(g)
    <2>1. /\ asked'[g].sid = s /\ asked'[g].gone = (s \in Gone) /\ asked'[g].over = (s \in Over)
          /\ pc'[g] = "asked"
      BY <1>1, <1>3 DEF AskGet, Goto
    <2>2. s \in Over => s \in Over'
      BY OverStays
    <2>3. ASSUME s \in Gone PROVE s \in made' /\ Covered(s)'
      <3>1. s \in made /\ Covered(s)
        BY <2>3, GoneCovered, Zenon
      <3>2. PICK q \in made : q = s
        BY <3>1
      <3>3. Covered(q)'
        BY <1>1, <3>1, <3>2, CoveredStays
      <3>4. Covered(s)'
        BY <2>1, <3>2, <3>3
      <3>5. made \subseteq made'
        BY CreatedOnce, Zenon
      <3> QED  BY <3>1, <3>4, <3>5, Zenon
    <2> QED  BY <2>1, <2>2, <2>3 DEF GetInv
  <1>4. CASE FindRow(g)
    <2>1. /\ row[s] # NoRow /\ UNCHANGED <<row, createdAt, made, asked, revokedBefore>>
          /\ UNCHANGED <<clock, store>>
          /\ pc'[g] = IF List THEN "check" ELSE "found"
      BY <1>1, <1>4 DEF FindRow, Goto, sessions, lists, history
    <2>2. s \in made
      BY <1>1, <2>1, TypeParts DEF RowsBounded
    <2>3. /\ Over' = Over /\ (Covered(s) <=> Covered(s)') /\ List' = List
      BY <2>1 DEF Covered, Over, Abs, List, NoRow
    <2>4. asked[g].gone => Covered(s)
      BY <1>1 DEF GetInv
    <2>5. Covered(s) => s \in Over \/ (List /\ revokedBefore > createdAt[s])
      BY <2>1 DEF Covered
    <2>6. asked[g].over => s \in Over'
      BY <1>1, <2>3 DEF GetInv
    <2>7. asked[g].gone => Covered(s)'
      BY <2>3, <2>4
    <2>8. pc'[g] = "check" /\ asked[g].gone => s \in Over' \/ revokedBefore' > createdAt'[s]
      BY <2>1, <2>3, <2>4, <2>5
    <2>9. pc'[g] = "found" /\ asked[g].gone => s \in Over'
      <3>1. CASE List
        BY <2>1, <3>1
      <3>2. CASE ~List
        BY <2>3, <2>4, <2>5, <3>2
      <3> QED  BY <3>1, <3>2
    <2>10. s \in made' /\ asked' = asked
      BY <2>1, <2>2
    <2> QED  BY <2>6, <2>7, <2>8, <2>9, <2>10 DEF GetInv
  <1>5. CASE CheckRevoked(g)
    <2>1. PICK t \in at[g]..clock : pc'[g] = IF IsRevoked(s, t) THEN "null" ELSE "found"
      BY <1>1, <1>5 DEF CheckRevoked, Goto
    <2>2. /\ pc[g] = "check" /\ asked' = asked
          /\ UNCHANGED <<clock, createdAt, made, revokedBefore>>
      BY <1>5 DEF CheckRevoked, Goto, sessions, lists, history
    <2>3. CASE pc'[g] # "found"
      BY <1>1, <1>2, <2>1, <2>2, <2>3
    <2>4. CASE pc'[g] = "found"
      <3>1. ~(revokedBefore > createdAt[s])
        BY <2>1, <2>4 DEF IsRevoked
      <3>2. asked[g].gone => s \in Over
        BY <1>1, <2>2, <3>1 DEF GetInv
      <3>3. s \in made
        BY <1>1, <2>2 DEF GetInv
      <3>4. asked[g].over => s \in Over
        BY <1>1 DEF GetInv
      <3>5. Over' = Over /\ made' = made
        BY <2>2 DEF Over, Abs
      <3>6. s \in Over => Covered(s)'
        BY <3>5, <2>2 DEF Covered
      <3> QED  BY <2>2, <2>4, <3>2, <3>3, <3>4, <3>5, <3>6 DEF GetInv
    <2> QED  BY <2>3, <2>4
  <1>6. CASE FindNothing(g) \/ Decide(g) \/ DeleteExpired(g) \/ BeginTouch(g) \/ Update(g)
    <2>1. Kept
      BY <1>1, <1>6 DEF FindNothing, Decide, DeleteExpired, BeginTouch, Update, Goto, history
    <2> QED  BY <1>2, <2>1
  <1>7. ASSUME NEW h \in Gets, Get(h), h # g PROVE GetInv(g)'
    <2>1. Kept
      BY <1>1, <1>7 DEF Get, AskGet, FindNothing, FindRow, CheckRevoked, Decide,
                        DeleteExpired, BeginTouch, Update, Goto, locals, history
    <2> QED  BY <1>2, <2>1
  <1>8. ASSUME NEW y \in Revokers, Revoke(y) PROVE GetInv(g)'
    <2>1. pc'[g] = pc[g]
      BY <1>1, <1>8 DEF Revoke, BeginRevokeAll, MarkUser, DeleteAll, BeginRevoke, LookUp,
                        Bury, Delete, Goto
    <2> QED  BY <1>2, <1>8, <2>1, RevokeLeaves
  <1>9. ASSUME NEW q \in Sids, BeginCreate(q) \/ Insert(q) PROVE GetInv(g)'
    BY <1>2, <1>9, CreateLeaves
  <1>10. ASSUME NEW c \in Calls, Throw(c) PROVE GetInv(g)'
    <2>1. Kept
      BY <1>1, <1>10, RestLeaves DEF Throw
    <2> QED  BY <1>2, <2>1
  <1>11. ASSUME Cleanup \/ CleanupList \/ Tick \/ UNCHANGED vars PROVE GetInv(g)'
    <2>1. pc' = pc
      BY <1>11 DEF Cleanup, CleanupList, Tick, vars
    <2> QED  BY <1>2, <1>11, <2>1, RestLeaves
  <1>12. ASSUME Get(g) PROVE GetInv(g)'
    BY <1>3, <1>4, <1>5, <1>6, <1>12, Zenon DEF Get
  <1> QED  BY <1>7, <1>8, <1>9, <1>10, <1>11, <1>12, Zenon DEF Next

LEMMA SqlStep == TypeOK /\ SqlInv /\ [Next]_vars => SqlInv'
  <1> SUFFICES ASSUME TypeOK, SqlInv, [Next]_vars PROVE SqlInv'
    OBVIOUS
  <1>1. MadeInv'
    BY MadeStep DEF SqlInv
  <1>2. \A x \in Revokers : RevokerInv(x)'
    BY RevokerStep DEF SqlInv
  <1>3. \A g \in Gets : GetInv(g)'
    BY GetStep
  <1> QED  BY <1>1, <1>2, <1>3 DEF SqlInv

LEMMA SqlInvariant == Spec => [](TypeOK /\ SqlInv)
  BY TypeInit, TypeStep, SqlInit, SqlStep, PTL DEF Spec
-----------------------------------------------------------------------------
(* The refinement.                                                          *)

state == [g \in Gets |-> State(g)]

LEMMA PromiseStutters ==
    ASSUME UNCHANGED <<made, Over, Gone, reach, state, asked, Returned>>
    PROVE  UNCHANGED Promise!vars
  BY DEF Promise!vars, state

LEMMA PromiseInit == Init => Promise!Init
  <1> SUFFICES ASSUME Init PROVE Promise!Init
    OBVIOUS
  <1>1. made = {} /\ Over = {} /\ reach = [x \in Revokers |-> {}]
    BY DEF Init, Over
  <1>2. Returned = {} /\ Gone = {}
    BY DEF Init, Returned, Gone, Calls
  <1>3. [g \in Gets |-> State(g)] = [g \in Gets |-> "idle"]
    BY DEF Init, State, Calls
  <1>4. asked \in [Gets -> {[sid |-> s, gone |-> FALSE, over |-> FALSE] : s \in Sids}]
    BY DEF Init
  <1> QED  BY <1>1, <1>2, <1>3, <1>4, Zenon DEF Promise!Init

\* A get's step changes nothing the revocations are judged by.
LEMMA GetFrame ==
    ASSUME TypeOK, NEW g \in Gets, Get(g)
    PROVE  /\ UNCHANGED <<made, Over, Gone, reach, Returned>>
           /\ state' = [state EXCEPT ![g] = State(g)']
  <1>1. /\ pc \in [Calls -> PcOfGet \cup PcOfRevoker] /\ g \in Calls /\ g \notin Revokers
        /\ Revokers \subseteq Calls /\ Gets \subseteq Calls
    BY SetsAssumption DEF TypeOK, Calls
  <1>2. \A c \in Calls : c # g => pc'[c] = pc[c]
    BY <1>1 DEF Get, AskGet, FindNothing, FindRow, CheckRevoked, Decide,
                DeleteExpired, BeginTouch, Update, Goto
  <1>3. UNCHANGED <<clock, createdAt, made, reach>>
    BY GetLeaves
  <1>4. UNCHANGED Returned
    BY <1>1, <1>2 DEF Returned
  <1>5. UNCHANGED Over
    BY <1>3 DEF Over, Abs
  <1>6. UNCHANGED Gone
    BY <1>3, <1>4 DEF Gone
  <1>7. \A h \in Gets : h # g => State(h)' = State(h)
    BY <1>1, <1>2 DEF State
  <1> QED  BY <1>3, <1>4, <1>5, <1>6, <1>7 DEF state

LEMMA GetImplements ==
    ASSUME TypeOK, SqlInv, NEW g \in Gets, Get(g)
    PROVE  [Promise!Next]_(Promise!vars)
  <1> DEFINE s == asked[g].sid
  <1>1. /\ UNCHANGED <<made, Over, Gone, reach, Returned>>
        /\ state' = [state EXCEPT ![g] = State(g)']
        /\ state[g] = State(g)
    BY GetFrame DEF state
  <1>2. /\ pc \in [Calls -> PcOfGet \cup PcOfRevoker] /\ g \in Calls
        /\ MadeInv /\ GetInv(g)
    BY DEF TypeOK, Calls, SqlInv
  <1>3. ASSUME UNCHANGED asked, State(g)' = State(g) PROVE UNCHANGED Promise!vars
    <2>1. UNCHANGED state
      BY <1>1, <1>3 DEF state
    <2> QED  BY <1>1, <1>3, <2>1, PromiseStutters
  <1>4. ASSUME UNCHANGED asked, State(g) = "asked", State(g)' = "null" PROVE Promise!Next
    <2>1. Promise!Refuse(g)
      BY <1>1, <1>4 DEF Promise!Refuse, state
    <2> QED  BY <2>1 DEF Promise!Next
  <1>5. CASE AskGet(g)
    <2>1. /\ State(g) = "idle" /\ State(g)' = "asked"
          /\ asked' = [asked EXCEPT ![g].gone = s \in Gone, ![g].over = s \in Over]
      BY <1>2, <1>5 DEF AskGet, Goto, State
    <2>2. Promise!Ask(g)
      BY <1>1, <2>1 DEF Promise!Ask, state
    <2> QED  BY <2>2 DEF Promise!Next
  <1>6. CASE FindNothing(g)
    <2>1. UNCHANGED asked /\ State(g) = "asked" /\ State(g)' = "null"
      BY <1>2, <1>6 DEF FindNothing, Goto, State, history
    <2> QED  BY <1>4, <2>1
  <1>7. CASE FindRow(g)
    <2>1. UNCHANGED asked /\ State(g)' = State(g)
      BY <1>2, <1>7 DEF FindRow, Goto, State, history
    <2> QED  BY <1>3, <2>1
  <1>8. CASE CheckRevoked(g)
    <2>1. UNCHANGED asked /\ pc[g] = "check" /\ pc'[g] \in {"null", "found"}
      BY <1>2, <1>8 DEF CheckRevoked, Goto, history
    <2>2. CASE pc'[g] = "null"
      <3>1. State(g) = "asked" /\ State(g)' = "null"
        BY <2>1, <2>2 DEF State
      <3> QED  BY <1>4, <2>1, <3>1
    <2>3. CASE pc'[g] = "found"
      <3>1. State(g)' = State(g)
        BY <2>1, <2>3 DEF State
      <3> QED  BY <1>3, <2>1, <3>1
    <2> QED  BY <2>1, <2>2, <2>3
  <1>9. CASE Decide(g)
    <2>1. /\ UNCHANGED asked /\ pc[g] = "found" /\ State(g) = "asked"
          /\ pc'[g] = IF Expired(s, held[g]) THEN "expired" ELSE "session"
      BY <1>2, <1>9 DEF Decide, Goto, State, history
    <2>2. CASE Expired(s, held[g])
      <3>1. State(g)' = "null"
        BY <2>1, <2>2 DEF State
      <3> QED  BY <1>4, <2>1, <3>1
    <2>3. CASE ~Expired(s, held[g])
      <3>1. State(g)' = "session"
        BY <2>1, <2>3 DEF State
      <3>2. asked[g].gone => s \in Over
        BY <1>2, <2>1 DEF GetInv
      <3>3. ~asked[g].over
        <4>1. s \notin Over
          BY <2>3 DEF Expired, Over
        <4> QED  BY <1>2, <4>1 DEF GetInv
      <3>4. Promise!Answer(g)
        BY <1>1, <2>1, <3>1, <3>2, <3>3 DEF Promise!Answer, state
      <3> QED  BY <3>4 DEF Promise!Next
    <2> QED  BY <2>2, <2>3
  <1>10. CASE DeleteExpired(g) \/ BeginTouch(g) \/ Update(g)
    <2>1. UNCHANGED asked /\ State(g)' = State(g)
      BY <1>2, <1>10 DEF DeleteExpired, BeginTouch, Update, Goto, State, history
    <2> QED  BY <1>3, <2>1
  <1> QED
    BY <1>5, <1>6, <1>7, <1>8, <1>9, <1>10, Zenon DEF Get

\* What a revocation's step leaves alone; it may return.
LEMMA RevokeFrame ==
    ASSUME TypeOK, NEW x \in Revokers, Revoke(x)
    PROVE  /\ UNCHANGED <<made, Over, state, asked>>
           /\ pc'[x] \notin {"out", "done"} => Returned' = Returned \ {x}
           /\ pc'[x] \in {"out", "done"} => Returned' = Returned \cup {x}
  <1>1. /\ pc \in [Calls -> PcOfGet \cup PcOfRevoker] /\ x \in Calls /\ x \notin Gets
        /\ Revokers \subseteq Calls /\ Gets \subseteq Calls
    BY SetsAssumption DEF TypeOK, Calls
  <1>2. \A c \in Calls : c # x => pc'[c] = pc[c]
    BY <1>1 DEF Revoke, BeginRevokeAll, MarkUser, DeleteAll, BeginRevoke, LookUp, Bury,
                Delete, Goto
  <1>3. UNCHANGED <<clock, createdAt, made, asked>>
    BY RevokeLeaves
  <1>4. UNCHANGED Over
    BY <1>3 DEF Over, Abs
  <1>5. \A g \in Gets : State(g)' = State(g)
    BY <1>1, <1>2 DEF State
  <1> QED  BY <1>1, <1>2, <1>3, <1>4, <1>5 DEF state, Returned

LEMMA RevokeImplements ==
    ASSUME TypeOK, SqlInv, NEW x \in Revokers, Revoke(x)
    PROVE  [Promise!Next]_(Promise!vars)
  <1>1. /\ pc \in [Calls -> PcOfGet \cup PcOfRevoker] /\ x \in Calls
        /\ reach \in [Revokers -> SUBSET Sids] /\ RevokerInv(x)
    BY DEF TypeOK, Calls, SqlInv
  <1>2. /\ UNCHANGED <<made, Over, state, asked>>
        /\ pc'[x] \notin {"out", "done"} => Returned' = Returned \ {x}
        /\ pc'[x] \in {"out", "done"} => Returned' = Returned \cup {x}
    BY RevokeFrame
  <1>3. pc[x] \notin {"out", "done"} => x \notin Returned
    BY DEF Returned
  \* Three kinds of step: under way, beginning, returning.
  <1>4. ASSUME pc[x] \notin {"out", "done"}, pc'[x] \notin {"out", "done"}, UNCHANGED reach
        PROVE  UNCHANGED Promise!vars
    <2>1. UNCHANGED Returned
      BY <1>2, <1>3, <1>4
    <2>2. UNCHANGED Gone
      BY <1>4, <2>1 DEF Gone
    <2> QED  BY <1>2, <1>4, <2>1, <2>2, PromiseStutters
  <1>5. ASSUME NEW S \in {made} \cup {{s} : s \in made},
               pc[x] = "idle", pc'[x] \notin {"out", "done"},
               reach' = [reach EXCEPT ![x] = S]
        PROVE  Promise!Next
    <2>1. UNCHANGED Returned /\ x \notin Returned
      BY <1>2, <1>3, <1>5
    <2>2. reach[x] = {}
      BY <1>1, <1>5 DEF RevokerInv
    <2>3. UNCHANGED Gone
      <3>1. \A y \in Returned : reach'[y] = reach[y]
        BY <1>1, <1>5, <2>1 DEF Returned
      <3>2. {reach'[y] : y \in Returned} = {reach[y] : y \in Returned}
        BY <3>1, Zenon
      <3> QED  BY <2>1, <3>2 DEF Gone
    <2>4. Promise!BeginRevoke(x)
      BY <1>2, <1>5, <2>1, <2>2, <2>3 DEF Promise!BeginRevoke, state
    <2> QED  BY <2>4 DEF Promise!Next
  <1>6. ASSUME pc[x] \notin {"out", "done"}, pc'[x] \in {"out", "done"}, UNCHANGED reach
        PROVE  Promise!Next
    <2>1. Returned' = Returned \cup {x} /\ x \notin Returned
      BY <1>2, <1>3, <1>6
    <2>2. Gone' = UNION {reach[y] : y \in Returned \cup {x}}
      BY <1>6, <2>1 DEF Gone
    <2>3. Gone' = Gone \cup reach[x]
      BY <2>2 DEF Gone
    <2>4. Promise!ReturnRevoke(x)
      BY <1>2, <1>6, <2>1, <2>3 DEF Promise!ReturnRevoke, state
    <2> QED  BY <2>4 DEF Promise!Next
  <1>7. CASE BeginRevokeAll(x)
    <2>1. /\ pc[x] = "idle" /\ pc'[x] \notin {"out", "done"}
          /\ reach' = [reach EXCEPT ![x] = made]
      BY <1>1, <1>7 DEF BeginRevokeAll, Goto
    <2> QED  BY <1>5, <2>1
  <1>8. ASSUME NEW s \in Sids, BeginRevoke(x, s) PROVE Promise!Next
    <2>1. /\ pc[x] = "idle" /\ pc'[x] \notin {"out", "done"} /\ s \in made
          /\ reach' = [reach EXCEPT ![x] = {s}]
      BY <1>1, <1>8 DEF BeginRevoke, Goto
    <2>2. {s} \in {made} \cup {{q} : q \in made}
      BY <2>1
    <2> QED  BY <1>5, <2>1, <2>2
  <1>9. ASSUME \/ MarkUser(x) \/ DeleteAll(x)
               \/ \E s \in Sids : LookUp(x, s) \/ Bury(x, s) \/ Delete(x, s)
        PROVE  [Promise!Next]_(Promise!vars)
    <2>1. pc[x] \notin {"out", "done"} /\ UNCHANGED reach
      BY <1>9 DEF MarkUser, DeleteAll, LookUp, Bury, Delete, Goto, history
    <2> QED  BY <1>4, <1>6, <2>1
  <1> QED  BY <1>7, <1>8, <1>9, Zenon DEF Revoke

LEMMA CreateImplements ==
    ASSUME TypeOK, NEW s \in Sids, BeginCreate(s) \/ Insert(s)
    PROVE  [Promise!Next]_(Promise!vars)
  <1>1. /\ UNCHANGED <<clock, pc, asked, reach>>
        /\ clock \in Nat /\ createdAt \in [Sids -> 0..clock]
    BY CreateLeaves, TypeParts, Numbers DEF Rest
  <1>2. UNCHANGED <<state, Returned, Gone>>
    BY <1>1 DEF state, State, Returned, Gone
  <1>3. CASE BeginCreate(s)
    <2>1. UNCHANGED made /\ createdAt[s] = 0 /\ createdAt' = [createdAt EXCEPT ![s] = clock]
      BY <1>3 DEF BeginCreate
    <2>2. UNCHANGED Over
      <3>1. \A q \in Sids : q # s => createdAt'[q] = createdAt[q]
        BY <1>1, <2>1
      <3>2. createdAt'[s] = clock /\ ~(clock >= clock + AbsoluteTtl)
        BY <1>1, <2>1, Ttls
      <3> QED  BY <1>1, <2>1, <3>1, <3>2 DEF Over, Abs
    <2> QED  BY <1>1, <1>2, <2>1, <2>2, PromiseStutters
  <1>4. CASE Insert(s)
    <2>1. UNCHANGED Over
      BY <1>1, <1>4 DEF Insert, Over, Abs
    <2>2. Promise!Create(s)
      BY <1>1, <1>2, <1>4, <2>1 DEF Insert, Promise!Create, state
    <2> QED  BY <2>2 DEF Promise!Next
  <1> QED  BY <1>3, <1>4

LEMMA ThrowImplements ==
    ASSUME TypeOK, NEW c \in Calls, Throw(c)
    PROVE  [Promise!Next]_(Promise!vars)
  <1>1. /\ pc \in [Calls -> PcOfGet \cup PcOfRevoker]
        /\ Calls = Gets \cup Revokers /\ Gets \cap Revokers = {}
        /\ \A h \in Gets : pc[h] \in PcOfGet
    BY SetsAssumption DEF TypeOK, Calls
  <1>2. UNCHANGED <<clock, createdAt, made, asked, reach>>
    BY RestLeaves DEF Throw
  <1>3. UNCHANGED Over
    BY <1>2 DEF Over, Abs
  <1>4. /\ pc[c] \notin {"out", "done"} /\ pc'[c] \notin {"out", "done"}
        /\ \A b \in Calls : b # c => pc'[b] = pc[b]
    BY <1>1 DEF Throw
  <1>5. UNCHANGED Returned
    BY <1>1, <1>4 DEF Returned
  <1>6. UNCHANGED Gone
    BY <1>2, <1>5 DEF Gone
  <1>7. \A h \in Gets : h # c => State(h)' = State(h)
    BY <1>1, <1>4 DEF State
  <1>8. CASE c \in Gets /\ pc[c] \in {"asked", "check"}
    <2>1. State(c) = "asked" /\ State(c)' = "null"
      BY <1>1, <1>8 DEF Throw, State
    <2>2. Promise!Refuse(c)
      BY <1>2, <1>3, <1>5, <1>6, <1>7, <1>8, <2>1 DEF Promise!Refuse, state
    <2> QED  BY <1>8, <2>2 DEF Promise!Next
  <1>9. CASE ~(c \in Gets /\ pc[c] \in {"asked", "check"})
    <2>1. \A h \in Gets : State(h)' = State(h)
      BY <1>1, <1>7, <1>9 DEF Throw, State, PcOfGet
    <2>2. UNCHANGED state
      BY <2>1 DEF state
    <2> QED  BY <1>2, <1>3, <1>5, <1>6, <2>2, PromiseStutters
  <1> QED  BY <1>8, <1>9

LEMMA StepImplements ==
    TypeOK /\ SqlInv /\ [Next]_vars => [Promise!Next]_(Promise!vars)
  <1> SUFFICES ASSUME TypeOK, SqlInv, [Next]_vars PROVE [Promise!Next]_(Promise!vars)
    OBVIOUS
  <1>1. CASE Tick
    <2>1. UNCHANGED <<pc, made, asked, reach>>
      BY <1>1 DEF Tick, sessions, history
    <2>2. UNCHANGED <<state, Returned, Gone>>
      BY <2>1 DEF state, State, Returned, Gone
    <2>3. Over \subseteq Over' /\ Over' \subseteq Sids
      BY OverStays DEF Over
    <2>4. Promise!End
      BY <2>1, <2>2, <2>3 DEF Promise!End, state
    <2> QED  BY <2>4 DEF Promise!Next
  <1>2. CASE Cleanup \/ CleanupList \/ UNCHANGED vars
    <2>1. UNCHANGED <<clock, createdAt, made, pc, asked, reach>>
      BY <1>2 DEF Cleanup, CleanupList, vars, sessions, history
    <2>2. UNCHANGED <<state, Returned, Gone, Over>>
      BY <2>1 DEF state, State, Returned, Gone, Over, Abs
    <2> QED  BY <2>1, <2>2, PromiseStutters
  <1> QED
    BY <1>1, <1>2, GetImplements, RevokeImplements, CreateImplements, ThrowImplements, Zenon
    DEF Next

(***************************************************************************)
(* The D1 and Postgres stores implement SessionStore: no get that began    *)
(* after a revoke or a revokeAllForUser returned answers a session it      *)
(* reached, and none that began after its absolute expiry; with a shared   *)
(* list this includes the revokeAllForUser of the store beside it.         *)
(***************************************************************************)
THEOREM SqlStoresKeepTheirPromise == Spec => Implements
  BY PromiseInit, StepImplements, SqlInvariant, PTL DEF Spec, Implements, Promise!Spec
=============================================================================
