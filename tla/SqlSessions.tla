------------------------------ MODULE SqlSessions ------------------------------
(***************************************************************************)
(* The session stores on a table: d1SessionStore (src/src/store/d1.ts) and *)
(* pgSessionStore (store/pg/session.ts), under concurrent requests of one  *)
(* user's sessions.  Both run single statements on a strongly consistent   *)
(* database: a statement is one step, and every await a step boundary.     *)
(*                                                                         *)
(* D1 may share a revocation list with a KV store beside it; then that     *)
(* store's revokeAllForUser reaches the sessions of this one too.          *)
(*                                                                         *)
(* Postgres runs a statement again after a serialization failure or a      *)
(* deadlock (executor.ts, retryOnce).  Either one undoes the first run, so *)
(* the second is the step, and the first is none.  After any other error   *)
(* the statement may have taken effect, and the call rejects.              *)
(***************************************************************************)
EXTENDS Integers

CONSTANTS
    Sids, Gets, Revokers,
    AbsoluteTtl, IdleTtl, TouchInterval, MaxSessionLifetime,
    MaxTime  \* bound of the clock, for TLC

Times == Nat \ {0}

\* As for KvSessions.
ASSUME TtlAssumption ==
    /\ {AbsoluteTtl, IdleTtl, MaxSessionLifetime} \subseteq Times
    /\ {TouchInterval, MaxTime} \subseteq Nat
    /\ IdleTtl <= AbsoluteTtl
    /\ AbsoluteTtl <= MaxSessionLifetime

ASSUME SetsAssumption == Gets \cap Revokers = {}

VARIABLES
    clock,
    store,          \* "d1", "d1 with list" or "pg"
    createdAt,      \* time of create's clock reading, 0 before
    made,           \* the sessions whose create has returned
    row,            \* auth_sessions: last_seen_at and idle_expires_at
    tombstone,      \* auth_revocations: expires_at, 0 without a row
    revokedBefore,  \* auth_user_revocations of the user, 0 without a row
    pc,             \* where each call is
    at,             \* the clock a get or its touch has read
    held,           \* the row a get has read
    bound,          \* the expiry or cutoff a revocation is about to write
    asked,          \* history: a get's session, and what held of it at the start
    reach           \* history: the sessions a revocation must reach

lists == <<tombstone, revokedBefore>>
locals == <<at, held, bound>>
history == <<asked, reach>>
sessions == <<createdAt, made>>
vars == <<clock, store, sessions, row, lists, pc, locals, history>>

NoRow == [seen |-> 0, idle |-> 0]
List == store = "d1 with list"
Calls == Gets \cup Revokers

Larger(a, b) == IF a >= b THEN a ELSE b
Smaller(a, b) == IF a <= b THEN a ELSE b

Abs(s) == createdAt[s] + AbsoluteTtl
Over == {s \in Sids : createdAt[s] # 0 /\ clock >= Abs(s)}

IsRevoked(s, t) == tombstone[s] > t \/ revokedBefore > createdAt[s]

Returned == {x \in Revokers : pc[x] \in {"out", "done"}}
Gone == UNION {reach[x] : x \in Returned}

Init ==
    /\ clock = 1
    /\ store \in {"d1", "d1 with list", "pg"}
    /\ createdAt = [s \in Sids |-> 0]
    /\ made = {}
    /\ row = [s \in Sids |-> NoRow]
    /\ tombstone = [s \in Sids |-> 0]
    /\ revokedBefore = 0
    /\ pc = [c \in Calls |-> "idle"]
    /\ at = [g \in Gets |-> 0]
    /\ held = [g \in Gets |-> NoRow]
    /\ bound = [x \in Revokers |-> 0]
    /\ asked \in [Gets -> {[sid |-> s, gone |-> FALSE, over |-> FALSE] : s \in Sids}]
    /\ reach = [x \in Revokers |-> {}]

Goto(c, from, to) ==
    /\ pc[c] = from
    /\ pc' = [pc EXCEPT ![c] = to]

---------------------------------------------------------------------------
\* create

BeginCreate(s) ==
    /\ createdAt[s] = 0
    /\ createdAt' = [createdAt EXCEPT ![s] = clock]
    /\ UNCHANGED <<clock, store, made, row, lists, pc, locals, history>>

Insert(s) ==
    /\ createdAt[s] # 0
    /\ s \notin made
    /\ row' = [row EXCEPT ![s] =
           [seen |-> createdAt[s], idle |-> Smaller(createdAt[s] + IdleTtl, Abs(s))]]
    /\ made' = made \cup {s}
    /\ UNCHANGED <<clock, store, createdAt, lists, pc, locals, history>>

---------------------------------------------------------------------------
\* get

AskGet(g) ==
    /\ Goto(g, "idle", "asked")
    /\ asked' = [asked EXCEPT ![g].gone = asked[g].sid \in Gone,
                              ![g].over = asked[g].sid \in Over]
    /\ UNCHANGED <<clock, store, sessions, row, lists, locals, reach>>

FindNothing(g) ==
    /\ row[asked[g].sid] = NoRow
    /\ Goto(g, "asked", "null")
    /\ UNCHANGED <<clock, store, sessions, row, lists, locals, history>>

FindRow(g) ==
    /\ row[asked[g].sid] # NoRow
    /\ Goto(g, "asked", IF List THEN "check" ELSE "found")
    /\ held' = [held EXCEPT ![g] = row[asked[g].sid]]
    /\ at' = [at EXCEPT ![g] = clock]
    /\ UNCHANGED <<clock, store, sessions, row, lists, bound, history>>

\* The query carries a clock read since the row was.
CheckRevoked(g) ==
    /\ \E t \in at[g]..clock :
           Goto(g, "check", IF IsRevoked(asked[g].sid, t) THEN "null" ELSE "found")
    /\ UNCHANGED <<clock, store, sessions, row, lists, locals, history>>

Expired(s, r) == clock >= r.idle \/ clock >= Abs(s)

Decide(g) ==
    /\ Goto(g, "found", IF Expired(asked[g].sid, held[g]) THEN "expired" ELSE "session")
    /\ at' = [at EXCEPT ![g] = clock]
    /\ UNCHANGED <<clock, store, sessions, row, lists, held, bound, history>>

\* Awaited, or left to waitUntil: the answer is null already.
DeleteExpired(g) ==
    /\ Goto(g, "expired", "null")
    /\ row' = [row EXCEPT ![asked[g].sid] = NoRow]
    /\ UNCHANGED <<clock, store, sessions, lists, locals, history>>

---------------------------------------------------------------------------
\* The middleware's touch, of a session not seen for a while.

BeginTouch(g) ==
    /\ clock - held[g].seen >= TouchInterval
    /\ Goto(g, "session", "touch")
    /\ at' = [at EXCEPT ![g] = clock]
    /\ UNCHANGED <<clock, store, sessions, row, lists, held, bound, history>>

\* The UPDATE's WHERE, with the clock t that touch has read.
TouchableMutant(s, t) == row[s] # NoRow
Touchable(s, t) == row[s] # NoRow /\ row[s].idle > t /\ Abs(s) > t

TouchedRowMutant(s, t, idle) == [seen |-> t, idle |-> idle]
TouchedRow(s, t, idle) == [seen |-> t, idle |-> Smaller(idle, Abs(s))]

\* The window asked for counts from the middleware's clock, an earlier reading.
Update(g) ==
    LET s == asked[g].sid IN
    /\ Goto(g, "touch", "touched")
    /\ \E t \in at[g]..clock :
           row' = IF Touchable(s, t)
                    THEN [row EXCEPT ![s] = TouchedRow(s, t, at[g] + IdleTtl)]
                    ELSE row
    /\ UNCHANGED <<clock, store, sessions, lists, locals, history>>

---------------------------------------------------------------------------
\* revoke

BeginRevoke(x, s) ==
    /\ s \in made
    /\ Goto(x, "idle", IF List THEN "look" ELSE "delete")
    /\ reach' = [reach EXCEPT ![x] = {s}]
    /\ UNCHANGED <<clock, store, sessions, row, lists, locals, asked>>

\* Only a row that is there is worth a tombstone.
LookUp(x, s) ==
    /\ reach[x] = {s}
    /\ Goto(x, "look", IF row[s] = NoRow THEN "delete" ELSE "bury")
    /\ UNCHANGED <<clock, store, sessions, row, lists, locals, history>>

Bury(x, s) ==
    /\ reach[x] = {s}
    /\ Goto(x, "bury", "delete")
    /\ tombstone' = [tombstone EXCEPT ![s] = Larger(@, Abs(s))]
    /\ UNCHANGED <<clock, store, sessions, row, revokedBefore, locals, history>>

\* A lost answer leaves a row deleted and the caller with an error.
Delete(x, s) ==
    /\ reach[x] = {s}
    /\ \E to \in {"out", "null"} : Goto(x, "delete", to)
    /\ row' = [row EXCEPT ![s] = NoRow]
    /\ UNCHANGED <<clock, store, sessions, lists, locals, history>>

---------------------------------------------------------------------------
\* revokeAllForUser, of this store or of the KV store that shares the list

CutoffMutant == clock
Cutoff == clock + 1

BeginRevokeAll(x) ==
    /\ \E to \in IF List THEN {"mark", "mark elsewhere"} ELSE {"delete all"} :
           Goto(x, "idle", to)
    /\ reach' = [reach EXCEPT ![x] = made]
    /\ bound' = [bound EXCEPT ![x] = Cutoff]
    /\ UNCHANGED <<clock, store, sessions, row, lists, at, held, asked>>

MarkUser(x) ==
    /\ \/ Goto(x, "mark", "delete all")
       \/ Goto(x, "mark elsewhere", "done")
    /\ revokedBefore' = Larger(revokedBefore, bound[x])
    /\ UNCHANGED <<clock, store, sessions, row, tombstone, locals, history>>

DeleteAll(x) ==
    /\ \E to \in {"done", "null"} : Goto(x, "delete all", to)
    /\ row' = [s \in Sids |-> NoRow]
    /\ UNCHANGED <<clock, store, sessions, lists, locals, history>>

---------------------------------------------------------------------------
\* Cleanups, with a cutoff read some time ago.

LapsedIdle(cutoff) == {s \in Sids : row[s].idle <= cutoff}
LapsedAbsolute(cutoff) == {s \in Sids : Abs(s) <= cutoff}

\* Two deletes: one batch on D1, two statements on Postgres.
Cleanup ==
    /\ \E cutoff \in 1..clock :
         \E gone \in IF store = "pg"
                       THEN {LapsedAbsolute(cutoff), LapsedIdle(cutoff)}
                       ELSE {LapsedAbsolute(cutoff) \cup LapsedIdle(cutoff)} :
             row' = [s \in Sids |-> IF s \in gone THEN NoRow ELSE row[s]]
    /\ row' # row
    /\ UNCHANGED <<clock, store, sessions, lists, pc, locals, history>>

\* revocationList.cleanup
CleanupList ==
    /\ \E cutoff \in 1..clock :
           /\ tombstone' = [s \in Sids |->
                  IF tombstone[s] <= cutoff THEN 0 ELSE tombstone[s]]
           /\ revokedBefore' =
                  IF revokedBefore <= cutoff - MaxSessionLifetime THEN 0 ELSE revokedBefore
    /\ lists' # lists
    /\ UNCHANGED <<clock, store, sessions, row, pc, locals, history>>

\* A statement fails before it takes effect, and its call rejects.
Throw(c) ==
    /\ pc[c] \in {"asked", "check", "expired", "touch", "look", "bury",
                  "delete", "mark", "mark elsewhere", "delete all"}
    /\ pc' = [pc EXCEPT ![c] = IF @ = "touch" THEN "touched" ELSE "null"]
    /\ UNCHANGED <<clock, store, sessions, row, lists, locals, history>>

Tick ==
    /\ clock < MaxTime
    /\ clock' = clock + 1
    /\ UNCHANGED <<store, sessions, row, lists, pc, locals, history>>

Get(g) ==
    \/ AskGet(g) \/ FindNothing(g) \/ FindRow(g) \/ CheckRevoked(g)
    \/ Decide(g) \/ DeleteExpired(g) \/ BeginTouch(g) \/ Update(g)

Revoke(x) ==
    \/ BeginRevokeAll(x) \/ MarkUser(x) \/ DeleteAll(x)
    \/ \E s \in Sids : BeginRevoke(x, s) \/ LookUp(x, s) \/ Bury(x, s) \/ Delete(x, s)

Next ==
    \/ \E s \in Sids : BeginCreate(s) \/ Insert(s)
    \/ \E g \in Gets : Get(g)
    \/ \E x \in Revokers : Revoke(x)
    \/ \E c \in Calls : Throw(c)
    \/ Cleanup
    \/ CleanupList
    \/ Tick

Spec == Init /\ [][Next]_vars

---------------------------------------------------------------------------
PcOfGet == {"idle", "asked", "check", "found", "expired", "session", "touch", "touched", "null"}
PcOfRevoker == {"idle", "look", "bury", "delete", "out",
                "mark", "mark elsewhere", "delete all", "done", "null"}

(* Types; a row's idle window never reaches past its absolute lifetime, nor  *)
(* further than a window from its last use (the MIN of touch and create).    *)
TypeOK ==
    /\ clock \in Times
    /\ store \in {"d1", "d1 with list", "pg"}
    /\ createdAt \in [Sids -> 0..clock]
    /\ made \subseteq Sids
    /\ row \in [Sids -> [seen : 0..clock, idle : Nat]]
    /\ \A s \in Sids : row[s] # NoRow =>
           /\ s \in made
           /\ row[s].idle <= Abs(s)
           /\ row[s].idle <= row[s].seen + IdleTtl
    /\ tombstone \in [Sids -> Nat]
    /\ revokedBefore \in Nat
    /\ pc \in [Calls -> PcOfGet \cup PcOfRevoker]
    /\ \A g \in Gets : pc[g] \in PcOfGet
    /\ \A x \in Revokers : pc[x] \in PcOfRevoker
    /\ at \in [Gets -> 0..clock]
    /\ held \in [Gets -> [seen : 0..clock, idle : Nat]]
    /\ bound \in [Revokers -> Nat]
    /\ asked \in [Gets -> [sid : Sids, gone : BOOLEAN, over : BOOLEAN]]
    /\ reach \in [Revokers -> SUBSET Sids]

(* Both stores keep the promise of SessionStore, and D1 with a shared list   *)
(* keeps it for a revokeAllForUser of the other store too ("log out          *)
(* everywhere reaches sessions in both stores regardless of which store's    *)
(* revokeAllForUser() triggered it", d1.ts).                                 *)
State(g) ==
    CASE pc[g] = "idle" -> "idle"
      [] pc[g] \in {"asked", "check", "found"} -> "asked"
      [] pc[g] \in {"session", "touch", "touched"} -> "session"
      [] pc[g] \in {"expired", "null"} -> "null"

Promise == INSTANCE SessionStore WITH
    known <- made,
    over <- Over,
    gone <- Gone,
    covers <- reach,
    state <- [g \in Gets |-> State(g)],
    asked <- asked,
    returned <- Returned

Implements == Promise!Spec

(* A session whose window has run out stays out: only a touch sent while the *)
(* window was open may still extend it, and none can bring a deleted row     *)
(* back (the WHERE of touch).                                                *)
Extending(s) == \E g \in Gets :
    pc[g] = "touch" /\ asked[g].sid = s /\ at[g] < row[s].idle

NoRevival ==
    [][\A s \in made :
           (clock >= row[s].idle /\ ~Extending(s)) => row'[s] \in {row[s], NoRow}]_vars
=============================================================================
