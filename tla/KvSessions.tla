------------------------------- MODULE KvSessions -------------------------------
(***************************************************************************)
(* The KV session store (src/src/store/kv.ts) with the D1 revocation list  *)
(* (store/revocation.ts), under concurrent requests of one user's sessions.*)
(*                                                                         *)
(* KV is eventually consistent: a read may return any value a key has had  *)
(* since the last time its replicas agreed.  A key is [now, reads]: the    *)
(* value of the last write, and the values a read may still return.        *)
(* The revocation list is strongly consistent.                             *)
(*                                                                         *)
(* A get that is a middleware request goes on to touch the session.  Every *)
(* await is a step boundary; a call may throw at any of them.              *)
(***************************************************************************)
EXTENDS Integers, FiniteSets

CONSTANTS
    Sids, Gets, Revokers, Isolates,
    AbsoluteTtl, IdleTtl, TouchInterval, TouchThrottle, TouchGuardMax,
    TombstoneFallback, MaxSessionLifetime,
    MaxTime  \* bound of the clock, for TLC

Times == Nat \ {0}

\* resolveSessionConfig refuses an absolute lifetime below the idle one;
\* maxSessionLifetimeSec is to be the longest lifetime configured (SECURITY.md);
\* the fallback horizon's default, 30 days, is the default lifetime.
ASSUME TtlAssumption ==
    /\ {AbsoluteTtl, IdleTtl, MaxSessionLifetime, TombstoneFallback} \subseteq Times
    /\ TouchGuardMax \in Nat \ {0}
    /\ {TouchInterval, TouchThrottle, MaxTime} \subseteq Nat
    /\ IdleTtl <= AbsoluteTtl
    /\ AbsoluteTtl <= MaxSessionLifetime
    /\ AbsoluteTtl <= TombstoneFallback

ASSUME SetsAssumption == IsFiniteSet(Sids) /\ Gets \cap Revokers = {}

VARIABLES
    clock,
    list,           \* is a revocation list configured?
    createdAt,      \* time of create's clock reading, 0 before
    made,           \* the sessions whose create has returned
    record,         \* the key sess:<sid>: is the record there?
    marker,         \* the key seen:<sid>: time of the last touch, or NoMarker
    tombstone,      \* auth_revocations: expires_at, 0 without a row
    revokedBefore,  \* auth_user_revocations of the user, 0 without a row
    touchGuard,     \* per isolate: time of the last marker write, 0 if none
    pc,             \* where each call is
    at,             \* the clock a get or its touch has read
    seen,           \* lastSeenAt of the session a get has found
    bound,          \* the expiry or cutoff a revocation is about to write
    asked,          \* history: a get's session, and what held of it at the start
    told,           \* history: had another get just found the session expired?
    reach           \* history: the sessions a revocation must reach

keys == <<record, marker>>
rows == <<tombstone, revokedBefore>>
locals == <<at, seen, bound>>
history == <<asked, told, reach>>
sessions == <<createdAt, made>>
vars == <<clock, list, sessions, keys, rows, touchGuard, pc, locals, history>>

NoMarker == 0
Calls == Gets \cup Revokers

---------------------------------------------------------------------------
\* Workers KV.

Key(v) == [now |-> v, reads |-> {v}]
Written(key, v) == [now |-> v, reads |-> key.reads \cup {v}]

Forget(s) ==
    /\ record' = [record EXCEPT ![s] = Written(@, FALSE)]
    /\ marker' = [marker EXCEPT ![s] = Written(@, NoMarker)]

---------------------------------------------------------------------------
Abs(s) == createdAt[s] + AbsoluteTtl
Over == {s \in Sids : createdAt[s] # 0 /\ clock >= Abs(s)}

LastSeen(s, m) == IF m = NoMarker THEN createdAt[s] ELSE m

\* The idle window is clamped to the absolute one by asking about both.
Expired(s, m) == clock >= Abs(s) \/ clock >= LastSeen(s, m) + IdleTtl

IsRevoked(s, t) == tombstone[s] > t \/ revokedBefore > createdAt[s]

Larger(a, b) == IF a >= b THEN a ELSE b

\* The sessions isolate i remembers a marker write of.
Guarded(i) == {s \in Sids : touchGuard[i][s] # 0}

Returned == {x \in Revokers : pc[x] \in {"out", "done"}}
Gone == IF list THEN UNION {reach[x] : x \in Returned} ELSE {}

Init ==
    /\ clock = 1
    /\ list \in BOOLEAN
    /\ createdAt = [s \in Sids |-> 0]
    /\ made = {}
    /\ record = [s \in Sids |-> Key(FALSE)]
    /\ marker = [s \in Sids |-> Key(NoMarker)]
    /\ tombstone = [s \in Sids |-> 0]
    /\ revokedBefore = 0
    /\ touchGuard = [i \in Isolates |-> [s \in Sids |-> 0]]
    /\ pc = [c \in Calls |-> "idle"]
    /\ at = [g \in Gets |-> 0]
    /\ seen = [g \in Gets |-> 0]
    /\ bound = [x \in Revokers |-> 0]
    /\ asked \in [Gets -> {[sid |-> s, gone |-> FALSE, over |-> FALSE] : s \in Sids}]
    /\ told = [g \in Gets |-> FALSE]
    /\ reach = [x \in Revokers |-> {}]

---------------------------------------------------------------------------
\* create

BeginCreate(s) ==
    /\ createdAt[s] = 0
    /\ createdAt' = [createdAt EXCEPT ![s] = clock]
    /\ UNCHANGED <<clock, list, made, keys, rows, touchGuard, pc, locals, history>>

PutRecord(s) ==
    /\ createdAt[s] # 0
    /\ s \notin made
    /\ record' = [record EXCEPT ![s] = Written(@, TRUE)]
    /\ made' = made \cup {s}
    /\ UNCHANGED <<clock, list, createdAt, marker, rows, touchGuard, pc, locals, history>>

---------------------------------------------------------------------------
\* get, and the middleware's touch

Goto(c, from, to) ==
    /\ pc[c] = from
    /\ pc' = [pc EXCEPT ![c] = to]

AskGet(g) ==
    /\ Goto(g, "idle", "asked")
    /\ asked' = [asked EXCEPT ![g].gone = asked[g].sid \in Gone,
                              ![g].over = asked[g].sid \in Over]
    /\ told' = [told EXCEPT ![g] =
           \E h \in Gets : pc[h] = "expired" /\ asked[h].sid = asked[g].sid]
    /\ UNCHANGED <<clock, list, sessions, keys, rows, touchGuard, locals, reach>>

\* The two keys are read together.
FindNothing(g) ==
    /\ FALSE \in record[asked[g].sid].reads
    /\ Goto(g, "asked", "null")
    /\ UNCHANGED <<clock, list, sessions, keys, rows, touchGuard, locals, history>>

FindExpired(g) ==
    LET s == asked[g].sid IN
    /\ TRUE \in record[s].reads
    /\ \E m \in marker[s].reads : Expired(s, m)
    /\ Goto(g, "asked", "expired")
    /\ UNCHANGED <<clock, list, sessions, keys, rows, touchGuard, locals, history>>

FindLive(g) ==
    LET s == asked[g].sid IN
    /\ TRUE \in record[s].reads
    /\ \E m \in marker[s].reads :
           /\ ~Expired(s, m)
           /\ seen' = [seen EXCEPT ![g] = LastSeen(s, m)]
    /\ at' = [at EXCEPT ![g] = clock]
    /\ Goto(g, "asked", IF list THEN "check" ELSE "session")
    /\ UNCHANGED <<clock, list, sessions, keys, rows, touchGuard, bound, history>>

\* The query carries the clock read with the record.
CheckRevoked(g) ==
    /\ Goto(g, "check",
           IF IsRevoked(asked[g].sid, at[g]) THEN "null" ELSE "session")
    /\ UNCHANGED <<clock, list, sessions, keys, rows, touchGuard, locals, history>>

\* Awaited, or left to waitUntil: the answer is null already.
ForgetExpired(g) ==
    /\ Goto(g, "expired", "null")
    /\ Forget(asked[g].sid)
    /\ UNCHANGED <<clock, list, sessions, rows, touchGuard, locals, history>>

\* The middleware slides the window of a session not seen for a while.
TouchDue(g) == clock - seen[g] >= TouchInterval

\* touch, in isolate i.
BeginTouch(g, i) ==
    LET s == asked[g].sid
        last == touchGuard[i][s]
        full == Cardinality(Guarded(i)) >= TouchGuardMax
    IN
    /\ TouchDue(g)
    /\ last = 0 \/ clock - last >= TouchThrottle
    /\ touchGuard' = [touchGuard EXCEPT ![i] =
           [q \in Sids |-> IF q = s THEN clock ELSE IF full THEN 0 ELSE @[q]]]
    /\ at' = [at EXCEPT ![g] = clock]
    /\ Goto(g, "session", "touch")
    /\ UNCHANGED <<clock, list, sessions, keys, rows, seen, bound, history>>

\* What the marker says was the last time the session was seen.
SeenAtMutant(g) == at[g] + IdleTtl
SeenAt(g) == at[g]

\* One blind write, to the marker and never to the record.
PutMarkerMutant(g) ==
    LET s == asked[g].sid IN
    /\ Goto(g, "touch", "touched")
    /\ marker' = [marker EXCEPT ![s] = Written(@, SeenAt(g))]
    /\ record' = [record EXCEPT ![s] = Written(@, TRUE)]
    /\ UNCHANGED <<clock, list, sessions, rows, touchGuard, locals, history>>
PutMarker(g) ==
    LET s == asked[g].sid IN
    /\ Goto(g, "touch", "touched")
    /\ marker' = [marker EXCEPT ![s] = Written(@, SeenAt(g))]
    /\ UNCHANGED <<clock, list, sessions, record, rows, touchGuard, locals, history>>

---------------------------------------------------------------------------
\* revoke

BeginRevoke(x, s) ==
    /\ s \in made
    /\ Goto(x, "idle", "look")
    /\ reach' = [reach EXCEPT ![x] = {s}]
    /\ UNCHANGED <<clock, list, sessions, keys, rows, touchGuard, locals, asked, told>>

\* A record not visible yet gets a tombstone that lasts long enough.
LookUp(x, s) ==
    /\ reach[x] = {s}
    /\ \E there \in record[s].reads :
           bound' = [bound EXCEPT ![x] =
               IF there THEN Abs(s) ELSE clock + TombstoneFallback]
    /\ Goto(x, "look", IF list THEN "bury" ELSE "forget")
    /\ UNCHANGED <<clock, list, sessions, keys, rows, touchGuard, at, seen, history>>

Bury(x, s) ==
    /\ reach[x] = {s}
    /\ Goto(x, "bury", "forget")
    /\ tombstone' = [tombstone EXCEPT ![s] = Larger(@, bound[x])]
    /\ UNCHANGED <<clock, list, sessions, keys, revokedBefore, touchGuard, locals, history>>

ForgetRevoked(x, s) ==
    /\ reach[x] = {s}
    /\ Goto(x, "forget", "out")
    /\ Forget(s)
    /\ UNCHANGED <<clock, list, sessions, rows, touchGuard, locals, history>>

---------------------------------------------------------------------------
\* revokeAllForUser

\* A session created in this very millisecond is caught too.
CutoffMutant == clock
Cutoff == clock + 1

BeginRevokeAll(x) ==
    /\ Goto(x, "idle", IF list THEN "mark" ELSE "done")
    /\ reach' = [reach EXCEPT ![x] = made]
    /\ bound' = [bound EXCEPT ![x] = Cutoff]
    /\ UNCHANGED <<clock, list, sessions, keys, rows, touchGuard, at, seen, asked, told>>

MarkUser(x) ==
    /\ Goto(x, "mark", "done")
    /\ revokedBefore' = Larger(revokedBefore, bound[x])
    /\ UNCHANGED <<clock, list, sessions, keys, tombstone, touchGuard, locals, history>>

---------------------------------------------------------------------------
\* The list's cleanup, with a cutoff read some time ago.
Cleanup ==
    /\ list
    /\ \E cutoff \in 1..clock :
           /\ tombstone' = [s \in Sids |->
                  IF tombstone[s] <= cutoff THEN 0 ELSE tombstone[s]]
           /\ revokedBefore' =
                  IF revokedBefore <= cutoff - MaxSessionLifetime THEN 0 ELSE revokedBefore
    /\ rows' # rows
    /\ UNCHANGED <<clock, list, sessions, keys, touchGuard, pc, locals, history>>

\* KV deletes a key some time after its expirationTtl.
ExpireRecord(s) ==
    /\ s \in Over
    /\ record[s].now
    /\ record' = [record EXCEPT ![s] = Written(@, FALSE)]
    /\ UNCHANGED <<clock, list, sessions, marker, rows, touchGuard, pc, locals, history>>

ExpireMarker(s) ==
    /\ marker[s].now # NoMarker
    /\ clock >= marker[s].now + IdleTtl
    /\ marker' = [marker EXCEPT ![s] = Written(@, NoMarker)]
    /\ UNCHANGED <<clock, list, sessions, record, rows, touchGuard, pc, locals, history>>

\* KV's replicas agree on a key.
PropagateRecord(s) ==
    /\ record[s].reads # {record[s].now}
    /\ record' = [record EXCEPT ![s] = Key(@.now)]
    /\ UNCHANGED <<clock, list, sessions, marker, rows, touchGuard, pc, locals, history>>

PropagateMarker(s) ==
    /\ marker[s].reads # {marker[s].now}
    /\ marker' = [marker EXCEPT ![s] = Key(@.now)]
    /\ UNCHANGED <<clock, list, sessions, record, rows, touchGuard, pc, locals, history>>

\* A call to KV or to D1 fails, and the call with it.
Throw(c) ==
    /\ pc[c] \in {"asked", "check", "expired", "touch", "look", "bury", "forget", "mark"}
    /\ pc' = [pc EXCEPT ![c] = IF @ = "touch" THEN "touched" ELSE "null"]
    /\ UNCHANGED <<clock, list, sessions, keys, rows, touchGuard, locals, history>>

Tick ==
    /\ clock < MaxTime
    /\ clock' = clock + 1
    /\ UNCHANGED <<list, sessions, keys, rows, touchGuard, pc, locals, history>>

Get(g) ==
    \/ AskGet(g) \/ FindNothing(g) \/ FindExpired(g) \/ FindLive(g)
    \/ CheckRevoked(g) \/ ForgetExpired(g)
    \/ PutMarker(g) \/ \E i \in Isolates : BeginTouch(g, i)

Revoke(x) ==
    \/ BeginRevokeAll(x) \/ MarkUser(x)
    \/ \E s \in Sids : BeginRevoke(x, s) \/ LookUp(x, s) \/ Bury(x, s) \/ ForgetRevoked(x, s)

Storage(s) ==
    \/ BeginCreate(s) \/ PutRecord(s)
    \/ ExpireRecord(s) \/ ExpireMarker(s)
    \/ PropagateRecord(s) \/ PropagateMarker(s)

Next ==
    \/ \E g \in Gets : Get(g)
    \/ \E x \in Revokers : Revoke(x)
    \/ \E s \in Sids : Storage(s)
    \/ \E c \in Calls : Throw(c)
    \/ Cleanup
    \/ Tick

Spec == Init /\ [][Next]_vars

\* KV's promise is that a key's replicas agree in the end; nothing else is fair.
FairSpec == Spec /\ \A s \in Sids : WF_vars(PropagateRecord(s))

---------------------------------------------------------------------------
(* Types; an isolate's memory of marker writes never outgrows TOUCH_GUARD_MAX *)
(* (kv.ts touch: cleared when full).                                         *)
KeyOf(V) == {k \in [now : V, reads : SUBSET V] : k.now \in k.reads}

PcOfGet ==
    {"idle", "asked", "check", "expired", "session", "touch", "touched", "null"}
PcOfRevoker == {"idle", "look", "bury", "forget", "mark", "out", "done", "null"}

TypeOK ==
    /\ clock \in Times
    /\ list \in BOOLEAN
    /\ createdAt \in [Sids -> 0..clock]
    /\ made \subseteq Sids
    /\ record \in [Sids -> KeyOf(BOOLEAN)]
    /\ marker \in [Sids -> KeyOf(0..clock)]
    /\ tombstone \in [Sids -> Nat]
    /\ revokedBefore \in Nat
    /\ touchGuard \in [Isolates -> [Sids -> Nat]]
    /\ \A i \in Isolates : Cardinality(Guarded(i)) <= TouchGuardMax
    /\ pc \in [Calls -> PcOfGet \cup PcOfRevoker]
    /\ \A g \in Gets : pc[g] \in PcOfGet
    /\ \A x \in Revokers : pc[x] \in PcOfRevoker
    /\ at \in [Gets -> 0..clock]
    /\ seen \in [Gets -> 0..clock]
    /\ bound \in [Revokers -> Nat]
    /\ asked \in [Gets -> [sid : Sids, gone : BOOLEAN, over : BOOLEAN]]
    /\ told \in [Gets -> BOOLEAN]
    /\ reach \in [Revokers -> SUBSET Sids]

(* The store keeps the promise of SessionStore: whatever a get may read from *)
(* KV, it never answers a session a revocation that had returned before      *)
(* reached, nor one that was over before.  Without a revocation list the     *)
(* store promises only the second (README, "KV alone"): nothing is gone.     *)
State(g) ==
    CASE pc[g] = "idle" -> "idle"
      [] pc[g] \in {"asked", "check"} -> "asked"
      [] pc[g] \in {"session", "touch", "touched"} -> "session"
      [] pc[g] \in {"expired", "null"} -> "null"

Promise == INSTANCE SessionStore WITH
    known <- made,
    over <- Over,
    gone <- Gone,
    covers <- IF list THEN reach ELSE [x \in Revokers |-> {}],
    state <- [g \in Gets |-> State(g)],
    asked <- asked,
    returned <- Returned

Implements == Promise!Spec

(* A key that reads nowhere stays that way once its session was logged out,  *)
(* whatever touch was in flight ("a late touch() writes a marker for a       *)
(* record that no longer exists", kv.ts).                                    *)
LoggedOut == {s \in Sids : \E x \in Revokers : pc[x] = "out" /\ s \in reach[x]}

NoResurrection ==
    [][\A s \in LoggedOut : record[s].reads = {FALSE} => record'[s].reads = {FALSE}]_vars

(* After a logout the session is in the end nowhere to be read, with or      *)
(* without a revocation list ("logout always works", README).                *)
LogoutSticks ==
    \A s \in Sids : s \in LoggedOut ~> [](record[s].reads = {FALSE})
(* "A second request for the same sid that arrives before the delete lands   *)
(* gets null too" (README.md, "Deferring expired-session cleanup").          *)
SecondGetsNull == \A g \in Gets : told[g] => State(g) # "session"
=============================================================================
