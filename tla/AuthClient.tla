------------------------------- MODULE AuthClient -------------------------------
(***************************************************************************)
(* The browser client (src/src/client.ts): calls of session() share the    *)
(* GET that is on the wire, while its user signs in and out.  The default  *)
(* transport is the browser's fetch, whose Response gives its body once.   *)
(***************************************************************************)
EXTENDS Integers

CONSTANTS
    Callers,    \* calls of session()
    Gets,       \* requests GET /session, as many as there are callers
    NoGet,
    MaxChanges  \* bound on sign-ins and sign-outs, for TLC

ASSUME ClientAssumption == NoGet \notin Gets /\ MaxChanges \in Nat \ {0}

\* The session behind the cookie has changed n times; nobody is signed in when
\* n is even.
Changes == 0..MaxChanges
SignedIn(n) == n % 2 = 1
Unknown == 0 - 1

VARIABLES
    changes,
    onWire,    \* each GET: "unsent", "out", "served", "settled" or "failed"
    seen,      \* what the server saw when it served a GET
    inflight,  \* the GET in the inflight map, or NoGet
    read,      \* the responses whose body has been read
    awaits,    \* the GET whose promise a caller has
    phase,     \* where each caller is
    since      \* history: the oldest session a caller may be told of

gets == <<onWire, seen, inflight, read>>
clientVars == <<changes, gets, awaits, phase, since>>

ClientInit ==
    /\ changes \in {0, 1}
    /\ onWire = [g \in Gets |-> "unsent"]
    /\ seen = [g \in Gets |-> Unknown]
    /\ inflight = NoGet
    /\ read = {}
    /\ awaits = [c \in Callers |-> NoGet]
    /\ phase = [c \in Callers |-> "idle"]
    /\ since = [c \in Callers |-> Unknown]

---------------------------------------------------------------------------
\* request: join the GET on the wire, or send one.

Send(c, g) ==
    /\ phase[c] = "idle"
    /\ inflight = NoGet
    /\ onWire[g] = "unsent"
    /\ onWire' = [onWire EXCEPT ![g] = "out"]
    /\ inflight' = g
    /\ awaits' = [awaits EXCEPT ![c] = g]
    /\ phase' = [phase EXCEPT ![c] = "waits"]
    /\ since' = [since EXCEPT ![c] = changes]
    /\ UNCHANGED <<changes, seen, read>>

OnTheWire(g) == onWire[g] \in {"out", "served"}

\* Who joins a GET that is on the wire may be told what its sender may be.
Join(c) ==
    /\ phase[c] = "idle"
    /\ inflight # NoGet
    /\ awaits' = [awaits EXCEPT ![c] = inflight]
    /\ phase' = [phase EXCEPT ![c] = "waits"]
    /\ \E d \in Callers :
           /\ awaits[d] = inflight
           /\ since' = [since EXCEPT ![c] = IF OnTheWire(inflight) THEN since[d] ELSE changes]
    /\ UNCHANGED <<changes, gets>>

Serve(g) ==
    /\ onWire[g] = "out"
    /\ onWire' = [onWire EXCEPT ![g] = "served"]
    /\ seen' = [seen EXCEPT ![g] = changes]
    /\ UNCHANGED <<changes, inflight, read, awaits, phase, since>>

\* finally: the entry goes the moment the promise settles.
AfterSettlingMutant(g) == IF onWire[g] = "served" THEN g ELSE NoGet
AfterSettling(g) == NoGet

Settle(g) ==
    /\ \/ onWire[g] = "served" /\ onWire' = [onWire EXCEPT ![g] = "settled"]
       \/ OnTheWire(g) /\ onWire' = [onWire EXCEPT ![g] = "failed"]
    /\ inflight' = AfterSettling(g)
    /\ UNCHANGED <<changes, seen, read, awaits, phase, since>>

---------------------------------------------------------------------------
\* session, once the response is there

Reject(c) ==
    /\ phase[c] = "waits"
    /\ onWire[awaits[c]] = "failed"
    /\ phase' = [phase EXCEPT ![c] = "rejected"]
    /\ UNCHANGED <<changes, gets, awaits, since>>

\* 401: null, without a look at the body.
ReturnNull(c) ==
    /\ phase[c] = "waits"
    /\ onWire[awaits[c]] = "settled"
    /\ ~SignedIn(seen[awaits[c]])
    /\ phase' = [phase EXCEPT ![c] = "null"]
    /\ UNCHANGED <<changes, gets, awaits, since>>

\* res.json(): a body that has been read rejects.
ReadBody(c) ==
    LET g == awaits[c] IN
    /\ phase[c] = "waits"
    /\ onWire[g] = "settled"
    /\ SignedIn(seen[g])
    /\ phase' = [phase EXCEPT ![c] = IF g \in read THEN "body used" ELSE "session"]
    /\ read' = read \cup {g}
    /\ UNCHANGED <<changes, onWire, seen, inflight, awaits, since>>

\* login and logout are never merged; each takes effect at the server.
Change ==
    /\ changes < MaxChanges
    /\ changes' = changes + 1
    /\ UNCHANGED <<gets, awaits, phase, since>>

Session(c) ==
    \/ Join(c) \/ Reject(c) \/ ReturnNull(c) \/ ReadBody(c)
    \/ \E g \in Gets : Send(c, g)

ClientNext ==
    \/ \E c \in Callers : Session(c)
    \/ \E g \in Gets : Serve(g) \/ Settle(g)
    \/ Change

ClientSpec == ClientInit /\ [][ClientNext]_clientVars

---------------------------------------------------------------------------
(* Types; a GET on the wire is in the map, and nothing else is ("this map is *)
(* empty whenever nothing is on the wire", client.ts:124-125).               *)
ClientTypeOK ==
    /\ changes \in Changes
    /\ onWire \in [Gets -> {"unsent", "out", "served", "settled", "failed"}]
    /\ seen \in [Gets -> Changes \cup {Unknown}]
    /\ inflight \in Gets \cup {NoGet}
    /\ \A g \in Gets : OnTheWire(g) <=> g = inflight
    /\ read \subseteq Gets
    /\ awaits \in [Callers -> Gets \cup {NoGet}]
    /\ phase \in [Callers -> {"idle", "waits", "session", "null", "rejected", "body used"}]
    /\ since \in [Callers -> Changes \cup {Unknown}]

(* Nothing is remembered: session() is answered with a session as it was     *)
(* after the call, or after the request was sent that was on the wire when   *)
(* it called ("Nothing is remembered afterwards", client.ts:11-13).          *)
NothingRemembered ==
    \A c \in Callers :
        phase[c] \in {"session", "null"} => seen[awaits[c]] >= since[c]

(* Callers that share a request are told the same: none is turned away while *)
(* another gets the session (client.test.ts:45-56, "collapses concurrent     *)
(* session() calls into one request": results[0] equals results[1]).         *)
AllAreTold ==
    \A c, d \in Callers :
        (awaits[c] = awaits[d] /\ phase[c] = "session") => phase[d] # "body used"
=============================================================================
