-------------------------------- MODULE SignIn --------------------------------
(***************************************************************************)
(* Requests that sign in, out, or use a session: the routes of             *)
(* src/src/routes.ts, the middleware, the CSRF check, the magic-link and   *)
(* session-bearer providers and destroySession (index.ts).  The session    *)
(* store is one whose revocations hold at once (SqlSessions shows D1 and   *)
(* Postgres to be); every call to it, and to the links' table, is a step.  *)
(***************************************************************************)
EXTENDS FiniteSets

CONSTANTS
    Requests,     \* each may mint the session that bears its name
    Earlier,      \* sessions from before
    Links,        \* magic links
    None,
    DeviceBound   \* is config.store a deviceBoundSessionStore?

Sids == Requests \cup Earlier

\* A session is from before or of one request, a link is no session.
ASSUME NamesAssumption ==
    /\ Requests \cap Earlier = {}
    /\ Links \cap Sids = {}
    /\ None \notin Sids \cup Links

VARIABLES
    life,    \* each session: "none", "live" or "dead"
    kind,    \* each session: its transport; whether it has a rateLimitId; a device
    row,     \* auth_magic_link_tokens: "none", "there" or "gone"
    past,    \* the links past their expires_at
    input,   \* each request's route and what it carries
    pc,
    held,    \* the session a request has read, or None
    did,     \* history: what a request has changed
    by,      \* history: the link or the session that authenticated a request
    late     \* history: was the request's link past when it arrived?

links == <<row, past>>
history == <<did, by, late>>
vars == <<life, kind, links, input, pc, held, history>>

CookieKind == [transport |-> "cookie", rated |-> TRUE, device |-> FALSE]
Kinds == [transport : {"cookie", "bearer"}, rated : BOOLEAN, device : BOOLEAN]

\* What the CSRF check tells apart: does the Origin match; is there a CSRF
\* cookie; does the header repeat it?
Own == [origin |-> TRUE, token |-> TRUE, echo |-> TRUE]
Bare == [origin |-> TRUE, token |-> FALSE, echo |-> FALSE]
Guessed == [origin |-> TRUE, token |-> TRUE, echo |-> FALSE]
Forged == [origin |-> FALSE, token |-> TRUE, echo |-> FALSE]
ForgedBare == [origin |-> FALSE, token |-> FALSE, echo |-> FALSE]
Headers == {Own, Bare, Guessed, Forged, ForgedBare}

\* A request carries a session cookie and one credential, each possibly none.
Inputs(cookies, creds, headers, routes) ==
    [route : routes, cookie : cookies \cup {None}, cred : creds, headers : headers]

NoInput == [route |-> "none", cookie |-> None, cred |-> None, headers |-> Bare]

Init ==
    /\ \E k \in [Earlier -> Kinds] :
           kind = [s \in Sids |-> IF s \in Earlier THEN k[s] ELSE CookieKind]
    /\ life = [s \in Sids |-> IF s \in Earlier THEN "live" ELSE "none"]
    /\ row = [l \in Links |-> "none"]
    /\ past = {}
    /\ input = [r \in Requests |-> NoInput]
    /\ pc = [r \in Requests |-> "away"]
    /\ held = [r \in Requests |-> None]
    /\ did = [r \in Requests |-> {}]
    /\ by = [r \in Requests |-> None]
    /\ late = [r \in Requests |-> FALSE]

---------------------------------------------------------------------------
\* A request and where it goes first.

Known == {s \in Sids : life[s] # "none"}
Presentable == {l \in Links : row[l] # "none"} \cup Known \cup {None}

Arrivals ==
    Inputs(Known, Presentable, Headers, {"POST /session", "POST app"})
    \cup Inputs(Known, {None}, Headers, {"POST /logout"})
    \cup Inputs(Known, Presentable, {Bare}, {"GET app"})
    \cup Inputs(Known, {None}, {Bare}, {"GET /session", "destroySession"})
    \cup Inputs(Known, Presentable \cap Links, {Bare}, {"GET /callback"})
    \cup Inputs({}, Presentable \cap Known, {Bare}, {"bearer logout"})
    \cup Inputs({}, {None}, {Bare}, {"mint bearer"})

\* Where a request goes next, with the session it has read; once answered, it
\* keeps of its input only the cookie, which OutIsOut is about.
Codes == {"ok", "signed in", "signed out", "401", "403", "500"}

Goto(r, to, s) ==
    /\ pc' = [pc EXCEPT ![r] = to]
    /\ held' = [held EXCEPT ![r] = IF to \in Codes THEN None ELSE s]
    /\ input' = [input EXCEPT ![r] =
           IF to \in Codes THEN [NoInput EXCEPT !.cookie = input[r].cookie] ELSE @]

First(route) ==
    CASE route = "GET /callback" -> "verify"
      [] route = "bearer logout" -> "bearer"
      [] route = "mint bearer" -> "create"
      [] OTHER -> "read"

Arrive(r) ==
    /\ pc[r] = "away"
    /\ \E i \in Arrivals :
           /\ input' = [input EXCEPT ![r] = i]
           /\ pc' = [pc EXCEPT ![r] = First(i.route)]
           /\ late' = [late EXCEPT ![r] = i.cred \in past]
    /\ UNCHANGED <<life, kind, links, held, did, by>>

Route(r) == input[r].route
IsApp(r) == Route(r) \in {"POST app", "GET app"}
Changing(r) == Route(r) \in {"POST /session", "POST /logout", "POST app"}

---------------------------------------------------------------------------
\* verifyCsrf

RequiresOriginMutant(r) == FALSE
RequiresOrigin(r) == ~IsApp(r)

CsrfOk(r, session) ==
    LET h == input[r].headers
        ambient == session # None \/ h.token
    IN
    Changing(r) =>
        /\ ambient \/ RequiresOrigin(r) => h.origin
        /\ ambient => h.token /\ h.echo

---------------------------------------------------------------------------
\* Who may use a session: one of this transport, that the SDK can name, on a
\* device that somebody checks (isBearerSession, hasRateLimitId,
\* deviceCheckApplied).
AcceptableMutant(s, transport) == kind[s].rated /\ (kind[s].device => DeviceBound)
Acceptable(s, transport) ==
    /\ kind[s].transport = transport
    /\ kind[s].rated
    /\ kind[s].device => DeviceBound

Found(s, transport) ==
    IF s # None /\ s \in Sids /\ life[s] = "live" /\ Acceptable(s, transport) THEN s ELSE None

\* readCookieSession, and for the session endpoints the CSRF check after it.
\* Where each route goes with the session it has found:
AfterRead(r, s) ==
    IF ~IsApp(r) /\ ~CsrfOk(r, s) THEN "403"
    ELSE CASE Route(r) = "POST /session" -> "verify"
           [] Route(r) \in {"POST /logout", "destroySession"} ->
                  IF s = None THEN "signed out" ELSE "end"
           [] Route(r) = "GET /session" -> IF s = None THEN "401" ELSE "ok"
           [] Route(r) = "GET /callback" -> IF s = None THEN "create" ELSE "rotate"
           [] IsApp(r) ->
                  IF s = None THEN "verify" ELSE IF CsrfOk(r, s) THEN "app" ELSE "403"

Read(r) ==
    LET s == Found(input[r].cookie, "cookie") IN
    /\ pc[r] = "read"
    /\ Goto(r, AfterRead(r, s), s)
    /\ by' = [by EXCEPT ![r] = IF AfterRead(r, s) \in {"ok", "app"} THEN s ELSE @]
    /\ UNCHANGED <<life, kind, links, did, late>>

---------------------------------------------------------------------------
\* verifyProviders: the request's one credential is a link, a bearer session
\* or none.  A provider that throws authenticates nobody.

\* What a route does with a verified subject, and with none.
Verified(r, s) ==
    /\ by' = [by EXCEPT ![r] = s]
    /\ Goto(r,
           CASE s = None /\ IsApp(r) /\ ~CsrfOk(r, None) -> "403"
             [] s = None -> "401"
             [] Route(r) = "GET /callback" -> "read"
             [] Route(r) = "POST /session" -> IF held[r] = None THEN "create" ELSE "rotate"
             [] IsApp(r) -> IF CsrfOk(r, None) THEN "ok" ELSE "403",
           held[r])

VerifyNothing(r) ==
    /\ pc[r] = "verify"
    /\ Verified(r, None)
    /\ UNCHANGED <<life, kind, links, did, late>>

\* sessionBearer
VerifyBearer(r) ==
    /\ pc[r] = "verify"
    /\ input[r].cred \in Sids
    /\ Verified(r, Found(input[r].cred, "bearer"))
    /\ UNCHANGED <<life, kind, links, did, late>>

\* magicLink: DELETE ... RETURNING, then the expiry.
RowAfterTakeMutant(l) == row[l]
RowAfterTake(l) == "gone"

TakeLink(r, l) ==
    /\ pc[r] = "verify"
    /\ input[r].cred = l
    /\ row[l] = "there"
    /\ row' = [row EXCEPT ![l] = RowAfterTake(l)]
    /\ did' = [did EXCEPT ![r] = @ \cup {"took"}]
    /\ Goto(r, "took", held[r])
    /\ UNCHANGED <<life, kind, past, by, late>>

\* resolveUser may know nobody of that address.
InTimeMutant(l) == TRUE
InTime(l) == l \notin past

CheckLink(r) ==
    /\ pc[r] = "took"
    /\ \E s \in IF InTime(input[r].cred) THEN {None, input[r].cred} ELSE {None} :
           Verified(r, s)
    /\ UNCHANGED <<life, kind, links, did, late>>

---------------------------------------------------------------------------
\* createSessionFor: the previous session is revoked before the new one is made.

AfterRotationMutant(r) == life
AfterRotation(r) == [life EXCEPT ![held[r]] = "dead"]

Rotate(r) ==
    /\ pc[r] = "rotate"
    /\ life' = AfterRotation(r)
    /\ did' = [did EXCEPT ![r] = @ \cup {"ended"}]
    /\ Goto(r, "create", None)
    /\ UNCHANGED <<kind, links, by, late>>

\* A bearer session lives beside the request's cookie session.
Create(r) ==
    /\ pc[r] = "create"
    /\ life' = [life EXCEPT ![r] = "live"]
    /\ \E device \in BOOLEAN :
           kind' = [kind EXCEPT ![r] =
               IF Route(r) = "mint bearer"
                 THEN [transport |-> "bearer", rated |-> TRUE, device |-> device]
                 ELSE CookieKind]
    /\ did' = [did EXCEPT ![r] = @ \cup {"made"}]
    /\ Goto(r, "signed in", None)
    /\ UNCHANGED <<links, by, late>>

---------------------------------------------------------------------------
\* Signing out, by cookie or by bearer token; the middleware's touch.

ReadBearer(r) ==
    LET s == Found(input[r].cred, "bearer") IN
    /\ pc[r] = "bearer"
    /\ Goto(r, IF s = None THEN "401" ELSE "end", s)
    /\ UNCHANGED <<life, kind, links, history>>

End(r) ==
    /\ pc[r] = "end"
    /\ life' = [life EXCEPT ![held[r]] = "dead"]
    /\ did' = [did EXCEPT ![r] = @ \cup {"ended"}]
    /\ Goto(r, "signed out", None)
    /\ UNCHANGED <<kind, links, by, late>>

\* Only a session read from the cookie slides, and only when it is due.
Touch(r) ==
    /\ pc[r] = "app"
    /\ \E due \in BOOLEAN :
           did' = [did EXCEPT ![r] = IF due THEN @ \cup {"slid"} ELSE @]
    /\ Goto(r, "ok", None)
    /\ UNCHANGED <<life, kind, links, by, late>>

\* A call to a store rejects: nothing more happens.
Throw(r) ==
    /\ pc[r] \in {"read", "rotate", "create", "bearer", "end", "app"}
    /\ Goto(r, "500", None)
    /\ UNCHANGED <<life, kind, links, history>>

---------------------------------------------------------------------------
\* start: the link is stored before it is mailed.
StartLink(l) ==
    /\ row[l] = "none"
    /\ row' = [row EXCEPT ![l] = "there"]
    /\ UNCHANGED <<life, kind, past, input, pc, held, history>>

LapseLink(l) ==
    /\ row[l] # "none"
    /\ past' = past \cup {l}
    /\ UNCHANGED <<life, kind, row, input, pc, held, history>>

CleanupLinks ==
    /\ \E l \in past : row[l] = "there"
    /\ row' = [l \in Links |-> IF l \in past THEN "gone" ELSE row[l]]
    /\ UNCHANGED <<life, kind, past, input, pc, held, history>>

\* A session reaches its expiry.
Expire(s) ==
    /\ life[s] = "live"
    /\ life' = [life EXCEPT ![s] = "dead"]
    /\ UNCHANGED <<kind, links, input, pc, held, history>>

Handle(r) ==
    \/ Arrive(r) \/ Read(r)
    \/ VerifyNothing(r) \/ VerifyBearer(r) \/ CheckLink(r) \/ \E l \in Links : TakeLink(r, l)
    \/ Rotate(r) \/ Create(r) \/ ReadBearer(r) \/ End(r) \/ Touch(r) \/ Throw(r)

Next ==
    \/ \E r \in Requests : Handle(r)
    \/ \E l \in Links : StartLink(l) \/ LapseLink(l)
    \/ CleanupLinks
    \/ \E s \in Sids : Expire(s)

Spec == Init /\ [][Next]_vars

---------------------------------------------------------------------------
Pcs == {"away", "read", "verify", "took", "rotate", "create", "bearer", "end", "app"} \cup Codes

(* Types; what a request is about to revoke is a session it has read.        *)
TypeOK ==
    /\ life \in [Sids -> {"none", "live", "dead"}]
    /\ kind \in [Sids -> Kinds]
    /\ row \in [Links -> {"none", "there", "gone"}]
    /\ past \subseteq Links
    /\ pc \in [Requests -> Pcs]
    /\ held \in [Requests -> Sids \cup {None}]
    /\ \A r \in Requests : pc[r] \in {"rotate", "end"} => held[r] # None
    /\ did \in [Requests -> SUBSET {"took", "ended", "made", "slid"}]
    /\ by \in [Requests -> Sids \cup Links \cup {None}]
    /\ late \in [Requests -> BOOLEAN]

(* A link authenticates one request, whatever routes race for it, and none   *)
(* that came after its expiry ("exactly one of two racing requests can get   *)
(* it", d1MagicLinkStore).                                                   *)
LinkSignsInOnce ==
    \A r \in Requests : by[r] \in Links =>
        /\ ~late[r]
        /\ \A q \in Requests : by[q] = by[r] => q = r

(* Once a sign-in or a sign-out has answered, the cookie session its request *)
(* carried is over ("a login always rotates the id", createSessionFor).      *)
OutIsOut ==
    \A r \in Requests :
        LET s == input[r].cookie IN
        (pc[r] \in {"signed in", "signed out"} /\ s # None) =>
            (Acceptable(s, "cookie") => life[s] = "dead")

(* A request that is refused has ended and made no session, and one that     *)
(* fails the CSRF check of a session endpoint has not used up a link; a      *)
(* forged one never gets past it (verifyCsrf, login CSRF included).          *)
RefusedChangesNothing ==
    \A r \in Requests :
        /\ pc[r] \in {"401", "403"} => did[r] \subseteq {"took"}
        /\ (Changing(r) /\ ~IsApp(r) /\ ~input[r].headers.origin) => did[r] = {}

(* A session is of use only over its own transport: as a cookie it neither   *)
(* authenticates, slides nor ends a bearer session, and the other way round  *)
(* (readCookieSession, readBearerSession).                                   *)
TransportsApart ==
    [][\A r \in Requests :
           /\ (by'[r] # by[r] /\ by'[r] \in Sids) =>
                  kind[by'[r]].transport = IF pc[r] = "read" THEN "cookie" ELSE "bearer"
           /\ (did'[r] \ did[r]) \cap {"ended", "slid"} # {} =>
                  kind[held[r]].transport = IF pc[r] = "end" /\ input[r].cred # None
                                              THEN "bearer" ELSE "cookie"]_vars
=============================================================================
