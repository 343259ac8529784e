------------------------------ MODULE SignInProofs ------------------------------
(***************************************************************************)
(* Proofs about SignIn: a magic link signs one request in, a sign-in or a  *)
(* sign-out that has answered ended the session the request came with, a   *)
(* refused request changes nothing, and cookie and bearer sessions stay    *)
(* apart, for any number of requests, sessions and links.                  *)
(***************************************************************************)
EXTENDS SignIn, TLAPS

-----------------------------------------------------------------------------
(* The inductive invariant.                                                 *)

ReadRoutes == {"POST /session", "POST app", "POST /logout", "GET app", "GET /session",
               "destroySession", "GET /callback"}
Routes == ReadRoutes \cup {"bearer logout", "mint bearer", "none"}

InputTypes ==
    input \in [Requests -> [route : Routes, cookie : Sids \cup {None},
                            cred : Sids \cup Links \cup {None}, headers : Headers]]

\* The cookie session a request carries is of no more use as one.
CookieOut(r) ==
    LET s == input[r].cookie IN s = None \/ ~Acceptable(s, "cookie") \/ life[s] = "dead"

\* The request holds the session of its cookie.
HoldsCookie(r) ==
    /\ held[r] = input[r].cookie
    /\ held[r] # None
    /\ kind[held[r]].transport = "cookie"

\* What a request must not change before it has passed the CSRF check.
Forgery(r) == Changing(r) /\ ~IsApp(r) /\ ~input[r].headers.origin

Untouched == {"away", "read", "verify", "took", "rotate", "bearer", "end", "app", "401", "403"}

\* What a request has with it, and the session it makes.
Carries(r) ==
    /\ input[r].cookie \in Known \cup {None}
    /\ held[r] \in Known \cup {None}
    /\ r \in Known => pc[r] = "signed in"
    /\ pc[r] = "away" => input[r] = NoInput /\ did[r] = {} /\ by[r] = None

\* Which steps its route takes it to.
Routed(r) ==
    /\ pc[r] = "read" => /\ Route(r) \in ReadRoutes
                         /\ Route(r) \in {"POST /logout", "destroySession"} => input[r].cred = None
    /\ pc[r] \in {"verify", "took"} =>
           \/ Route(r) \in {"GET /callback", "POST app", "GET app"}
           \/ Route(r) = "POST /session" /\ (IF held[r] = None THEN CookieOut(r) ELSE HoldsCookie(r))
    /\ pc[r] = "took" => input[r].cred \in Links
    /\ pc[r] = "bearer" => input[r].cred # None /\ input[r].cookie = None

\* Which session it holds, and which is over.
Holding(r) ==
    /\ pc[r] \in {"rotate", "app"} => HoldsCookie(r)
    /\ pc[r] = "end" => IF input[r].cred = None THEN HoldsCookie(r)
                        ELSE /\ held[r] # None /\ input[r].cookie = None
                             /\ kind[held[r]].transport = "bearer"
    /\ pc[r] \in {"create", "signed in", "signed out"} => CookieOut(r)

\* What it has not done yet.
Unharmed(r) ==
    /\ pc[r] \in Untouched => did[r] \subseteq {"took"}
    /\ Forgery(r) => pc[r] = "read" /\ did[r] = {}

\* A late link was past before, and authenticates nobody.
InTimeOnly(r) ==
    /\ late[r] /\ pc[r] \notin Codes => input[r].cred \in past
    /\ by[r] \in Links => ~late[r]

RequestInv(r) ==
    Carries(r) /\ Routed(r) /\ Holding(r) /\ Unharmed(r) /\ InTimeOnly(r)

\* A link a request has taken is its own.
Claims(r, l) == (pc[r] = "took" /\ input[r].cred = l) \/ by[r] = l

Exclusive ==
    \A l \in Links : \A r \in Requests : Claims(r, l) =>
        /\ row[l] = "gone"
        /\ \A q \in Requests : Claims(q, l) => q = r

SignInInv ==
    /\ TypeOK
    /\ InputTypes
    /\ \A r \in Requests : RequestInv(r)
    /\ Exclusive

LEMMA Initially == Init => SignInInv
  <1> SUFFICES ASSUME Init PROVE SignInInv
    OBVIOUS
  <1>1. Known = Earlier /\ \A r \in Requests : r \notin Known
    BY NamesAssumption DEF Init, Known, Sids
  <1>2. TypeOK
    <2>1. CookieKind \in Kinds
      BY DEF CookieKind, Kinds
    <2>2. kind \in [Sids -> Kinds]
      BY <2>1 DEF Init
    <2> QED  BY <2>2 DEF Init, TypeOK, Pcs, Codes
  <1>3. InputTypes
    <2>1. NoInput \in [route : Routes, cookie : Sids \cup {None},
                       cred : Sids \cup Links \cup {None}, headers : Headers]
      BY DEF NoInput, Routes, Headers
    <2> QED  BY <2>1 DEF Init, InputTypes
  <1>4. \A r \in Requests : RequestInv(r)
    BY <1>1, NamesAssumption DEF Init, RequestInv, Carries, Routed, Holding, Unharmed, InTimeOnly,
       NoInput, Bare, Forgery, Changing, Route, Untouched
  <1>5. Exclusive
    BY NamesAssumption DEF Init, Exclusive, Claims
  <1> QED  BY <1>2, <1>3, <1>4, <1>5 DEF SignInInv

-----------------------------------------------------------------------------
(* Steps of one request, seen by the others.                                *)

\* Sessions are made and end, links are taken and lapse; nothing comes back.
Later ==
    /\ Known \subseteq Known'
    /\ \A s \in Known : kind'[s] = kind[s] /\ (life[s] = "dead" => life'[s] = "dead")
    /\ past \subseteq past'
    /\ \A l \in Links : row[l] = "gone" => row'[l] = "gone"

\* Request q and its session are where they were.
Stays(q) ==
    /\ pc'[q] = pc[q] /\ held'[q] = held[q] /\ input'[q] = input[q]
    /\ did'[q] = did[q] /\ by'[q] = by[q] /\ late'[q] = late[q]
    /\ q \in Known' => q \in Known

LEMMA StaysOK ==
    ASSUME SignInInv, Later, NEW q \in Requests, Stays(q)
    PROVE  RequestInv(q)'
  <1>1. RequestInv(q)
    BY DEF SignInInv
  <1>2. \A s \in Known : Acceptable(s, "cookie")' = Acceptable(s, "cookie")
    BY DEF Later, Acceptable
  <1>3. CookieOut(q) => CookieOut(q)'
    BY <1>1, <1>2 DEF CookieOut, RequestInv, Carries, Later, Stays
  <1>4. HoldsCookie(q) => HoldsCookie(q)'
    BY <1>1, <1>2 DEF HoldsCookie, RequestInv, Carries, Later, Stays
  <1>5. Forgery(q)' = Forgery(q) /\ Route(q)' = Route(q)
    BY DEF Forgery, Changing, IsApp, Route, Stays
  <1>6. kind'[held[q]] = kind[held[q]] \/ held[q] = None
    BY <1>1 DEF RequestInv, Carries, Later
  <1>7. Carries(q)'
    BY <1>1 DEF RequestInv, Carries, Later, Stays
  <1>8. Routed(q)'
    BY <1>1, <1>3, <1>4, <1>5 DEF RequestInv, Routed, Stays
  <1>9. Holding(q)'
    BY <1>1, <1>3, <1>4, <1>6 DEF RequestInv, Holding, Stays
  <1>10. Unharmed(q)'
    BY <1>1, <1>5 DEF RequestInv, Unharmed, Stays
  <1>11. InTimeOnly(q)'
    BY <1>1 DEF RequestInv, InTimeOnly, Stays, Later
  <1> QED  BY <1>7, <1>8, <1>9, <1>10, <1>11 DEF RequestInv

LEMMA Frame ==
    ASSUME SignInInv, Later, NEW r \in Requests, \A q \in Requests : q # r => Stays(q),
           TypeOK', InputTypes', RequestInv(r)',
           \A l \in Links : Claims(r, l)' =>
               row'[l] = "gone" /\ (Claims(r, l) \/ row[l] = "there")
    PROVE  SignInInv'
  <1>1. \A q \in Requests : RequestInv(q)'
    BY StaysOK
  <1>2. \A q \in Requests, l \in Links : q # r => Claims(q, l)' = Claims(q, l)
    BY DEF Claims, Stays
  <1>3. Exclusive'
    <2> SUFFICES ASSUME NEW l \in Links, NEW q \in Requests, Claims(q, l)'
                 PROVE  /\ row'[l] = "gone"
                        /\ \A o \in Requests : Claims(o, l)' => o = q
      BY DEF Exclusive
    <2>1. row'[l] = "gone"
      BY <1>2 DEF SignInInv, Exclusive, Later
    <2>2. ASSUME NEW o \in Requests, Claims(o, l)' PROVE o = q
      <3>1. \A x \in Requests : Claims(x, l) => row[l] = "gone"
        BY DEF SignInInv, Exclusive
      <3> QED  BY <1>2, <2>2, <3>1 DEF SignInInv, Exclusive
    <2> QED  BY <2>1, <2>2
  <1> QED  BY <1>1, <1>3 DEF SignInInv

-----------------------------------------------------------------------------
(* Where a step of a request takes it.                                      *)

DataTypes ==
    /\ life \in [Sids -> {"none", "live", "dead"}]
    /\ kind \in [Sids -> Kinds]
    /\ row \in [Links -> {"none", "there", "gone"}]
    /\ past \subseteq Links
    /\ did \in [Requests -> SUBSET {"took", "ended", "made", "slid"}]
    /\ by \in [Requests -> Sids \cup Links \cup {None}]
    /\ late \in [Requests -> BOOLEAN]

\* The other requests' histories, and their sessions.
Quiet(r) == \A q \in Requests : q # r =>
    /\ did'[q] = did[q] /\ by'[q] = by[q] /\ late'[q] = late[q]
    /\ q \in Known' => q \in Known

LEMMA GotoMoves ==
    ASSUME SignInInv, NEW r \in Requests, NEW to \in Pcs, NEW s \in Sids \cup {None}, Goto(r, to, s)
    PROVE  /\ pc' \in [Requests -> Pcs] /\ pc'[r] = to
           /\ held' \in [Requests -> Sids \cup {None}]
           /\ held'[r] = IF to \in Codes THEN None ELSE s
           /\ InputTypes'
           /\ to \notin Codes => input'[r] = input[r]
           /\ to \in Codes => input'[r].route = "none"
           /\ input'[r].cookie = input[r].cookie
           /\ \A q \in Requests : q # r =>
                  pc'[q] = pc[q] /\ held'[q] = held[q] /\ input'[q] = input[q]
  <1> DEFINE T == [route : Routes, cookie : Sids \cup {None},
                   cred : Sids \cup Links \cup {None}, headers : Headers]
             done == [NoInput EXCEPT !.cookie = input[r].cookie]
  <1>1. pc \in [Requests -> Pcs] /\ held \in [Requests -> Sids \cup {None}] /\ input \in [Requests -> T]
    BY DEF SignInInv, TypeOK, InputTypes
  <1>2. input[r] \in T /\ input[r].cookie \in Sids \cup {None}
    BY <1>1
  <1>3. done \in T /\ done.cookie = input[r].cookie /\ done.route = "none"
    BY <1>2 DEF NoInput, Headers, Routes
  <1>4. input' = [input EXCEPT ![r] = IF to \in Codes THEN done ELSE input[r]]
    BY DEF Goto
  <1> HIDE DEF done, T
  <1>5. input' \in [Requests -> T]
    BY <1>1, <1>2, <1>3, <1>4
  <1>6. /\ to \notin Codes => input'[r] = input[r]
        /\ to \in Codes => input'[r] = done
        /\ \A q \in Requests : q # r => input'[q] = input[q]
    BY <1>1, <1>4
  <1>7. /\ pc' \in [Requests -> Pcs] /\ pc'[r] = to
        /\ held' \in [Requests -> Sids \cup {None}]
        /\ held'[r] = IF to \in Codes THEN None ELSE s
        /\ \A q \in Requests : q # r => pc'[q] = pc[q] /\ held'[q] = held[q]
    BY <1>1 DEF Goto
  <1>8. InputTypes'
    BY <1>5 DEF InputTypes, T
  <1> QED  BY <1>3, <1>6, <1>7, <1>8

LEMMA MoveOK ==
    ASSUME SignInInv, NEW r \in Requests, NEW to \in Pcs \ {"away"}, NEW s \in Known \cup {None},
           pc[r] \notin Codes, Goto(r, to, s), Later, Quiet(r), DataTypes', late' = late,
           r \in Known' => to = "signed in",
           to \in {"rotate", "end"} => s # None,
           \/ by'[r] \in {by[r], None} \cup Sids
           \/ pc[r] = "took" /\ by'[r] = input[r].cred /\ ~late[r],
           to = "took" => row[input[r].cred] = "there" /\ row'[input[r].cred] = "gone",
           Routed(r)', Holding(r)', to \in Untouched => did'[r] \subseteq {"took"},
           Forgery(r) => to \in Codes
    PROVE  SignInInv'
  <1>1. RequestInv(r) /\ s \in Sids \cup {None}
    BY DEF SignInInv, Known
  <1>2. /\ pc' \in [Requests -> Pcs] /\ pc'[r] = to
        /\ held' \in [Requests -> Sids \cup {None}]
        /\ held'[r] = IF to \in Codes THEN None ELSE s
        /\ InputTypes'
        /\ to \notin Codes => input'[r] = input[r]
        /\ to \in Codes => input'[r].route = "none"
        /\ input'[r].cookie = input[r].cookie
        /\ \A q \in Requests : q # r =>
               pc'[q] = pc[q] /\ held'[q] = held[q] /\ input'[q] = input[q]
    BY <1>1, GotoMoves
  <1>3. \A q \in Requests : q # r => Stays(q)
    BY <1>2 DEF Stays, Quiet
  <1>4. TypeOK'
    <2>1. \A q \in Requests : pc'[q] \in {"rotate", "end"} => held'[q] # None
      <3>1. to \in {"rotate", "end"} => to \notin Codes
        BY DEF Codes
      <3>2. \A q \in Requests : pc[q] \in {"rotate", "end"} => held[q] # None
        BY DEF SignInInv, TypeOK
      <3> QED  BY <1>2, <3>1, <3>2
    <2>2. pc' \in [Requests -> Pcs] /\ held' \in [Requests -> Sids \cup {None}]
      BY <1>2
    <2>3. DataTypes'
      OBVIOUS
    <2> QED  BY ONLY <2>1, <2>2, <2>3 DEF DataTypes, TypeOK
  <1>5. Carries(r)'
    <2>1. Carries(r) /\ Known \subseteq Known'
      BY <1>1 DEF RequestInv, Later
    <2>2. input'[r].cookie \in Known' \cup {None}
      BY <1>2, <2>1 DEF Carries
    <2>3. held'[r] \in Known' \cup {None}
      BY <1>2, <2>1
    <2>4. pc'[r] # "away" /\ (r \in Known' => pc'[r] = "signed in")
      BY <1>2
    <2> QED  BY ONLY <2>2, <2>3, <2>4 DEF Carries
  <1>6. Unharmed(r)'
    <2>1. Forgery(r)' => FALSE
      <3>1. CASE to \in Codes
        BY <1>2, <3>1 DEF Forgery, Changing, Route
      <3>2. CASE to \notin Codes
        BY <1>2, <3>2 DEF Forgery, Changing, Route, IsApp
      <3> QED  BY <3>1, <3>2
    <2> QED  BY <1>2, <2>1 DEF Unharmed
  <1>7. InTimeOnly(r)'
    <2>1. InTimeOnly(r) /\ past \subseteq past' /\ late'[r] = late[r]
      BY <1>1 DEF RequestInv, Later
    <2>2. late'[r] /\ pc'[r] \notin Codes => input'[r].cred \in past'
      BY <1>2, <2>1 DEF InTimeOnly
    <2>3. by'[r] \in Links => ~late'[r]
      BY <2>1, NamesAssumption DEF InTimeOnly
    <2> QED  BY ONLY <2>2, <2>3 DEF InTimeOnly
  <1>8. RequestInv(r)'
    BY <1>5, <1>6, <1>7 DEF RequestInv
  <1>9. ASSUME NEW l \in Links, Claims(r, l)'
        PROVE  row'[l] = "gone" /\ (Claims(r, l) \/ row[l] = "there")
    <2>1. CASE pc'[r] = "took" /\ input'[r].cred = l
      BY <1>2, <2>1 DEF Codes
    <2>2. CASE by'[r] = l
      <3>1. by[r] = l \/ (pc[r] = "took" /\ input[r].cred = l)
        BY <2>2, NamesAssumption
      <3>2. Claims(r, l)
        BY <3>1 DEF Claims
      <3> QED  BY <3>2 DEF SignInInv, Exclusive, Later
    <2> QED  BY <1>9, <2>1, <2>2 DEF Claims
  <1> QED  BY <1>2, <1>3, <1>4, <1>8, <1>9, Frame

-----------------------------------------------------------------------------
(* Finding a session, and what each route does with it.                     *)

LEMMA FoundIs ==
    ASSUME SignInInv, NEW c \in Sids \cup Links \cup {None}, NEW t
    PROVE  /\ Found(c, t) \in Known \cup {None}
           /\ Found(c, t) # None => Found(c, t) = c /\ kind[c].transport = t
           /\ c \in Known /\ Found(c, "cookie") = None =>
                  ~Acceptable(c, "cookie") \/ life[c] = "dead"
  <1>1. CASE c # None /\ c \in Sids /\ life[c] = "live" /\ Acceptable(c, t)
    <2>1. Found(c, t) = c /\ c \in Known
      BY <1>1 DEF Found, Known
    <2>2. t = "cookie" => Found(c, "cookie") = c
      BY <2>1
    <2> QED  BY <1>1, <2>1 DEF Acceptable, Found
  <1>2. CASE ~(c # None /\ c \in Sids /\ life[c] = "live" /\ Acceptable(c, t))
    <2>1. Found(c, t) = None
      BY <1>2 DEF Found
    <2>2. c \in Known /\ Found(c, "cookie") = None =>
              ~(life[c] = "live" /\ Acceptable(c, "cookie"))
      BY NamesAssumption DEF Found, Known
    <2>3. c \in Known => life[c] \in {"live", "dead"}
      BY DEF Known, SignInInv, TypeOK
    <2> QED  BY <2>1, <2>2, <2>3
  <1> QED  BY <1>1, <1>2

LEMMA ReadGoes ==
    ASSUME NEW r, NEW s, Route(r) \in ReadRoutes
    PROVE  /\ AfterRead(r, s) \in {"403", "verify", "signed out", "end", "401", "ok", "create",
                                   "rotate", "app"}
           /\ AfterRead(r, s) = "verify" => Route(r) \in {"POST /session", "POST app", "GET app"}
           /\ AfterRead(r, s) = "end" => Route(r) \in {"POST /logout", "destroySession"}
           /\ AfterRead(r, s) \in {"signed out", "create"} => s = None
           /\ AfterRead(r, s) \in {"end", "rotate", "app"} => s # None
           /\ Forgery(r) => AfterRead(r, s) = "403"
  <1>1. CASE ~IsApp(r) /\ ~CsrfOk(r, s)
    BY <1>1 DEF AfterRead
  <1>2. CASE IsApp(r)
    BY <1>2 DEF AfterRead, IsApp, Route, Forgery
  <1>3. CASE ~IsApp(r) /\ CsrfOk(r, s)
    <2>1. ~Forgery(r)
      BY <1>3 DEF Forgery, CsrfOk, RequiresOrigin
    <2> QED  BY <1>3, <2>1 DEF AfterRead, ReadRoutes, IsApp, Route
  <1> QED  BY <1>1, <1>2, <1>3

\* A step that writes no table.
LEMMA NothingWritten ==
    ASSUME SignInInv, UNCHANGED <<life, kind, links>>
    PROVE  /\ Later
           /\ Known' = Known
           /\ \A r \in Requests : input'[r].cookie = input[r].cookie => CookieOut(r)' = CookieOut(r)
  BY DEF Later, Known, links, CookieOut, Acceptable

LEMMA ReadStep ==
    ASSUME SignInInv, NEW r \in Requests, Read(r)
    PROVE  SignInInv'
  <1> DEFINE c == input[r].cookie
             s == Found(c, "cookie")
             to == AfterRead(r, s)
  <1>1. RequestInv(r) /\ c \in Known \cup {None} /\ pc[r] = "read" /\ Route(r) \in ReadRoutes
    BY DEF SignInInv, RequestInv, Carries, Routed, Read
  <1>2. c \in Sids \cup Links \cup {None}
    BY <1>1 DEF Known
  <1>3. /\ s \in Known \cup {None}
        /\ s # None => s = c /\ kind[c].transport = "cookie"
        /\ s = None => CookieOut(r)
    BY <1>1, <1>2, FoundIs DEF CookieOut
  <1>4. /\ to \in {"403", "verify", "signed out", "end", "401", "ok", "create", "rotate", "app"}
        /\ to = "verify" => Route(r) \in {"POST /session", "POST app", "GET app"}
        /\ to = "end" => Route(r) \in {"POST /logout", "destroySession"}
        /\ to \in {"signed out", "create"} => s = None
        /\ to \in {"end", "rotate", "app"} => s # None
        /\ Forgery(r) => to = "403"
    BY <1>1, ReadGoes
  <1>5. /\ Goto(r, to, s) /\ UNCHANGED <<life, kind, links, did, late>>
        /\ by' = [by EXCEPT ![r] = IF to \in {"ok", "app"} THEN s ELSE by[r]]
    BY DEF Read
  <1> HIDE DEF s, to
  <1>6. to \in Pcs \ {"away"} /\ s \in Sids \cup {None}
    BY <1>3, <1>4 DEF Pcs, Codes, Known
  <1>7. Later /\ Known' = Known
    BY <1>5, NothingWritten
  <1>8. /\ pc'[r] = to
        /\ held'[r] = IF to \in Codes THEN None ELSE s
        /\ to \notin Codes => input'[r] = input[r]
        /\ input'[r].cookie = c
    BY <1>5, <1>6, GotoMoves
  <1>9. /\ s = None => CookieOut(r)'
        /\ s # None /\ to \notin Codes => HoldsCookie(r)'
    BY <1>3, <1>5, <1>8, NothingWritten DEF HoldsCookie
  <1>10. Routed(r)'
    BY <1>4, <1>8, <1>9 DEF Routed, Route, Codes
  <1>11. Holding(r)'
    <2>1. to = "end" => input[r].cred = None
      BY <1>1, <1>4 DEF RequestInv, Routed
    <2> QED  BY <1>4, <1>8, <1>9, <2>1 DEF Holding, Codes
  <1>12. did' = did /\ did[r] \subseteq {"took"}
    BY <1>1, <1>5 DEF RequestInv, Unharmed, Untouched
  <1>13. by' \in [Requests -> Sids \cup Links \cup {None}] /\ by'[r] \in {by[r], None} \cup Sids
         /\ \A q \in Requests : q # r => by'[q] = by[q]
    BY <1>5, <1>6 DEF SignInInv, TypeOK
  <1>14. DataTypes' /\ Quiet(r)
    BY <1>5, <1>7, <1>12, <1>13 DEF SignInInv, TypeOK, DataTypes, Quiet, links
  <1>15. r \notin Known' /\ pc[r] \notin Codes
    BY <1>1, <1>7 DEF RequestInv, Carries, Codes
  <1>16. to \notin {"took"} /\ (to \in {"rotate", "end"} => s # None) /\ (Forgery(r) => to \in Codes)
    BY <1>4 DEF Codes
  <1> QED  BY <1>3, <1>5, <1>6, <1>7, <1>10, <1>11, <1>12, <1>13, <1>14, <1>15, <1>16, MoveOK

LEMMA VerifiedStep ==
    ASSUME SignInInv, NEW r \in Requests, pc[r] \in {"verify", "took"},
           NEW v, v \in Sids \cup {None} \/ (pc[r] = "took" /\ v = input[r].cred /\ ~late[r]),
           Verified(r, v), UNCHANGED <<life, kind, links, did, late>>
    PROVE  SignInInv'
  <1> DEFINE to ==
           CASE v = None /\ IsApp(r) /\ ~CsrfOk(r, None) -> "403"
             [] v = None -> "401"
             [] Route(r) = "GET /callback" -> "read"
             [] Route(r) = "POST /session" -> IF held[r] = None THEN "create" ELSE "rotate"
             [] IsApp(r) -> IF CsrfOk(r, None) THEN "ok" ELSE "403"
  <1>1. RequestInv(r) /\ pc[r] \notin Codes
    BY DEF SignInInv, Codes
  <1>2. Goto(r, to, held[r]) /\ by' = [by EXCEPT ![r] = v]
    BY DEF Verified
  <1>3. Route(r) \in {"GET /callback", "POST app", "GET app", "POST /session"}
    BY <1>1 DEF RequestInv, Routed
  <1>4. /\ to \in {"403", "401", "read", "create", "rotate", "ok"}
        /\ to = "read" => Route(r) = "GET /callback"
        /\ to = "create" => Route(r) = "POST /session" /\ held[r] = None
        /\ to = "rotate" => Route(r) = "POST /session" /\ held[r] # None
    BY <1>3 DEF IsApp
  <1> HIDE DEF to
  <1>5. held[r] \in Known \cup {None} /\ held[r] \in Sids \cup {None} /\ to \in Pcs \ {"away"}
    BY <1>1, <1>4 DEF RequestInv, Carries, Known, Pcs, Codes
  <1>6. Later /\ Known' = Known
    BY NothingWritten
  <1>7. /\ pc'[r] = to
        /\ held'[r] = IF to \in Codes THEN None ELSE held[r]
        /\ to \notin Codes => input'[r] = input[r]
        /\ input'[r].cookie = input[r].cookie
    BY <1>2, <1>5, GotoMoves
  <1>8. CookieOut(r)' = CookieOut(r) /\ (to \notin Codes => HoldsCookie(r)' = HoldsCookie(r))
    BY <1>7, NothingWritten DEF HoldsCookie
  <1>9. Routed(r)'
    BY <1>4, <1>7 DEF Routed, Route, ReadRoutes, Codes
  <1>10. Holding(r)'
    <2>1. to = "create" => CookieOut(r)
      BY <1>1, <1>4 DEF RequestInv, Routed
    <2>2. to = "rotate" => HoldsCookie(r)
      BY <1>1, <1>4 DEF RequestInv, Routed
    <2> QED  BY <1>4, <1>7, <1>8, <2>1, <2>2 DEF Holding, Codes
  <1>11. did' = did /\ did[r] \subseteq {"took"} /\ ~Forgery(r)
    BY <1>1 DEF RequestInv, Unharmed, Untouched
  <1>12. /\ \/ by'[r] \in {by[r], None} \cup Sids
            \/ pc[r] = "took" /\ by'[r] = input[r].cred /\ ~late[r]
         /\ \A q \in Requests : q # r => by'[q] = by[q]
    BY <1>2 DEF SignInInv, TypeOK
  <1>13. by' \in [Requests -> Sids \cup Links \cup {None}]
    <2>1. v \in Sids \cup Links \cup {None}
      BY <1>1 DEF RequestInv, Routed
    <2> QED  BY <1>2, <2>1 DEF SignInInv, TypeOK
  <1>14. DataTypes' /\ Quiet(r)
    BY <1>6, <1>12, <1>13 DEF SignInInv, TypeOK, DataTypes, Quiet, links
  <1>15. r \notin Known'
    BY <1>1, <1>6 DEF RequestInv, Carries
  <1>16. to # "took" /\ (to \in {"rotate", "end"} => held[r] # None)
    BY <1>4
  <1> QED  BY <1>1, <1>2, <1>5, <1>6, <1>9, <1>10, <1>11, <1>12, <1>14, <1>15, <1>16, MoveOK

LEMMA VerifyStep ==
    ASSUME SignInInv, NEW r \in Requests, VerifyNothing(r) \/ VerifyBearer(r)
    PROVE  SignInInv'
  <1>1. CASE VerifyNothing(r)
    BY <1>1, VerifiedStep DEF VerifyNothing
  <1>2. CASE VerifyBearer(r)
    <2> DEFINE v == Found(input[r].cred, "bearer")
    <2>1. v \in Sids \cup {None}
      BY <1>2, FoundIs DEF VerifyBearer, Known
    <2>2. pc[r] = "verify" /\ Verified(r, v) /\ UNCHANGED <<life, kind, links, did, late>>
      BY <1>2 DEF VerifyBearer
    <2> HIDE DEF v
    <2> QED  BY <2>1, <2>2, VerifiedStep
  <1> QED  BY <1>1, <1>2

LEMMA CheckLinkStep ==
    ASSUME SignInInv, NEW r \in Requests, CheckLink(r)
    PROVE  SignInInv'
  <1>1. pc[r] = "took" /\ UNCHANGED <<life, kind, links, did, late>>
    BY DEF CheckLink
  <1>2. PICK v \in IF InTime(input[r].cred) THEN {None, input[r].cred} ELSE {None} : Verified(r, v)
    BY DEF CheckLink
  <1>3. v # None => ~late[r] /\ v = input[r].cred
    BY <1>1, <1>2 DEF InTime, SignInInv, RequestInv, InTimeOnly, Codes
  <1>4. v \in Sids \cup {None} \/ (pc[r] = "took" /\ v = input[r].cred /\ ~late[r])
    BY <1>1, <1>3
  <1> QED  BY <1>1, <1>2, <1>4, VerifiedStep

LEMMA TakeLinkStep ==
    ASSUME SignInInv, NEW r \in Requests, NEW l \in Links, TakeLink(r, l)
    PROVE  SignInInv'
  <1>1. /\ RequestInv(r) /\ pc[r] = "verify" /\ pc[r] \notin Codes
        /\ input[r].cred = l /\ row[l] = "there"
    BY DEF SignInInv, TakeLink, Codes
  <1>2. /\ row' = [row EXCEPT ![l] = "gone"] /\ did' = [did EXCEPT ![r] = did[r] \cup {"took"}]
        /\ Goto(r, "took", held[r]) /\ UNCHANGED <<life, kind, past, by, late>>
    BY DEF TakeLink, RowAfterTake
  <1>3. held[r] \in Known \cup {None} /\ held[r] \in Sids \cup {None}
    BY <1>1 DEF RequestInv, Carries, Known
  <1>4. row' \in [Links -> {"none", "there", "gone"}] /\ row'[l] = "gone"
    BY <1>2 DEF SignInInv, TypeOK
  <1>5. Later /\ Known' = Known
    BY <1>2 DEF Later, Known, SignInInv, TypeOK
  <1>6. pc'[r] = "took" /\ held'[r] = held[r] /\ input'[r] = input[r]
    <2>1. "took" \in Pcs \ {"away"} /\ "took" \notin Codes
      BY DEF Pcs, Codes
    <2> QED  BY <1>1, <1>2, <1>3, <2>1, GotoMoves
  <1>7. CookieOut(r)' = CookieOut(r) /\ HoldsCookie(r)' = HoldsCookie(r)
    BY <1>2, <1>6 DEF CookieOut, HoldsCookie, Acceptable
  <1>8. Routed(r)' /\ Holding(r)'
    BY <1>1, <1>6, <1>7 DEF RequestInv, Routed, Holding, Route
  <1>9. did'[r] \subseteq {"took"} /\ ~Forgery(r)
    BY <1>1, <1>2 DEF RequestInv, Unharmed, Untouched, SignInInv, TypeOK
  <1>10. did' \in [Requests -> SUBSET {"took", "ended", "made", "slid"}]
         /\ \A q \in Requests : q # r => did'[q] = did[q]
    BY <1>2 DEF SignInInv, TypeOK
  <1>11. DataTypes' /\ Quiet(r)
    BY <1>2, <1>4, <1>5, <1>10 DEF SignInInv, TypeOK, DataTypes, Quiet
  <1>12. r \notin Known'
    BY <1>1, <1>5 DEF RequestInv, Carries
  <1> QED  BY <1>1, <1>2, <1>3, <1>4, <1>5, <1>8, <1>9, <1>11, <1>12, MoveOK DEF Pcs

-----------------------------------------------------------------------------
(* Sessions end and are made.                                               *)

LEMMA SessionEnds ==
    ASSUME SignInInv, NEW s \in Known, life' = [life EXCEPT ![s] = "dead"],
           UNCHANGED <<kind, links>>
    PROVE  /\ Later /\ Known' = Known /\ life'[s] = "dead"
           /\ life' \in [Sids -> {"none", "live", "dead"}]
  <1>1. life \in [Sids -> {"none", "live", "dead"}] /\ s \in Sids /\ life[s] # "none"
    BY DEF SignInInv, TypeOK, Known
  <1>2. life'[s] = "dead" /\ \A x \in Sids : x # s => life'[x] = life[x]
    BY <1>1
  <1>3. Known' = Known
    BY <1>1, <1>2 DEF Known
  <1>4. life' \in [Sids -> {"none", "live", "dead"}]
    BY <1>1
  <1> QED  BY <1>2, <1>3, <1>4 DEF Later, Known, links

LEMMA RotateStep ==
    ASSUME SignInInv, NEW r \in Requests, Rotate(r)
    PROVE  SignInInv'
  <1>1. RequestInv(r) /\ pc[r] = "rotate" /\ pc[r] \notin Codes /\ HoldsCookie(r)
    BY DEF SignInInv, RequestInv, Holding, Rotate, Codes
  <1>2. /\ life' = [life EXCEPT ![held[r]] = "dead"]
        /\ did' = [did EXCEPT ![r] = did[r] \cup {"ended"}]
        /\ Goto(r, "create", None) /\ UNCHANGED <<kind, links, by, late>>
    BY DEF Rotate, AfterRotation
  <1>3. held[r] \in Known
    BY <1>1 DEF RequestInv, Carries, HoldsCookie
  <1>4. /\ Later /\ Known' = Known /\ life'[held[r]] = "dead"
        /\ life' \in [Sids -> {"none", "live", "dead"}]
    BY <1>2, <1>3, SessionEnds
  <1>5. pc'[r] = "create" /\ input'[r] = input[r]
    <2>1. "create" \in Pcs /\ "create" \notin Codes /\ None \in Sids \cup {None}
      BY DEF Pcs, Codes
    <2> QED  BY <1>2, <2>1, GotoMoves
  <1>6. CookieOut(r)'
    BY <1>1, <1>4, <1>5 DEF HoldsCookie, CookieOut
  <1>7. Routed(r)' /\ Holding(r)'
    BY <1>5, <1>6 DEF Routed, Holding
  <1>8. did' \in [Requests -> SUBSET {"took", "ended", "made", "slid"}]
        /\ \A q \in Requests : q # r => did'[q] = did[q]
    BY <1>2 DEF SignInInv, TypeOK
  <1>9. DataTypes' /\ Quiet(r)
    BY <1>2, <1>4, <1>8 DEF SignInInv, TypeOK, DataTypes, Quiet, links
  <1>10. r \notin Known' /\ ~Forgery(r) /\ by'[r] \in {by[r], None} \cup Sids
    BY <1>1, <1>2, <1>4 DEF RequestInv, Carries, Unharmed
  <1>11. "create" \in Pcs \ {"away"} /\ "create" \notin {"rotate", "end", "took"} \cup Untouched
    BY DEF Pcs, Untouched
  <1> QED  BY <1>1, <1>2, <1>4, <1>7, <1>9, <1>10, <1>11, MoveOK

LEMMA EndStep ==
    ASSUME SignInInv, NEW r \in Requests, End(r)
    PROVE  SignInInv'
  <1>1. RequestInv(r) /\ pc[r] = "end" /\ pc[r] \notin Codes
    BY DEF SignInInv, End, Codes
  <1>2. /\ life' = [life EXCEPT ![held[r]] = "dead"]
        /\ did' = [did EXCEPT ![r] = did[r] \cup {"ended"}]
        /\ Goto(r, "signed out", None) /\ UNCHANGED <<kind, links, by, late>>
    BY DEF End
  <1>3. held[r] \in Known /\ (input[r].cookie = None \/ held[r] = input[r].cookie)
    BY <1>1 DEF RequestInv, Carries, Holding, HoldsCookie
  <1>4. /\ Later /\ Known' = Known /\ life'[held[r]] = "dead"
        /\ life' \in [Sids -> {"none", "live", "dead"}]
    BY <1>2, <1>3, SessionEnds
  <1>5. pc'[r] = "signed out" /\ input'[r].cookie = input[r].cookie
    BY <1>2, GotoMoves DEF Pcs, Codes
  <1>6. CookieOut(r)'
    <2>1. CASE input[r].cookie = None
      BY <1>5, <2>1 DEF CookieOut
    <2>2. CASE held[r] = input[r].cookie
      BY <1>4, <1>5, <2>2 DEF CookieOut
    <2> QED  BY <1>3, <2>1, <2>2
  <1>7. Routed(r)' /\ Holding(r)'
    BY <1>5, <1>6 DEF Routed, Holding
  <1>8. did' \in [Requests -> SUBSET {"took", "ended", "made", "slid"}]
        /\ \A q \in Requests : q # r => did'[q] = did[q]
    BY <1>2 DEF SignInInv, TypeOK
  <1>9. DataTypes' /\ Quiet(r)
    BY <1>2, <1>4, <1>8 DEF SignInInv, TypeOK, DataTypes, Quiet, links
  <1>10. r \notin Known' /\ ~Forgery(r) /\ by'[r] \in {by[r], None} \cup Sids
    BY <1>1, <1>2, <1>4 DEF RequestInv, Carries, Unharmed
  <1>11. /\ "signed out" \in Pcs \ {"away"}
         /\ "signed out" \notin {"rotate", "end", "took"} \cup Untouched
    BY DEF Pcs, Codes, Untouched
  <1> QED  BY <1>1, <1>2, <1>4, <1>7, <1>9, <1>10, <1>11, MoveOK

LEMMA CreateStep ==
    ASSUME SignInInv, NEW r \in Requests, Create(r)
    PROVE  SignInInv'
  <1>1. RequestInv(r) /\ pc[r] = "create" /\ pc[r] \notin Codes /\ CookieOut(r)
    BY DEF SignInInv, RequestInv, Holding, Create, Codes
  <1>2. /\ life' = [life EXCEPT ![r] = "live"]
        /\ did' = [did EXCEPT ![r] = did[r] \cup {"made"}]
        /\ Goto(r, "signed in", None) /\ UNCHANGED <<links, by, late>>
    BY DEF Create
  <1>3. PICK k \in Kinds : kind' = [kind EXCEPT ![r] = k]
    <2>1. PICK device \in BOOLEAN : kind' = [kind EXCEPT ![r] =
              IF Route(r) = "mint bearer"
                THEN [transport |-> "bearer", rated |-> TRUE, device |-> device]
                ELSE CookieKind]
      BY DEF Create
    <2> DEFINE k == IF Route(r) = "mint bearer"
                      THEN [transport |-> "bearer", rated |-> TRUE, device |-> device]
                      ELSE CookieKind
    <2>2. k \in Kinds
      BY DEF Kinds, CookieKind
    <2>3. kind' = [kind EXCEPT ![r] = k]
      BY <2>1
    <2> HIDE DEF k
    <2> QED  BY <2>2, <2>3
  <1>4. /\ life \in [Sids -> {"none", "live", "dead"}] /\ kind \in [Sids -> Kinds]
        /\ r \in Sids /\ r \notin Known
    BY <1>1 DEF SignInInv, TypeOK, RequestInv, Carries, Sids
  <1>5. /\ life' \in [Sids -> {"none", "live", "dead"}] /\ kind' \in [Sids -> Kinds]
        /\ \A s \in Sids : s # r => life'[s] = life[s] /\ kind'[s] = kind[s]
    BY <1>2, <1>3, <1>4
  <1>6. Known' \subseteq Known \cup {r} /\ Later
    BY <1>2, <1>4, <1>5 DEF Known, Later, links
  <1>7. pc'[r] = "signed in" /\ input'[r].cookie = input[r].cookie
    BY <1>2, GotoMoves DEF Pcs, Codes
  <1>8. CookieOut(r)'
    <2>1. input[r].cookie \in Known \cup {None}
      BY <1>1 DEF RequestInv, Carries
    <2>2. \A s \in Known : kind'[s] = kind[s] /\ life'[s] = life[s]
      BY <1>4, <1>5 DEF Known
    <2> QED  BY <1>1, <1>7, <2>1, <2>2 DEF CookieOut, Acceptable
  <1>9. Routed(r)' /\ Holding(r)'
    BY <1>7, <1>8 DEF Routed, Holding
  <1>10. did' \in [Requests -> SUBSET {"took", "ended", "made", "slid"}]
         /\ \A q \in Requests : q # r => did'[q] = did[q]
    BY <1>2 DEF SignInInv, TypeOK
  <1>11. DataTypes' /\ Quiet(r)
    BY <1>2, <1>5, <1>6, <1>10 DEF SignInInv, TypeOK, DataTypes, Quiet, links
  <1>12. ~Forgery(r) /\ by'[r] \in {by[r], None} \cup Sids
    BY <1>1, <1>2 DEF RequestInv, Unharmed
  <1>13. /\ "signed in" \in Pcs \ {"away"}
         /\ "signed in" \notin {"rotate", "end", "took"} \cup Untouched
    BY DEF Pcs, Codes, Untouched
  <1> QED  BY <1>1, <1>2, <1>6, <1>9, <1>11, <1>12, <1>13, MoveOK

-----------------------------------------------------------------------------
(* The rest of a request's way, and what happens beside it.                 *)

\* A request goes on to `to` with the session s, and writes nothing but perhaps
\* its touch.
LEMMA PassStep ==
    ASSUME SignInInv, NEW r \in Requests, NEW to \in {"401", "end", "ok", "500"},
           NEW s \in Known \cup {None}, Goto(r, to, s), pc[r] \notin Codes \cup {"away", "signed in"},
           UNCHANGED <<life, kind, links, by, late>>,
           did' \in [Requests -> SUBSET {"took", "ended", "made", "slid"}],
           \A q \in Requests : q # r => did'[q] = did[q],
           to \in {"401", "end"} => did'[r] \subseteq {"took"},
           to = "end" => /\ s # None /\ kind[s].transport = "bearer"
                         /\ input[r].cred # None /\ input[r].cookie = None /\ ~Forgery(r)
    PROVE  SignInInv'
  <1>1. RequestInv(r) /\ s \in Sids \cup {None}
    BY DEF SignInInv, Known
  <1>2. to \in Pcs \ {"away"} /\ (to \in Codes <=> to # "end") /\ to \notin {"rotate", "took"}
    BY DEF Pcs, Codes
  <1>3. Later /\ Known' = Known
    BY NothingWritten
  <1>4. /\ pc'[r] = to
        /\ held'[r] = IF to \in Codes THEN None ELSE s
        /\ to \notin Codes => input'[r] = input[r]
    BY <1>1, <1>2, GotoMoves
  <1>5. Routed(r)'
    BY <1>4 DEF Routed
  <1>6. Holding(r)'
    BY <1>2, <1>4 DEF Holding
  <1>7. DataTypes' /\ Quiet(r)
    BY <1>3 DEF SignInInv, TypeOK, DataTypes, Quiet, links
  <1>8. r \notin Known' /\ by'[r] \in {by[r], None} \cup Sids
    BY <1>1, <1>3 DEF RequestInv, Carries
  <1>9. (Forgery(r) => to \in Codes) /\ (to \in Untouched => did'[r] \subseteq {"took"})
    BY <1>2 DEF Untouched
  <1> QED  BY <1>2, <1>3, <1>5, <1>6, <1>7, <1>8, <1>9, MoveOK

LEMMA ReadBearerStep ==
    ASSUME SignInInv, NEW r \in Requests, ReadBearer(r)
    PROVE  SignInInv'
  <1> DEFINE c == input[r].cred
             s == Found(c, "bearer")
             to == IF s = None THEN "401" ELSE "end"
  <1>1. RequestInv(r) /\ pc[r] = "bearer" /\ pc[r] \notin Codes \cup {"away", "signed in"}
    BY DEF SignInInv, ReadBearer, Codes
  <1>2. Goto(r, to, s) /\ UNCHANGED <<life, kind, links, history>>
    BY DEF ReadBearer
  <1>3. c \in Sids \cup Links \cup {None} /\ c # None /\ input[r].cookie = None
    BY <1>1 DEF RequestInv, Routed, SignInInv, InputTypes
  <1>4. s \in Known \cup {None} /\ (s # None => kind[s].transport = "bearer")
    BY <1>3, FoundIs
  <1> HIDE DEF s
  <1>5. did[r] \subseteq {"took"} /\ ~Forgery(r)
    BY <1>1 DEF RequestInv, Unharmed, Untouched
  <1>6. UNCHANGED <<life, kind, links, by, late, did>>
    BY <1>2 DEF history
  <1>7. did' \in [Requests -> SUBSET {"took", "ended", "made", "slid"}]
    BY <1>6 DEF SignInInv, TypeOK
  <1>8. to \in {"401", "end", "ok", "500"} /\ (to = "end" => s # None)
    OBVIOUS
  <1> HIDE DEF to, c
  <1>9. to = "end" => /\ s # None /\ kind[s].transport = "bearer"
                      /\ c # None /\ input[r].cookie = None /\ ~Forgery(r)
    BY <1>3, <1>4, <1>5, <1>8
  <1>10. did'[r] \subseteq {"took"} /\ \A q \in Requests : q # r => did'[q] = did[q]
    BY <1>5, <1>6
  <1> USE DEF c
  <1> QED  BY <1>1, <1>2, <1>4, <1>6, <1>7, <1>8, <1>9, <1>10, PassStep

LEMMA TouchStep ==
    ASSUME SignInInv, NEW r \in Requests, Touch(r)
    PROVE  SignInInv'
  <1>1. /\ Goto(r, "ok", None) /\ pc[r] \notin Codes \cup {"away", "signed in"}
        /\ UNCHANGED <<life, kind, links, by, late>>
    BY DEF Touch, Codes
  <1>2. PICK due \in BOOLEAN : did' = [did EXCEPT ![r] = IF due THEN did[r] \cup {"slid"} ELSE did[r]]
    BY DEF Touch
  <1>3. /\ did' \in [Requests -> SUBSET {"took", "ended", "made", "slid"}]
        /\ \A q \in Requests : q # r => did'[q] = did[q]
    BY <1>2 DEF SignInInv, TypeOK
  <1> QED  BY <1>1, <1>3, PassStep

LEMMA ThrowStep ==
    ASSUME SignInInv, NEW r \in Requests, Throw(r)
    PROVE  SignInInv'
  <1>1. /\ Goto(r, "500", None) /\ pc[r] \notin Codes \cup {"away", "signed in"}
        /\ UNCHANGED <<life, kind, links, by, late, did>>
    BY DEF Throw, Codes, history
  <1>2. did' \in [Requests -> SUBSET {"took", "ended", "made", "slid"}]
    BY <1>1 DEF SignInInv, TypeOK
  <1> QED  BY <1>1, <1>2, PassStep

LEMMA ArrivalIs ==
    ASSUME NEW i \in Arrivals
    PROVE  /\ i \in [route : Routes, cookie : Sids \cup {None},
                     cred : Sids \cup Links \cup {None}, headers : Headers]
           /\ i.cookie \in Known \cup {None} /\ i.route \in Routes \ {"none"}
           /\ i.route \in {"POST /logout", "destroySession"} => i.cred = None
           /\ i.route = "bearer logout" => i.cred # None
           /\ i.route \in {"bearer logout", "mint bearer"} => i.cookie = None
  <1>1. Bare \in Headers /\ Known \subseteq Sids /\ Presentable \subseteq Sids \cup Links \cup {None}
    BY DEF Headers, Known, Presentable
  <1>2. CASE i \in Inputs(Known, Presentable, Headers, {"POST /session", "POST app"})
    BY <1>1, <1>2 DEF Inputs, Routes, ReadRoutes
  <1>3. CASE i \in Inputs(Known, {None}, Headers, {"POST /logout"})
    BY <1>1, <1>3 DEF Inputs, Routes, ReadRoutes
  <1>4. CASE i \in Inputs(Known, Presentable, {Bare}, {"GET app"})
    BY <1>1, <1>4 DEF Inputs, Routes, ReadRoutes
  <1>5. CASE i \in Inputs(Known, {None}, {Bare}, {"GET /session", "destroySession"})
    BY <1>1, <1>5 DEF Inputs, Routes, ReadRoutes
  <1>6. CASE i \in Inputs(Known, Presentable \cap Links, {Bare}, {"GET /callback"})
    BY <1>1, <1>6 DEF Inputs, Routes, ReadRoutes
  <1>7. CASE i \in Inputs({}, Presentable \cap Known, {Bare}, {"bearer logout"})
    BY <1>1, <1>7, NamesAssumption DEF Inputs, Routes, ReadRoutes
  <1>8. CASE i \in Inputs({}, {None}, {Bare}, {"mint bearer"})
    BY <1>1, <1>8 DEF Inputs, Routes, ReadRoutes
  <1> QED  BY <1>2, <1>3, <1>4, <1>5, <1>6, <1>7, <1>8 DEF Arrivals

LEMMA ArriveStep ==
    ASSUME SignInInv, NEW r \in Requests, Arrive(r)
    PROVE  SignInInv'
  <1>1. PICK i \in Arrivals :
            /\ input' = [input EXCEPT ![r] = i]
            /\ pc' = [pc EXCEPT ![r] = First(i.route)]
            /\ late' = [late EXCEPT ![r] = i.cred \in past]
    BY DEF Arrive
  <1>2. pc[r] = "away" /\ UNCHANGED <<life, kind, links, held, did, by>>
    BY DEF Arrive
  <1>3. RequestInv(r) /\ did[r] = {} /\ by[r] = None /\ r \notin Known
    BY <1>2 DEF SignInInv, RequestInv, Carries
  <1>4. /\ i \in [route : Routes, cookie : Sids \cup {None},
                  cred : Sids \cup Links \cup {None}, headers : Headers]
        /\ i.cookie \in Known \cup {None} /\ i.route \in Routes \ {"none"}
        /\ i.route \in {"POST /logout", "destroySession"} => i.cred = None
        /\ i.route = "bearer logout" => i.cred # None
        /\ i.route \in {"bearer logout", "mint bearer"} => i.cookie = None
    BY ArrivalIs
  <1> DEFINE to == First(i.route)
  <1>5. /\ to \in {"verify", "bearer", "create", "read"}
        /\ to = "verify" => i.route = "GET /callback"
        /\ to = "bearer" => i.route = "bearer logout"
        /\ to = "create" => i.route = "mint bearer"
        /\ to = "read" => i.route \in ReadRoutes
        /\ i.route \in {"POST /session", "POST /logout", "POST app"} => to = "read"
    BY <1>4 DEF First, Routes
  <1> HIDE DEF to
  <1>6. /\ input'[r] = i /\ pc'[r] = to /\ late'[r] = (i.cred \in past)
        /\ \A q \in Requests : q # r =>
               input'[q] = input[q] /\ pc'[q] = pc[q] /\ late'[q] = late[q]
    BY <1>1 DEF SignInInv, TypeOK, InputTypes, to
  <1>7. Later /\ Known' = Known
    BY <1>2, NothingWritten
  <1>8. \A q \in Requests : q # r => Stays(q)
    BY <1>2, <1>6, <1>7 DEF Stays
  <1>9. TypeOK'
    <2>1. to \in Pcs /\ to \notin {"rotate", "end"}
      BY <1>5 DEF Pcs
    <2>2. pc' \in [Requests -> Pcs]
      BY <1>1, <2>1 DEF SignInInv, TypeOK, to
    <2>3. late' \in [Requests -> BOOLEAN]
      BY <1>1 DEF SignInInv, TypeOK
    <2>4. \A q \in Requests : pc'[q] \in {"rotate", "end"} => held'[q] # None
      BY <1>2, <1>6, <2>1 DEF SignInInv, TypeOK
    <2> QED  BY <1>2, <2>2, <2>3, <2>4 DEF SignInInv, TypeOK, links
  <1>10. InputTypes'
    BY <1>1, <1>4 DEF SignInInv, InputTypes
  <1>11. Carries(r)'
    BY <1>2, <1>3, <1>4, <1>5, <1>6, <1>7 DEF RequestInv, Carries
  <1>12. Routed(r)'
    BY <1>4, <1>5, <1>6 DEF Routed, Route
  <1>13. Holding(r)'
    BY <1>4, <1>5, <1>6 DEF Holding, CookieOut
  <1>14. Unharmed(r)'
    BY <1>2, <1>3, <1>5, <1>6 DEF Unharmed, Forgery, Changing, Route
  <1>15. InTimeOnly(r)'
    BY <1>2, <1>3, <1>6, NamesAssumption DEF InTimeOnly, links
  <1>16. \A l \in Links : ~Claims(r, l)'
    BY <1>2, <1>3, <1>5, <1>6, NamesAssumption DEF Claims
  <1> QED  BY <1>7, <1>8, <1>9, <1>10, <1>11, <1>12, <1>13, <1>14, <1>15, <1>16, Frame
           DEF RequestInv

\* Links are mailed, lapse and are cleaned up; sessions reach their expiry.
LEMMA WorldStep ==
    ASSUME SignInInv, Later, Known' = Known, UNCHANGED <<input, pc, held, history>>,
           life' \in [Sids -> {"none", "live", "dead"}], kind' = kind,
           row' \in [Links -> {"none", "there", "gone"}], past' \subseteq Links
    PROVE  SignInInv'
  <1>1. \A q \in Requests : Stays(q)
    BY DEF Stays, history
  <1>2. TypeOK' /\ InputTypes'
    BY DEF SignInInv, TypeOK, InputTypes, history
  <1>3. \A q \in Requests : RequestInv(q)'
    BY <1>1, StaysOK
  <1>4. Exclusive'
    BY DEF SignInInv, Exclusive, Claims, Later, history
  <1> QED  BY <1>2, <1>3, <1>4 DEF SignInInv

LEMMA LinkSteps ==
    ASSUME SignInInv, (\E l \in Links : StartLink(l) \/ LapseLink(l)) \/ CleanupLinks
    PROVE  SignInInv'
  <1>1. UNCHANGED <<life, kind, input, pc, held, history>>
    BY DEF StartLink, LapseLink, CleanupLinks
  <1>2. row \in [Links -> {"none", "there", "gone"}] /\ past \subseteq Links
    BY DEF SignInInv, TypeOK
  <1>3. ASSUME NEW l \in Links, StartLink(l)
        PROVE  /\ row' \in [Links -> {"none", "there", "gone"}] /\ past' = past
               /\ \A k \in Links : row[k] = "gone" => row'[k] = "gone"
    BY <1>2, <1>3 DEF StartLink
  <1>4. ASSUME NEW l \in Links, LapseLink(l)
        PROVE  row' = row /\ past' = past \cup {l}
    BY <1>4 DEF LapseLink
  <1>5. ASSUME CleanupLinks
        PROVE  /\ row' \in [Links -> {"none", "there", "gone"}] /\ past' = past
               /\ \A k \in Links : row[k] = "gone" => row'[k] = "gone"
    BY <1>2, <1>5 DEF CleanupLinks
  <1>6. /\ row' \in [Links -> {"none", "there", "gone"}] /\ past' \subseteq Links
        /\ past \subseteq past'
        /\ \A k \in Links : row[k] = "gone" => row'[k] = "gone"
    BY <1>2, <1>3, <1>4, <1>5
  <1>7. Later /\ Known' = Known
    BY <1>1, <1>6 DEF Later, Known
  <1>8. life' \in [Sids -> {"none", "live", "dead"}]
    BY <1>1 DEF SignInInv, TypeOK
  <1> QED  BY <1>1, <1>6, <1>7, <1>8, WorldStep

LEMMA ExpireStep ==
    ASSUME SignInInv, NEW s \in Sids, Expire(s)
    PROVE  SignInInv'
  <1>1. /\ life[s] = "live" /\ life' = [life EXCEPT ![s] = "dead"]
        /\ UNCHANGED <<kind, links, input, pc, held, history>>
    BY DEF Expire
  <1>2. s \in Known
    BY <1>1 DEF Known
  <1>3. Later /\ Known' = Known /\ life' \in [Sids -> {"none", "live", "dead"}]
    BY <1>1, <1>2, SessionEnds
  <1> QED  BY <1>1, <1>3, WorldStep DEF links, SignInInv, TypeOK

LEMMA SignInStep == SignInInv /\ [Next]_vars => SignInInv'
  <1> SUFFICES ASSUME SignInInv, [Next]_vars PROVE SignInInv'
    OBVIOUS
  <1>1. ASSUME NEW r \in Requests, Handle(r) PROVE SignInInv'
    BY <1>1, ArriveStep, ReadStep, VerifyStep, CheckLinkStep, TakeLinkStep, RotateStep, CreateStep,
       ReadBearerStep, EndStep, TouchStep, ThrowStep DEF Handle
  <1>2. ASSUME NEW s \in Sids, Expire(s) PROVE SignInInv'
    BY <1>2, ExpireStep
  <1>3. ASSUME UNCHANGED vars PROVE SignInInv'
    <2>1. UNCHANGED <<life, kind, links, input, pc, held, history>>
      BY <1>3 DEF vars
    <2>2. Later /\ Known' = Known
      BY <2>1, NothingWritten
    <2> QED  BY <2>1, <2>2, WorldStep DEF links, SignInInv, TypeOK
  <1> QED  BY <1>1, <1>2, <1>3, LinkSteps DEF Next

-----------------------------------------------------------------------------
(* What the invariant says.                                                 *)

(* Whatever the requests are and however they interleave, each knows at each *)
(* of its steps what the handlers rely on: whose session it holds, whose     *)
(* link it has taken (routes.ts, createSessionFor, verifyProviders).         *)
THEOREM SignInInvariant == Spec => []SignInInv
  <1> QED  BY Initially, SignInStep, PTL DEF Spec

(* Tables, requests and what they remember keep their types, and a request   *)
(* about to revoke holds a session (createSessionFor, destroySession).       *)
THEOREM SignInTypes == Spec => []TypeOK
  <1>1. SignInInv => TypeOK
    BY DEF SignInInv
  <1> QED  BY <1>1, SignInInvariant, PTL

(* A magic link authenticates one request, whatever races for it, and none   *)
(* that came after it had expired (DELETE ... RETURNING of the link stores). *)
THEOREM LinksSignInOnce == Spec => []LinkSignsInOnce
  <1>1. SignInInv => LinkSignsInOnce
    <2> SUFFICES ASSUME SignInInv, NEW r \in Requests, by[r] \in Links
                 PROVE  ~late[r] /\ \A q \in Requests : by[q] = by[r] => q = r
      BY DEF LinkSignsInOnce
    <2>1. ~late[r]
      BY DEF SignInInv, RequestInv, InTimeOnly
    <2>2. \A q \in Requests : by[q] = by[r] => q = r
      BY DEF SignInInv, Exclusive, Claims
    <2> QED  BY <2>1, <2>2
  <1> QED  BY <1>1, SignInInvariant, PTL

(* A login or a logout that has answered has ended the session of its        *)
(* request's cookie, whatever else happened to it meanwhile.                 *)
THEOREM OutStaysOut == Spec => []OutIsOut
  <1>1. SignInInv => OutIsOut
    BY DEF SignInInv, RequestInv, Holding, CookieOut, OutIsOut
  <1> QED  BY <1>1, SignInInvariant, PTL

(* A 401 or a 403 has changed no session, and a request from another origin  *)
(* has changed nothing at a session endpoint (verifyCsrf).                   *)
THEOREM RefusalChangesNothing == Spec => []RefusedChangesNothing
  <1>1. SignInInv => RefusedChangesNothing
    BY DEF SignInInv, RequestInv, Unharmed, Untouched, Forgery, RefusedChangesNothing
  <1> QED  BY <1>1, SignInInvariant, PTL

-----------------------------------------------------------------------------
(* Cookie and bearer sessions.                                              *)

Apart(r) ==
    /\ (by'[r] # by[r] /\ by'[r] \in Sids) =>
           kind[by'[r]].transport = IF pc[r] = "read" THEN "cookie" ELSE "bearer"
    /\ (did'[r] \ did[r]) \cap {"ended", "slid"} # {} =>
           kind[held[r]].transport = IF pc[r] = "end" /\ input[r].cred # None
                                       THEN "bearer" ELSE "cookie"

LEMMA QuietApart ==
    ASSUME NEW r \in Requests, by'[r] = by[r] \/ by'[r] \notin Sids,
           (did'[r] \ did[r]) \cap {"ended", "slid"} = {}
    PROVE  Apart(r)
  BY DEF Apart

LEMMA HandleApart ==
    ASSUME SignInInv, NEW r \in Requests, Handle(r)
    PROVE  Apart(r) /\ \A q \in Requests : q # r => by'[q] = by[q] /\ did'[q] = did[q]
  <1>1. /\ RequestInv(r) /\ by \in [Requests -> Sids \cup Links \cup {None}]
        /\ did \in [Requests -> SUBSET {"took", "ended", "made", "slid"}]
    BY DEF SignInInv, TypeOK
  <1>2. CASE Read(r)
    <2> DEFINE c == input[r].cookie
               s == Found(c, "cookie")
               to == AfterRead(r, s)
    <2>1. c \in Sids \cup Links \cup {None}
      BY <1>1 DEF RequestInv, Carries, Known
    <2>2. s # None => s = c /\ kind[c].transport = "cookie"
      BY <2>1, FoundIs
    <2>3. /\ by' = [by EXCEPT ![r] = IF to \in {"ok", "app"} THEN s ELSE by[r]]
          /\ did' = did /\ pc[r] = "read"
      BY <1>2 DEF Read
    <2> HIDE DEF s, to
    <2>4. by'[r] \in {by[r], s} /\ \A q \in Requests : q # r => by'[q] = by[q]
      BY <1>1, <2>3
    <2> QED  BY <2>2, <2>3, <2>4, NamesAssumption DEF Apart
  <1>3. CASE VerifyBearer(r)
    <2> DEFINE c == input[r].cred
               s == Found(c, "bearer")
    <2>1. c \in Sids \cup Links \cup {None}
      BY <1>3 DEF VerifyBearer
    <2>2. s # None => s = c /\ kind[c].transport = "bearer"
      BY <2>1, FoundIs
    <2>3. by' = [by EXCEPT ![r] = s] /\ did' = did /\ pc[r] = "verify"
      BY <1>3 DEF VerifyBearer, Verified
    <2> HIDE DEF s
    <2>4. by'[r] = s /\ \A q \in Requests : q # r => by'[q] = by[q]
      BY <1>1, <2>3
    <2> QED  BY <2>2, <2>3, <2>4, NamesAssumption DEF Apart
  <1>4. CASE VerifyNothing(r)
    <2>1. by' = [by EXCEPT ![r] = None] /\ did' = did
      BY <1>4 DEF VerifyNothing, Verified
    <2> QED  BY <1>1, <2>1, NamesAssumption DEF Apart
  <1>5. CASE CheckLink(r)
    <2>1. PICK v \in {None, input[r].cred} : Verified(r, v)
      BY <1>5 DEF CheckLink
    <2>2. by' = [by EXCEPT ![r] = v] /\ did' = did
      BY <1>5, <2>1 DEF CheckLink, Verified
    <2>3. v \in Links \cup {None}
      BY <1>1, <1>5 DEF CheckLink, RequestInv, Routed
    <2> QED  BY <1>1, <2>2, <2>3, NamesAssumption DEF Apart
  <1>6. ASSUME NEW l \in Links, TakeLink(r, l)
        PROVE  Apart(r) /\ \A q \in Requests : q # r => by'[q] = by[q] /\ did'[q] = did[q]
    <2>1. by' = by /\ did' = [did EXCEPT ![r] = did[r] \cup {"took"}]
      BY <1>6 DEF TakeLink
    <2> QED  BY <1>1, <2>1 DEF Apart
  <1>7. CASE Rotate(r)
    <2>1. by' = by /\ did' = [did EXCEPT ![r] = did[r] \cup {"ended"}] /\ pc[r] = "rotate"
      BY <1>7 DEF Rotate
    <2>2. kind[held[r]].transport = "cookie"
      BY <1>1, <2>1 DEF RequestInv, Holding, HoldsCookie
    <2> QED  BY <1>1, <2>1, <2>2 DEF Apart
  <1>8. CASE Create(r)
    <2>1. by' = by /\ did' = [did EXCEPT ![r] = did[r] \cup {"made"}]
      BY <1>8 DEF Create
    <2> QED  BY <1>1, <2>1 DEF Apart
  <1>9. CASE End(r)
    <2>1. by' = by /\ did' = [did EXCEPT ![r] = did[r] \cup {"ended"}] /\ pc[r] = "end"
      BY <1>9 DEF End
    <2>2. kind[held[r]].transport = IF input[r].cred # None THEN "bearer" ELSE "cookie"
      BY <1>1, <2>1 DEF RequestInv, Holding, HoldsCookie
    <2> QED  BY <1>1, <2>1, <2>2 DEF Apart
  <1>10. CASE Touch(r)
    <2>1. PICK due \in BOOLEAN : did' = [did EXCEPT ![r] = IF due THEN did[r] \cup {"slid"} ELSE did[r]]
      BY <1>10 DEF Touch
    <2>2. by' = by /\ pc[r] = "app"
      BY <1>10 DEF Touch
    <2>3. kind[held[r]].transport = "cookie"
      BY <1>1, <2>2 DEF RequestInv, Holding, HoldsCookie
    <2> QED  BY <1>1, <2>1, <2>2, <2>3 DEF Apart
  <1>11. CASE Arrive(r) \/ ReadBearer(r) \/ Throw(r)
    <2>1. by' = by /\ did' = did
      BY <1>11 DEF Arrive, ReadBearer, Throw, history
    <2> QED  BY <2>1 DEF Apart
  <1> QED  BY <1>2, <1>3, <1>4, <1>5, <1>6, <1>7, <1>8, <1>9, <1>10, <1>11 DEF Handle

(* A cookie never authenticates, slides or ends a bearer session, nor a      *)
(* bearer token a cookie session (readCookieSession, readBearerSession).     *)
THEOREM TransportsStayApart == Spec => TransportsApart
  <1>1. SignInInv /\ [Next]_vars => [\A r \in Requests : Apart(r)]_vars
    <2> SUFFICES ASSUME SignInInv, [Next]_vars, NEW r \in Requests, vars' # vars PROVE Apart(r)
      OBVIOUS
    <2>1. ASSUME NEW q \in Requests, Handle(q) PROVE Apart(r)
      <3>1. Apart(q) /\ (r # q => by'[r] = by[r] /\ did'[r] = did[r])
        BY <2>1, HandleApart
      <3> QED  BY <3>1, QuietApart
    <2>2. ASSUME by' = by /\ did' = did PROVE Apart(r)
      BY <2>2, QuietApart
    <2>3. ((\E l \in Links : StartLink(l) \/ LapseLink(l)) \/ CleanupLinks
              \/ \E s \in Sids : Expire(s)) => by' = by /\ did' = did
      BY DEF StartLink, LapseLink, CleanupLinks, Expire, history
    <2> QED  BY <2>1, <2>2, <2>3 DEF Next
  <1>2. [\A r \in Requests : Apart(r)]_vars =>
            [\A r \in Requests :
               /\ (by'[r] # by[r] /\ by'[r] \in Sids) =>
                      kind[by'[r]].transport = IF pc[r] = "read" THEN "cookie" ELSE "bearer"
               /\ (did'[r] \ did[r]) \cap {"ended", "slid"} # {} =>
                      kind[held[r]].transport = IF pc[r] = "end" /\ input[r].cred # None
                                                  THEN "bearer" ELSE "cookie"]_vars
    BY DEF Apart
  <1> QED  BY <1>1, <1>2, SignInInvariant, PTL DEF Spec, TransportsApart
=============================================================================
