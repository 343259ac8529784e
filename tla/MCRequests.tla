------------------------------- MODULE MCRequests -------------------------------
(***************************************************************************)
(* Model-checking what a request to the Worker, or a call in the browser,  *)
(* goes through: sign-in and sign-out (SignIn), the key caches behind the  *)
(* JWT and API-key providers (Jwks, ApiKeys), and the client (AuthClient). *)
(*                                                                         *)
(* The four share no state: a provider answers with a user or with null,   *)
(* and SignIn takes either; the client sees responses.  A behaviour here   *)
(* is one of either part; the parts not under test rest in one of their    *)
(* initial states.                                                         *)
(***************************************************************************)
EXTENDS SignIn, Jwks, ApiKeys, AuthClient, TLC

CONSTANTS
    k1, k2,  \* kids
    v1, v2   \* verifications of a JWT

VARIABLE tested  \* the part under test

allVars == <<tested, vars, jwksVars, keysVars, clientVars>>

\* The issuer replaces its key once.
OneRotation == <<{k1}, {k2}>>

SignInRests == \A s \in Earlier : kind[s] = CookieKind
\* Verifications are alike: of two choices of their kids that an exchange turns
\* into each other, one will do.
KidsInOrder == kid[v1] = k1 \/ kid[v2] = k2

JwksRests == ~cached /\ \A v \in Verifies : kid[v] = k1
KeysRest == backend = "d1" /\ ~track /\ \A u \in Uses : presented[u] = 1
ClientRests == changes = 0

MCInit ==
    /\ Init /\ JwksInit /\ KeysInit /\ ClientInit
    /\ tested \in {"sign-in", "jwks", "api keys", "client"}
    /\ tested # "sign-in" => SignInRests
    /\ IF tested = "jwks" THEN KidsInOrder ELSE JwksRests
    /\ tested # "api keys" => KeysRest
    /\ tested # "client" => ClientRests

MCNext ==
    /\ UNCHANGED tested
    /\ \/ tested = "sign-in" /\ Next /\ UNCHANGED <<jwksVars, keysVars, clientVars>>
       \/ tested = "jwks" /\ JwksNext /\ UNCHANGED <<vars, keysVars, clientVars>>
       \/ tested = "api keys" /\ KeysNext /\ UNCHANGED <<vars, jwksVars, clientVars>>
       \/ tested = "client" /\ ClientNext /\ UNCHANGED <<vars, jwksVars, keysVars>>

MCSpec == MCInit /\ [][MCNext]_allVars /\ JwksFairness

\* No definition tells two requests, or two of the client's, apart.  The one
\* liveness property is about the verifications of a JWT, which are not permuted.
Symmetry == Permutations(Requests)

---------------------------------------------------------------------------
(* The type invariants of the four modules; AuthClient's says that the map   *)
(* of requests under way is empty whenever nothing is on the wire.           *)
TypesOK == TypeOK /\ JwksTypeOK /\ KeysTypeOK /\ ClientTypeOK
=============================================================================
