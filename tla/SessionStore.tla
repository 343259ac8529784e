------------------------------ MODULE SessionStore ------------------------------
(***************************************************************************)
(* What a SessionStore promises its callers (src/src/types.ts), seen from  *)
(* outside: "Returns null for unknown, expired, or revoked sessions",      *)
(* "Absolute expiry is never moved", "Revokes every session of a user".    *)
(* All sessions are one user's.  A call takes time; what it promises is    *)
(* about calls that began after it returned.                               *)
(*                                                                         *)
(* One thing is allowed that the sentence above does not mention: a get    *)
(* that is under way when a session's lifetime ends may still answer it.   *)
(***************************************************************************)
CONSTANTS Sids, Gets, Revokers

VARIABLES
    known,    \* sessions whose create has returned
    over,     \* sessions past their absolute expiry
    gone,     \* sessions a call that has returned revoked
    covers,   \* the sessions a revocation under way must reach
    state,    \* each get: "idle", "asked", "session" or "null"
    asked,    \* each get: the session it is for, and what held of it at the start
    returned  \* the revocations that have returned

vars == <<known, over, gone, covers, state, asked, returned>>

Init ==
    /\ known = {}
    /\ over = {}
    /\ gone = {}
    /\ covers = [x \in Revokers |-> {}]
    /\ state = [g \in Gets |-> "idle"]
    /\ asked \in [Gets -> {[sid |-> s, gone |-> FALSE, over |-> FALSE] : s \in Sids}]
    /\ returned = {}

Create(s) ==
    /\ known' = known \cup {s}
    /\ UNCHANGED <<over, gone, covers, state, asked, returned>>

\* Time passes.
End ==
    /\ over \subseteq over'
    /\ over' \subseteq Sids
    /\ UNCHANGED <<known, gone, covers, state, asked, returned>>

\* revoke names one session, revokeAllForUser reaches all that are known.
BeginRevoke(x) ==
    /\ x \notin returned
    /\ covers[x] = {}
    /\ \E S \in {known} \cup {{s} : s \in known} : covers' = [covers EXCEPT ![x] = S]
    /\ UNCHANGED <<known, over, gone, state, asked, returned>>

ReturnRevoke(x) ==
    /\ x \notin returned
    /\ returned' = returned \cup {x}
    /\ gone' = gone \cup covers[x]
    /\ UNCHANGED <<known, over, covers, state, asked>>

Ask(g) ==
    /\ state[g] = "idle"
    /\ state' = [state EXCEPT ![g] = "asked"]
    /\ asked' = [asked EXCEPT ![g].gone = asked[g].sid \in gone,
                              ![g].over = asked[g].sid \in over]
    /\ UNCHANGED <<known, over, gone, covers, returned>>

Answer(g) ==
    /\ state[g] = "asked"
    /\ ~asked[g].over
    /\ asked[g].gone => asked[g].sid \in over
    /\ state' = [state EXCEPT ![g] = "session"]
    /\ UNCHANGED <<known, over, gone, covers, asked, returned>>

Refuse(g) ==
    /\ state[g] = "asked"
    /\ state' = [state EXCEPT ![g] = "null"]
    /\ UNCHANGED <<known, over, gone, covers, asked, returned>>

Next ==
    \/ \E s \in Sids : Create(s)
    \/ End
    \/ \E x \in Revokers : BeginRevoke(x) \/ ReturnRevoke(x)
    \/ \E g \in Gets : Ask(g) \/ Answer(g) \/ Refuse(g)

Spec == Init /\ [][Next]_vars
=============================================================================
