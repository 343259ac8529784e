------------------------------- MODULE RateLimits -------------------------------
(***************************************************************************)
(* The fixed-window counters of the auth_rate_limits table, as functions   *)
(* from a row to a row.  Each function is one SQL statement of the store   *)
(* (src/src/device-auth/store.ts), so whoever composes them gets the       *)
(* atomicity the database gives: a request is interrupted between two of   *)
(* them, never inside one.                                                 *)
(*                                                                         *)
(* A row is [count, windowStart].  `now` is the time the request captured, *)
(* which may be older than the row.                                        *)
(*                                                                         *)
(* Here and in the other modules, an operator that precedes another with   *)
(* the same parameters and a longer name (...Mutant, RefundedNever, ...) is a  *)
(* bug somebody could introduce.  No specification uses it: replacing the  *)
(* real operator by it shows that the property it is paired with in        *)
(* PROJECT.json can fail.                                                  *)
(***************************************************************************)
EXTENDS Integers

(***************************************************************************)
(* A bucket with no row.  Every statement treats a missing row and a row   *)
(* whose window has lapsed alike (INSERT and the CASE's first branch write *)
(* the same values), so a missing row is a row that lapsed before time 0.  *)
(***************************************************************************)
RateRows(window) == [count : Nat, windowStart : Nat \cup {-window}]

PairRows(window) == [count : Nat, failures : Nat, windowStart : Nat \cup {-window}]

Absent(window) == [count |-> 0, windowStart |-> -window]

AbsentPair(window) == [count |-> 0, failures |-> 0, windowStart |-> -window]

\* `window_start <= now - window`.
Lapsed(row, window, now) == row.windowStart <= now - window

\* hitRateLimit: count one more, in a new window when the old one has lapsed.
Hit(row, window, now) ==
    IF Lapsed(row, window, now)
    THEN [count |-> 1, windowStart |-> now]
    ELSE [row EXCEPT !.count = @ + 1]

\* reserveRateLimit is the same UPSERT with a WHERE clause: it takes a slot
\* only when this holds, and a refusal writes nothing.
CanReserveMutant(row, window, now, max) ==
    Lapsed(row, window, now) \/ row.count <= max

CanReserve(row, window, now, max) ==
    Lapsed(row, window, now) \/ row.count < max

\* readRateLimit.
CountAt(row, window, now) == IF Lapsed(row, window, now) THEN 0 ELSE row.count

\* refundRateLimit: give a slot back to the window it was taken from, if that
\* window is still the row's.
RefundedNever(row, windowStart) == row

RefundedInAnyWindow(row, windowStart) ==
    IF row.count > 0 THEN [row EXCEPT !.count = @ - 1] ELSE row

RefundedBlindly(row, windowStart) == [row EXCEPT !.count = @ - 1]

Refunded(row, windowStart) ==
    IF row.windowStart = windowStart /\ row.count > 0
    THEN [row EXCEPT !.count = @ - 1]
    ELSE row

\* cleanup: the row is deleted once its window started `horizon` ago.
SweptAtOnce(row, window, horizon, at) ==
    IF row.windowStart < at THEN Absent(window) ELSE row

Swept(row, window, horizon, at) ==
    IF row.windowStart <= at - horizon THEN Absent(window) ELSE row

-----------------------------------------------------------------------------
(* The circuit breaker's row counts attempts and failures together.         *)

\* hitCircuitBreaker.
HitPairStaleFailures(row, window, now, failed) ==
    LET failure == IF failed THEN 1 ELSE 0
    IN  IF Lapsed(row, window, now)
        THEN [count |-> 1, failures |-> row.failures + failure, windowStart |-> now]
        ELSE [count |-> row.count + 1, failures |-> row.failures + failure,
              windowStart |-> row.windowStart]

HitPair(row, window, now, failed) ==
    LET failure == IF failed THEN 1 ELSE 0
    IN  IF Lapsed(row, window, now)
        THEN [count |-> 1, failures |-> failure, windowStart |-> now]
        ELSE [count |-> row.count + 1, failures |-> row.failures + failure,
              windowStart |-> row.windowStart]

SweptPair(row, window, horizon, at) ==
    IF row.windowStart <= at - horizon THEN AbsentPair(window) ELSE row
=============================================================================
