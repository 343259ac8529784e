----------------------------- MODULE EmailCodeProofs -----------------------------
(***************************************************************************)
(* Proofs about EmailCode: its types and its counters, which are the       *)
(* failure budgets, the resend cooldown, the hourly cap and the breaker.   *)
(***************************************************************************)
EXTENDS EmailCode, FiniteSetTheorems, TLAPS

-----------------------------------------------------------------------------
(* What each statement on a counter's row preserves, for every window,      *)
(* limit and time (RateLimits).                                             *)

\* A hit leaves a row of the table, in a window that did not start before
\* time 0, and never makes a window start earlier.
LEMMA HitRow ==
    ASSUME NEW window \in Nat \ {0}, NEW t \in Nat, NEW row \in RateRows(window)
    PROVE  /\ Hit(row, window, t) \in RateRows(window)
           /\ Hit(row, window, t).windowStart \in Nat
           /\ Hit(row, window, t).count \in Nat \ {0}
           /\ Lapsed(row, window, t) =>
                /\ Hit(row, window, t).windowStart = t
                /\ Hit(row, window, t).count = 1
           /\ ~Lapsed(row, window, t) =>
                /\ Hit(row, window, t).windowStart = row.windowStart
                /\ Hit(row, window, t).count = row.count + 1
                /\ row.windowStart \in Nat
  <1>1. CASE Lapsed(row, window, t)
    BY <1>1 DEF Hit, RateRows
  <1>2. CASE ~Lapsed(row, window, t)
    <2>1. row.windowStart \in Nat
      BY <1>2 DEF Lapsed, RateRows
    <2> QED  BY <1>2, <2>1 DEF Hit, RateRows
  <1> QED  BY <1>1, <1>2

\* A refund leaves a row of the table, and its window alone.
LEMMA RefundedRow ==
    ASSUME NEW window \in Nat \ {0}, NEW row \in RateRows(window), NEW w
    PROVE  /\ Refunded(row, w) \in RateRows(window)
           /\ Refunded(row, w).windowStart = row.windowStart
           /\ Refunded(row, w).count =
                IF row.windowStart = w /\ row.count > 0 THEN row.count - 1 ELSE row.count
  BY DEF Refunded, RateRows

\* A sweep leaves a row of the table: the old one, or the missing one.
LEMMA SweptRow ==
    ASSUME NEW window \in Nat \ {0}, NEW row \in RateRows(window), NEW horizon, NEW at
    PROVE  /\ Swept(row, window, horizon, at) \in RateRows(window)
           /\ Swept(row, window, horizon, at) \in {row, Absent(window)}
  BY DEF Swept, Absent, RateRows

\* The same for the breaker's row.
LEMMA HitPairRow ==
    ASSUME NEW window \in Nat \ {0}, NEW t \in Nat, NEW row \in PairRows(window),
           NEW failed \in BOOLEAN
    PROVE  /\ HitPair(row, window, t, failed) \in PairRows(window)
           /\ HitPair(row, window, t, failed).windowStart \in Nat
  <1> DEFINE failure == IF failed THEN 1 ELSE 0
  <1>0. failure \in Nat
    OBVIOUS
  <1> HIDE DEF failure
  <1>h. HitPair(row, window, t, failed) =
          IF Lapsed(row, window, t)
          THEN [count |-> 1, failures |-> failure, windowStart |-> t]
          ELSE [count |-> row.count + 1, failures |-> row.failures + failure,
                windowStart |-> row.windowStart]
    BY DEF HitPair, failure
  <1>1. CASE Lapsed(row, window, t)
    BY <1>0, <1>1, <1>h DEF PairRows
  <1>2. CASE ~Lapsed(row, window, t)
    <2>1. row.windowStart \in Nat
      BY <1>2 DEF Lapsed, PairRows
    <2> QED  BY <1>0, <1>2, <1>h, <2>1 DEF PairRows
  <1> QED  BY <1>1, <1>2

LEMMA SweptPairRow ==
    ASSUME NEW window \in Nat \ {0}, NEW row \in PairRows(window), NEW horizon, NEW at
    PROVE  SweptPair(row, window, horizon, at) \in PairRows(window)
  BY DEF SweptPair, AbsentPair, PairRows
-----------------------------------------------------------------------------
(* Types.                                                                   *)

LEMMA TypeInit == Init => TypeOK
  <1> SUFFICES ASSUME Init PROVE TypeOK
    OBVIOUS
  <1> USE TimesAssumption DEF Init
  <1>1. /\ failures \in [Budgets -> RateRows(FailureWindow)]
        /\ cooldown \in [Budgets -> RateRows(Cooldown)]
        /\ hourly \in [Budgets -> RateRows(Hour)]
        /\ ipHits \in [{"start", "verify"} \X Ips -> RateRows(Hour)]
    BY DEF Absent, RateRows
  <1>2. breaker \in PairRows(BreakerWindow)
    BY DEF AbsentPair, PairRows
  <1>3. code \in CodeRows
    BY DEF NoCodeRow, CodeRows
  <1> QED
    BY <1>1, <1>2, <1>3
       DEF TypeOK, Requests, Budgets, StartLabels, VerifyLabels, NoSlot

\* One step of any request or of the surroundings keeps the types.
LEMMA TypeStep == TypeOK /\ [Next]_vars => TypeOK'
  <1> SUFFICES ASSUME TypeOK, [Next]_vars PROVE TypeOK'
    OBVIOUS
  <1> USE TimesAssumption
      DEF TypeOK, Requests, Budgets, StartLabels, VerifyLabels, tables, request, history
  <1>0. ASSUME NEW r \in Requests, NEW label, Goto(r, label),
               r \in Starts => label \in StartLabels,
               r \in Verifies => label \in VerifyLabels
        PROVE  /\ pc' \in [Requests -> StartLabels \cup VerifyLabels]
               /\ \A s \in Starts : pc'[s] \in StartLabels
               /\ \A v \in Verifies : pc'[v] \in VerifyLabels
    BY <1>0 DEF Goto
  <1>1. ASSUME NEW r \in Requests, Arrive(r) PROVE TypeOK'
    BY <1>1, RequestsAssumption DEF Arrive, AfterIp, Goto
  <1>2. ASSUME NEW r \in Requests, IpLimit(r) PROVE TypeOK'
    <2>1. ASSUME NEW i \in Ips,
                 ipHits' = [ipHits EXCEPT ![<<Kind(r), i>>] =
                              Hit(ipHits[<<Kind(r), i>>], Hour, now[r])]
          PROVE  ipHits' \in [{"start", "verify"} \X Ips -> RateRows(Hour)]
      <3>1. <<Kind(r), i>> \in {"start", "verify"} \X Ips
        BY DEF Kind
      <3>2. Hit(ipHits[<<Kind(r), i>>], Hour, now[r]) \in RateRows(Hour)
        BY <3>1, HitRow
      <3> QED  BY <2>1, <3>1, <3>2
    <2>2. ipHits' \in [{"start", "verify"} \X Ips -> RateRows(Hour)]
      BY <1>2, <2>1 DEF IpLimit
    <2>3. PICK label \in {"breaker", "device", "limited"} :
            Goto(r, label) /\ (label = "breaker" => r \in Verifies)
      BY <1>2 DEF IpLimit, AfterIp
    <2>4. /\ pc' \in [Requests -> StartLabels \cup VerifyLabels]
          /\ \A s \in Starts : pc'[s] \in StartLabels
          /\ \A v \in Verifies : pc'[v] \in VerifyLabels
      BY <1>0, <2>3, RequestsAssumption
    <2> QED  BY <1>2, <2>2, <2>4 DEF IpLimit
  <1>3. ASSUME NEW r \in Requests, ChooseBudget(r) PROVE TypeOK'
    BY <1>3, RequestsAssumption DEF ChooseBudget, Goto
  <1>4. ASSUME NEW r \in Requests, Throw(r) PROVE TypeOK'
    BY <1>4 DEF Throw, Goto
  <1>5. ASSUME NEW s \in Starts, CheckFailures(s) PROVE TypeOK'
    BY <1>5, RequestsAssumption DEF CheckFailures, Goto
  <1>6. ASSUME NEW s \in Starts, HitCooldown(s) PROVE TypeOK'
    <2>1. Hit(cooldown[budget[s]], Cooldown, now[s]) \in RateRows(Cooldown)
      BY HitRow
    <2> QED  BY <1>6, <2>1, RequestsAssumption DEF HitCooldown, Goto
  <1>7. ASSUME NEW s \in Starts, HitHourly(s) PROVE TypeOK'
    <2>1. /\ Hit(hourly[budget[s]], Hour, now[s]) \in RateRows(Hour)
          /\ Hit(hourly[budget[s]], Hour, now[s]).windowStart \in Nat
      BY HitRow
    <2> QED  BY <1>7, <2>1, RequestsAssumption DEF HitHourly, Goto
  <1>8. ASSUME NEW s \in Starts, PutEmailCode(s) PROVE TypeOK'
    <2>1. \A c \in Codes : CodeRow(code, c, now[s]) \in CodeRows
      BY DEF CodeRow, CodeRows
    <2> QED  BY <1>8, <2>1, RequestsAssumption DEF PutEmailCode, OpenerAt, Goto
  <1>9. ASSUME NEW v \in Verifies, CheckBreaker(v) PROVE TypeOK'
    BY <1>9, RequestsAssumption DEF CheckBreaker, Goto
  <1>10. ASSUME NEW v \in Verifies, ReserveFailure(v) PROVE TypeOK'
    <2>1. /\ Hit(failures[budget[v]], FailureWindow, now[v]) \in RateRows(FailureWindow)
          /\ Hit(failures[budget[v]], FailureWindow, now[v]).windowStart \in Nat
      BY HitRow
    <2>2. PICK label \in {"attempt", "limited"} : Goto(v, label)
      BY <1>10 DEF ReserveFailure
    <2>3. /\ pc' \in [Requests -> StartLabels \cup VerifyLabels]
          /\ \A s \in Starts : pc'[s] \in StartLabels
          /\ \A w \in Verifies : pc'[w] \in VerifyLabels
      BY <1>0, <2>2, RequestsAssumption
    <2>4. /\ failures' \in [Budgets -> RateRows(FailureWindow)]
          /\ slot' \in [Verifies -> Nat \cup {NoSlot}]
      BY <1>10, <2>1 DEF ReserveFailure
    <2> QED  BY <1>10, <2>3, <2>4 DEF ReserveFailure
  <1>a. \A outcome \in {"verified", "invalid"} :
          Answer(outcome) \in {"verified", "invalid", "reportOk", "reportFailed"}
    BY DEF Answer
  <1>11. ASSUME NEW v \in Verifies, ReserveAttempt(v) PROVE TypeOK'
    <2>1. [code EXCEPT !.attempts = @ + 1] \in CodeRows
      BY DEF CodeRows
    <2>2. code.hash \in Codes \cup {NoCode}
      BY DEF CodeRows
    <2>3. /\ pc' \in [Requests -> StartLabels \cup VerifyLabels]
          /\ \A s \in Starts : pc'[s] \in StartLabels
          /\ \A w \in Verifies : pc'[w] \in VerifyLabels
      <3>1. PICK label \in {"consume", "verified", "invalid", "reportOk", "reportFailed",
                             "refundNoCode"} : Goto(v, label)
        BY <1>11, <1>a DEF ReserveAttempt
      <3> QED  BY <1>0, <3>1, RequestsAssumption
    <2>4. guess' \in [Verifies -> Codes \cup {NoCode}]
      BY <1>11 DEF ReserveAttempt
    <2>5. seen' \in [Verifies -> Codes \cup {NoCode}]
      BY <1>11, <2>2 DEF ReserveAttempt
    <2>6. tries' \in [Verifies -> Starts \cup {NoReq}]
      BY <1>11 DEF ReserveAttempt
    <2>7. code' \in CodeRows
      BY <1>11, <2>1 DEF ReserveAttempt
    <2> QED  BY <1>11, <2>3, <2>4, <2>5, <2>6, <2>7 DEF ReserveAttempt
  <1>12. ASSUME NEW v \in Verifies, ConsumeCode(v) PROVE TypeOK'
    <2>1. NoCodeRow \in CodeRows
      BY DEF CodeRows, NoCodeRow
    <2>2. /\ pc' \in [Requests -> StartLabels \cup VerifyLabels]
          /\ \A s \in Starts : pc'[s] \in StartLabels
          /\ \A w \in Verifies : pc'[w] \in VerifyLabels
      <3>1. PICK label \in {"refund", "verified", "invalid", "reportOk", "reportFailed"} :
              Goto(v, label)
        BY <1>12, <1>a DEF ConsumeCode
      <3> QED  BY <1>0, <3>1, RequestsAssumption
    <2>3. /\ code' \in CodeRows
          /\ won' \in [Verifies -> Starts \cup {NoReq}]
          /\ opener' \in Starts \cup {NoReq}
      BY <1>12, <2>1 DEF ConsumeCode, RowAfterUse
    <2> QED  BY <1>12, <2>2, <2>3 DEF ConsumeCode
  <1>13. ASSUME NEW v \in Verifies, RefundFailure(v) PROVE TypeOK'
    <2>1. Refunded(failures[budget[v]], slot[v]) \in RateRows(FailureWindow)
      BY RefundedRow
    <2> QED  BY <1>13, <1>a, <2>1, RequestsAssumption DEF RefundFailure, Goto
  <1>14. ASSUME NEW v \in Verifies, ReportOutcome(v) PROVE TypeOK'
    <2> DEFINE row == HitPair(breaker, BreakerWindow, now[v], pc[v] = "reportFailed")
    <2>1. row \in PairRows(BreakerWindow) /\ row.windowStart \in Nat
      BY HitPairRow
    <2> HIDE DEF row
    <2>2. ReportOutcome(v) =>
            /\ breaker' = row
            /\ reported' = [reported EXCEPT ![v] = row.windowStart]
      BY DEF ReportOutcome, row
    <2> QED  BY <1>14, <2>1, <2>2, RequestsAssumption DEF ReportOutcome, Goto
  <1>15. ASSUME NEW d \in Devices, LoseDevice(d) PROVE TypeOK'
    BY <1>15 DEF LoseDevice
  <1>16. CASE Cleanup
    <2>1. NoCodeRow \in CodeRows
      BY DEF CodeRows, NoCodeRow
    <2>2. /\ failures' \in [Budgets -> RateRows(FailureWindow)]
          /\ cooldown' \in [Budgets -> RateRows(Cooldown)]
          /\ hourly' \in [Budgets -> RateRows(Hour)]
          /\ ipHits' \in [{"start", "verify"} \X Ips -> RateRows(Hour)]
      BY <1>16, SweptRow DEF Cleanup
    <2>3. breaker' \in PairRows(BreakerWindow)
      BY <1>16, SweptPairRow DEF Cleanup
    <2> QED  BY <1>16, <2>1, <2>2, <2>3 DEF Cleanup
  <1>17. CASE Tick
    BY <1>17 DEF Tick
  <1>18. CASE UNCHANGED vars
    BY <1>18 DEF vars
  <1> QED
    BY <1>1, <1>2, <1>3, <1>4, <1>5, <1>6, <1>7, <1>8, <1>9, <1>10, <1>11, <1>12, <1>13,
       <1>14, <1>15, <1>16, <1>17, <1>18
       DEF Next, Start, Verify

(***************************************************************************)
(* The tables and the requests' locals keep their types; in particular no  *)
(* counter ever goes below zero.                                           *)
(***************************************************************************)
THEOREM EmailCodeTypes == Spec => []TypeOK
  BY TypeInit, TypeStep, PTL DEF Spec

-----------------------------------------------------------------------------
(* A request in flight read the clock at most MaxLatency ago.               *)

Recent ==
    \A r \in Requests : InFlight(r) => now[r] <= clock /\ clock <= now[r] + MaxLatency

LEMMA RecentInit == Init => Recent
  BY DEF Init, Recent, InFlight

LEMMA RecentStep == TypeOK /\ Recent /\ [Next]_vars => Recent'
  <1> SUFFICES ASSUME TypeOK, Recent, [Next]_vars PROVE Recent'
    OBVIOUS
  <1> USE TimesAssumption
      DEF TypeOK, Recent, InFlight, Final, Requests, tables, request, history
  <1>1. ASSUME NEW r \in Requests, NEW label, Goto(r, label), pc[r] # "idle",
               UNCHANGED <<clock, now>>, InFlight(r)
        PROVE  Recent'
    BY <1>1 DEF Goto
  <1>2. ASSUME NEW r \in Requests, Arrive(r) PROVE Recent'
    BY <1>2 DEF Arrive, Goto
  <1>3. ASSUME NEW r \in Requests,
               IpLimit(r) \/ ChooseBudget(r) \/ Throw(r)
        PROVE  Recent'
    <2>1. InFlight(r) /\ pc[r] # "idle" /\ UNCHANGED <<clock, now>>
      BY <1>3 DEF IpLimit, ChooseBudget, Throw
    <2>2. \E label : Goto(r, label)
      BY <1>3 DEF IpLimit, ChooseBudget, Throw
    <2> QED  BY <1>1, <2>1, <2>2
  <1>4. ASSUME NEW s \in Starts,
               CheckFailures(s) \/ HitCooldown(s) \/ HitHourly(s) \/ PutEmailCode(s)
        PROVE  Recent'
    <2>1. InFlight(s) /\ pc[s] # "idle" /\ UNCHANGED <<clock, now>>
      BY <1>4 DEF CheckFailures, HitCooldown, HitHourly, PutEmailCode
    <2>2. \E label : Goto(s, label)
      BY <1>4 DEF CheckFailures, HitCooldown, HitHourly, PutEmailCode
    <2> QED  BY <1>1, <2>1, <2>2
  <1>5. ASSUME NEW v \in Verifies,
               \/ CheckBreaker(v) \/ ReserveFailure(v) \/ ReserveAttempt(v)
               \/ ConsumeCode(v) \/ RefundFailure(v) \/ ReportOutcome(v)
        PROVE  Recent'
    <2>1. InFlight(v) /\ pc[v] # "idle" /\ UNCHANGED <<clock, now>>
      BY <1>5 DEF CheckBreaker, ReserveFailure, ReserveAttempt, ConsumeCode, RefundFailure,
                  ReportOutcome
    <2>2. \E label : Goto(v, label)
      BY <1>5 DEF CheckBreaker, ReserveFailure, ReserveAttempt, ConsumeCode, RefundFailure,
                  ReportOutcome
    <2> QED  BY <1>1, <2>1, <2>2
  <1>6. CASE Tick
    BY <1>6 DEF Tick
  <1>7. ASSUME UNCHANGED <<clock, now, pc>> PROVE Recent'
    BY <1>7
  <1> QED
    BY <1>2, <1>3, <1>4, <1>5, <1>6, <1>7 DEF Next, Start, Verify, LoseDevice, Cleanup, vars

-----------------------------------------------------------------------------
(* Where a verify is, and what it holds there.                              *)

Unreserved == {"idle", "ip", "breaker", "device", "reserve", "limited", "unavailable"}

Stands(v) ==
    /\ pc[v] \in Unreserved =>
         slot[v] = NoSlot /\ v \notin refunded /\ seen[v] = NoCode
    /\ pc[v] \in {"attempt", "consume", "refund", "refundNoCode"} =>
         slot[v] # NoSlot /\ v \notin refunded
    /\ pc[v] \in {"attempt", "refundNoCode"} => seen[v] = NoCode
    /\ pc[v] \in {"consume", "refund"} => seen[v] = guess[v] /\ seen[v] # NoCode
    /\ pc[v] \in {"noCode", "verified", "reportOk"} => v \in refunded
    /\ v \in refunded /\ seen[v] # NoCode => seen[v] = guess[v]
    /\ seen[v] # NoCode => slot[v] # NoSlot

AllStand == \A v \in Verifies : Stands(v)

LEMMA StandInit == Init => AllStand
  BY DEF Init, AllStand, Stands, Unreserved, Requests

LEMMA StandStep == TypeOK /\ AllStand /\ [Next]_vars => AllStand'
  <1> SUFFICES ASSUME TypeOK, AllStand, [Next]_vars PROVE AllStand'
    OBVIOUS
  <1> USE DEF tables, request, history
  \* A step of one verify is judged by what it does to that verify.
  <1>1. ASSUME NEW v \in Verifies, Stands(v)',
               \A u \in Verifies \ {v} :
                 /\ pc'[u] = pc[u] /\ slot'[u] = slot[u] /\ seen'[u] = seen[u]
                 /\ guess'[u] = guess[u] /\ (u \in refunded' <=> u \in refunded)
        PROVE  AllStand'
    BY <1>1 DEF AllStand, Stands
  <1>2. ASSUME \A u \in Verifies : pc'[u] = pc[u],
               UNCHANGED <<slot, seen, guess, refunded>>
        PROVE  AllStand'
    BY <1>2 DEF AllStand, Stands
  <1> USE DEF Requests
  <1>3. ASSUME NEW s \in Starts,
               Arrive(s) \/ Start(s) \/ Throw(s)
        PROVE  AllStand'
    <2>1. UNCHANGED <<slot, seen, guess, refunded>>
      BY <1>3 DEF Arrive, Start, Throw, IpLimit, ChooseBudget, CheckFailures, HitCooldown,
                  HitHourly, PutEmailCode
    <2>2. \E label : Goto(s, label)
      BY <1>3 DEF Arrive, Start, Throw, IpLimit, ChooseBudget, CheckFailures, HitCooldown,
                  HitHourly, PutEmailCode
    <2>3. \A u \in Verifies : pc'[u] = pc[u]
      BY <2>2, RequestsAssumption DEF Goto, TypeOK
    <2> QED  BY <1>2, <2>1, <2>3
  <1>4. ASSUME NEW v \in Verifies,
               Arrive(v) \/ IpLimit(v) \/ CheckBreaker(v) \/ ChooseBudget(v)
        PROVE  AllStand'
    <2>1. UNCHANGED <<slot, seen, guess, refunded>>
      BY <1>4 DEF Arrive, IpLimit, CheckBreaker, ChooseBudget
    <2>2. pc[v] \in Unreserved
      BY <1>4 DEF Arrive, IpLimit, CheckBreaker, ChooseBudget, Unreserved
    <2>3. PICK label \in Unreserved : Goto(v, label)
      BY <1>4, RequestsAssumption
         DEF Arrive, IpLimit, CheckBreaker, ChooseBudget, Unreserved, AfterIp
    <2>4. pc'[v] \in Unreserved /\ \A u \in Verifies \ {v} : pc'[u] = pc[u]
      BY <2>3 DEF Goto, TypeOK
    <2>5. Stands(v)'
      BY <2>1, <2>2, <2>4 DEF AllStand, Stands, Unreserved
    <2> QED  BY <1>1, <2>1, <2>4, <2>5
  <1>5. ASSUME NEW v \in Verifies, Throw(v) PROVE AllStand'
    <2>1. pc'[v] = "error" /\ \A u \in Verifies \ {v} : pc'[u] = pc[u]
      BY <1>5 DEF Throw, Goto, TypeOK
    <2>2. UNCHANGED <<slot, seen, guess, refunded>>
      BY <1>5 DEF Throw
    <2>3. Stands(v)'
      BY <2>1, <2>2 DEF AllStand, Stands, Unreserved
    <2> QED  BY <1>1, <2>1, <2>2, <2>3
  <1>6. ASSUME NEW v \in Verifies, ReserveFailure(v) PROVE AllStand'
    <2>1. /\ UNCHANGED <<seen, guess, refunded>>
          /\ pc[v] \in Unreserved
          /\ \A u \in Verifies \ {v} : pc'[u] = pc[u] /\ slot'[u] = slot[u]
      BY <1>6 DEF ReserveFailure, Goto, TypeOK, Unreserved
    <2>2. \/ pc'[v] = "limited" /\ slot'[v] = slot[v]
          \/ pc'[v] = "attempt" /\ slot'[v] # NoSlot
      <3>1. Hit(failures[budget[v]], FailureWindow, now[v]).windowStart \in Nat
        BY HitRow, TimesAssumption DEF TypeOK, Budgets
      <3> QED  BY <1>6, <3>1 DEF ReserveFailure, Goto, TypeOK, NoSlot
    <2>3. Stands(v)'
      BY <2>1, <2>2 DEF AllStand, Stands, Unreserved
    <2> QED  BY <1>1, <2>1, <2>3
  <1>a. /\ Answer("verified") \in {"verified", "reportOk"}
        /\ Answer("invalid") \in {"invalid", "reportFailed"}
    BY DEF Answer
  <1>7. ASSUME NEW v \in Verifies, ReserveAttempt(v) PROVE AllStand'
    <2>1. /\ UNCHANGED <<slot, refunded>>
          /\ pc[v] = "attempt"
          /\ \A u \in Verifies \ {v} :
                pc'[u] = pc[u] /\ seen'[u] = seen[u] /\ guess'[u] = guess[u]
      BY <1>7 DEF ReserveAttempt, Goto, TypeOK
    <2>2. \/ pc'[v] = "refundNoCode" /\ seen'[v] = seen[v]
          \/ pc'[v] = "consume" /\ seen'[v] = guess'[v] /\ seen'[v] # NoCode
          \/ pc'[v] \in {"invalid", "reportFailed"}
      BY <1>7, <1>a, NamesAssumption DEF ReserveAttempt, Goto, TypeOK
    <2>3. Stands(v)'
      BY <2>1, <2>2 DEF AllStand, Stands, Unreserved
    <2> QED  BY <1>1, <2>1, <2>3
  <1>8. ASSUME NEW v \in Verifies, ConsumeCode(v) PROVE AllStand'
    <2>1. /\ UNCHANGED <<slot, refunded, seen, guess>>
          /\ pc[v] = "consume"
          /\ \A u \in Verifies \ {v} : pc'[u] = pc[u]
      BY <1>8 DEF ConsumeCode, Goto, TypeOK
    <2>2. pc'[v] \in {"refund", "invalid", "reportFailed"}
      BY <1>8, <1>a DEF ConsumeCode, Goto, TypeOK
    <2>3. Stands(v)'
      BY <2>1, <2>2 DEF AllStand, Stands, Unreserved
    <2> QED  BY <1>1, <2>1, <2>3
  <1>9. ASSUME NEW v \in Verifies, RefundFailure(v) PROVE AllStand'
    <2>1. /\ UNCHANGED <<slot, seen, guess>>
          /\ refunded' = refunded \cup {v}
          /\ pc[v] \in {"refundNoCode", "refund"}
          /\ \A u \in Verifies \ {v} : pc'[u] = pc[u]
      BY <1>9 DEF RefundFailure, Goto, TypeOK
    <2>2. pc'[v] \in {"noCode", "verified", "reportOk"}
      BY <1>9, <1>a DEF RefundFailure, Goto, TypeOK
    <2>3. Stands(v)'
      BY <2>1, <2>2 DEF AllStand, Stands, Unreserved
    <2> QED  BY <1>1, <2>1, <2>3
  <1>10. ASSUME NEW v \in Verifies, ReportOutcome(v) PROVE AllStand'
    <2>1. /\ UNCHANGED <<slot, seen, guess, refunded>>
          /\ \/ pc[v] = "reportOk" /\ pc'[v] = "verified"
             \/ pc[v] = "reportFailed" /\ pc'[v] = "invalid"
          /\ \A u \in Verifies \ {v} : pc'[u] = pc[u]
      BY <1>10 DEF ReportOutcome, Goto, TypeOK
    <2>2. Stands(v)'
      BY <2>1 DEF AllStand, Stands, Unreserved
    <2> QED  BY <1>1, <2>1, <2>2
  <1>11. CASE UNCHANGED <<pc, slot, seen, guess, refunded>>
    BY <1>2, <1>11
  <1> QED
    BY <1>3, <1>4, <1>5, <1>6, <1>7, <1>8, <1>9, <1>10, <1>11
       DEF Next, Verify, Start, LoseDevice, Cleanup, Tick, vars

-----------------------------------------------------------------------------
(* The failure budgets.                                                     *)

(***************************************************************************)
(* Where the window a verify reserved in lies, against its budget's row:   *)
(* it is the row's; or an earlier one, that ended by the `now` that began  *)
(* the row's; or the row was swept since, a horizon after the window began.*)
(***************************************************************************)
Placed(v) ==
    LET ws == failures[budget[v]].windowStart
    IN  slot[v] # NoSlot =>
          \/ slot[v] = ws
          \/ slot[v] < ws /\ slot[v] + FailureWindow <= ws + MaxLatency
          \/ ws = -FailureWindow /\ slot[v] + Horizon <= clock

AllPlaced == \A v \in Verifies : Placed(v)

HoldersCapped ==
    \A b \in Budgets : \A w \in Nat : Cardinality(Holders(b, w)) <= MaxFailures(b)

BudgetInv == AllPlaced /\ WindowsApart /\ BudgetExact /\ HoldersCapped

LEMMA MaxFailuresType == \A b \in Budgets : MaxFailures(b) \in Nat \ {0}
  BY LimitsAssumption DEF Budgets, MaxFailures

\* Holders are verifies, so there are finitely many.
LEMMA HoldersFinite ==
    \A b, w : IsFiniteSet(Holders(b, w)) /\ Cardinality(Holders(b, w)) \in Nat
  <1> SUFFICES ASSUME NEW b, NEW w
               PROVE  IsFiniteSet(Holders(b, w)) /\ Cardinality(Holders(b, w)) \in Nat
    OBVIOUS
  <1>1. Holders(b, w) \in SUBSET Verifies
    BY DEF Holders
  <1>2. IsFiniteSet(Holders(b, w))
    BY <1>1, RequestsAssumption, FS_Subset
  <1> QED  BY <1>2, FS_CardinalityType

LEMMA HoldersFinitePrime ==
    \A b, w : IsFiniteSet(Holders(b, w)') /\ Cardinality(Holders(b, w)') \in Nat
  <1> SUFFICES ASSUME NEW b, NEW w
               PROVE  IsFiniteSet(Holders(b, w)') /\ Cardinality(Holders(b, w)') \in Nat
    OBVIOUS
  <1>1. Holders(b, w)' \in SUBSET Verifies
    BY DEF Holders
  <1>2. IsFiniteSet(Holders(b, w)')
    BY <1>1, RequestsAssumption, FS_Subset
  <1> QED  BY <1>2, FS_CardinalityType

LEMMA BudgetInit == Init => BudgetInv
  <1> SUFFICES ASSUME Init PROVE BudgetInv
    OBVIOUS
  <1>1. AllPlaced /\ WindowsApart
    BY DEF Init, AllPlaced, Placed, WindowsApart
  <1>2. \A b, w : Holders(b, w) = {}
    BY DEF Init, Holders
  <1>3. \A b, w : Cardinality(Holders(b, w)) = 0
    BY <1>2, FS_EmptySet
  <1>4. BudgetExact
    BY <1>3 DEF Init, BudgetExact, Absent
  <1>5. HoldersCapped
    BY <1>3, MaxFailuresType DEF HoldersCapped
  <1> QED  BY <1>1, <1>4, <1>5 DEF BudgetInv

\* A step that touches no counter and no reservation: it may let time pass, and
\* a verify that holds no reservation may choose its budget.
LEMMA BudgetFrame ==
    ASSUME TypeOK, BudgetInv, UNCHANGED <<failures, slot, refunded>>,
           clock' \in Nat, clock <= clock',
           \A v \in Verifies : budget'[v] = budget[v] \/ slot[v] = NoSlot
    PROVE  BudgetInv'
  <1>1. \A b, w : Holders(b, w)' = Holders(b, w)
    BY DEF Holders
  <1>2. AllPlaced'
    BY TimesAssumption, HorizonAssumption DEF BudgetInv, AllPlaced, Placed, TypeOK, NoSlot
  <1>3. WindowsApart'
    <2> SUFFICES ASSUME NEW v1 \in Verifies, NEW v2 \in Verifies,
                        budget'[v1] = budget'[v2], slot[v1] # NoSlot, slot[v1] < slot[v2]
                 PROVE  slot[v2] - slot[v1] >= FailureWindow - MaxLatency
      BY DEF WindowsApart
    <2>1. slot[v2] # NoSlot
      BY DEF TypeOK, NoSlot
    <2>2. budget[v1] = budget[v2]
      BY <2>1
    <2> QED  BY <2>2 DEF BudgetInv, WindowsApart
  <1>4. BudgetExact'
    BY <1>1 DEF BudgetInv, BudgetExact
  <1>5. HoldersCapped'
    BY <1>1 DEF BudgetInv, HoldersCapped
  <1> QED  BY <1>2, <1>3, <1>4, <1>5 DEF BudgetInv

\* reserveRateLimit: one more reservation, in the row's window or in a new one.
LEMMA BudgetReserve ==
    ASSUME TypeOK, BudgetInv, Recent, AllStand, NEW v \in Verifies, ReserveFailure(v)
    PROVE  BudgetInv'
  <1> USE TimesAssumption, HorizonAssumption
  <1> DEFINE b == budget[v]
             row == failures[b]
             hit == Hit(row, FailureWindow, now[v])
             ws == row.windowStart
  <1>1. CASE UNCHANGED <<failures, slot>>
    <2>1. UNCHANGED <<refunded, clock, budget>>
      BY DEF ReserveFailure, history
    <2> QED  BY <1>1, <2>1, BudgetFrame DEF TypeOK
  <1>2. CASE /\ CanReserve(row, FailureWindow, now[v], MaxFailures(b))
             /\ failures' = [failures EXCEPT ![b] = hit]
             /\ slot' = [slot EXCEPT ![v] = hit.windowStart]
    <2>1. /\ b \in Budgets /\ row \in RateRows(FailureWindow) /\ now[v] \in Nat
          /\ ws \in Nat \cup {-FailureWindow} /\ row.count \in Nat /\ clock \in Nat
      BY DEF TypeOK, RateRows, Requests
    <2>2. UNCHANGED <<refunded, clock, budget>> /\ pc[v] = "reserve"
      BY DEF ReserveFailure, history
    <2>3. now[v] <= clock /\ clock <= now[v] + MaxLatency
      BY <2>2 DEF Recent, InFlight, Final, Requests
    <2>4. slot[v] = NoSlot /\ v \notin refunded
      BY <2>2 DEF AllStand, Stands, Unreserved
    <2>5. /\ slot'[v] = hit.windowStart
          /\ \A u \in Verifies \ {v} : slot'[u] = slot[u]
          /\ failures'[b] = hit
          /\ \A c \in Budgets \ {b} : failures'[c] = failures[c]
          /\ \A u \in Verifies : slot[u] \in Nat \cup {NoSlot}
      BY <1>2, <2>1 DEF TypeOK
    <2>6. /\ hit.windowStart \in Nat
          /\ Lapsed(row, FailureWindow, now[v]) => hit.windowStart = now[v] /\ hit.count = 1
          /\ ~Lapsed(row, FailureWindow, now[v]) =>
               /\ hit.windowStart = ws /\ hit.count = row.count + 1 /\ ws \in Nat
      BY <2>1, HitRow
    <2> HIDE DEF hit
    \* Every window reserved in so far lies before the new one, or is the row's.
    <2>7. ASSUME NEW u \in Verifies \ {v}, budget[u] = b, slot[u] # NoSlot
          PROVE  /\ Lapsed(row, FailureWindow, now[v]) =>
                      /\ slot[u] < now[v]
                      /\ slot[u] + FailureWindow <= now[v] + MaxLatency
                 /\ ~Lapsed(row, FailureWindow, now[v]) =>
                      \/ slot[u] = ws
                      \/ slot[u] < ws /\ slot[u] + FailureWindow <= ws + MaxLatency
      <3>1. \/ slot[u] = ws
            \/ slot[u] < ws /\ slot[u] + FailureWindow <= ws + MaxLatency
            \/ ws = -FailureWindow /\ slot[u] + Horizon <= clock
        BY <2>7 DEF BudgetInv, AllPlaced, Placed
      <3>2. slot[u] \in Nat
        BY <2>5, <2>7
      <3> QED  BY <2>1, <2>3, <2>6, <3>1, <3>2 DEF Lapsed
    <2>8. AllPlaced'
      <3> SUFFICES ASSUME NEW u \in Verifies PROVE Placed(u)'
        BY DEF AllPlaced
      <3>1. CASE u = v
        BY <2>2, <2>5, <3>1 DEF Placed
      <3>2. CASE u # v /\ budget[u] = b
        BY <2>1, <2>2, <2>5, <2>6, <2>7, <3>2 DEF Placed
      <3>3. CASE u # v /\ budget[u] # b
        <4>1. Placed(u) /\ budget[u] \in Budgets
          BY DEF BudgetInv, AllPlaced, TypeOK, Requests
        <4> QED  BY <2>2, <2>5, <3>3, <4>1 DEF Placed
      <3> QED  BY <3>1, <3>2, <3>3
    <2>9. WindowsApart'
      <3> SUFFICES ASSUME NEW v1 \in Verifies, NEW v2 \in Verifies,
                          budget[v1] = budget[v2],
                          slot'[v1] # NoSlot, slot'[v1] < slot'[v2]
                   PROVE  slot'[v2] - slot'[v1] >= FailureWindow - MaxLatency
        BY <2>2 DEF WindowsApart
      <3>1. CASE v1 # v /\ v2 # v
        BY <2>5, <3>1 DEF BudgetInv, WindowsApart
      <3>2. CASE v1 # v /\ v2 = v
        BY <2>1, <2>5, <2>6, <2>7, <3>2
      <3>3. CASE v1 = v /\ v2 # v
        <4>1. slot[v2] # NoSlot /\ slot[v2] \in Nat
          BY <2>5, <2>6, <3>3 DEF NoSlot
        <4> QED  BY <2>1, <2>5, <2>6, <2>7, <3>3, <4>1
      <3>4. CASE v1 = v /\ v2 = v
        BY <2>5, <2>6, <3>4
      <3> QED  BY <3>1, <3>2, <3>3, <3>4
    \* The budget and the window reserved in, as values the step does not change.
    <2>10. PICK d \in Budgets, n \in Nat : d = b /\ n = hit.windowStart
      BY <2>1, <2>6
    <2>11. v \notin Holders(d, n) /\ Holders(d, n)' = Holders(d, n) \cup {v}
      BY <2>2, <2>4, <2>5, <2>10 DEF Holders, NoSlot
    <2>12. \A c \in Budgets : \A w : c # d \/ w # n => Holders(c, w)' = Holders(c, w)
      BY <2>2, <2>4, <2>5, <2>10 DEF Holders
    <2>13. Cardinality(Holders(d, n)') = Cardinality(Holders(d, n)) + 1
      <3>1. Cardinality(Holders(d, n) \cup {v}) = Cardinality(Holders(d, n)) + 1
        BY <2>11, HoldersFinite, FS_AddElement, Zenon
      <3> QED  BY <2>11, <3>1
    <2>14. hit.count = Cardinality(Holders(d, n)')
      <3>1. CASE Lapsed(row, FailureWindow, now[v])
        <4>1. Holders(d, n) = {}
          BY <2>1, <2>4, <2>5, <2>6, <2>7, <2>10, <3>1 DEF Holders
        <4> QED  BY <2>6, <2>13, <3>1, <4>1, FS_EmptySet
      <3>2. CASE ~Lapsed(row, FailureWindow, now[v])
        BY <2>1, <2>6, <2>10, <2>13, <3>2 DEF BudgetInv, BudgetExact
      <3> QED  BY <3>1, <3>2
    <2>15. BudgetExact'
      <3> SUFFICES ASSUME NEW c \in Budgets, NEW w, w = failures'[c].windowStart
                   PROVE  failures'[c].count = Cardinality(Holders(c, w)')
        BY DEF BudgetExact
      <3>1. CASE c = d
        BY <2>5, <2>10, <2>14, <3>1
      <3>2. CASE c # d
        BY <2>5, <2>10, <2>12, <3>2 DEF BudgetInv, BudgetExact
      <3> QED  BY <3>1, <3>2
    <2>16. HoldersCapped'
      <3> SUFFICES ASSUME NEW c \in Budgets, NEW w \in Nat
                   PROVE  Cardinality(Holders(c, w)') <= MaxFailures(c)
        BY DEF HoldersCapped
      <3>1. CASE c = d /\ w = n
        <4>1. MaxFailures(b) \in Nat \ {0}
          BY <2>1, MaxFailuresType
        <4>2. hit.count <= MaxFailures(b)
          BY <1>2, <2>1, <2>6, <4>1 DEF CanReserve
        <4> QED  BY <2>10, <2>14, <3>1, <4>2
      <3>2. CASE c # d \/ w # n
        BY <2>12, <3>2 DEF BudgetInv, HoldersCapped
      <3> QED  BY <3>1, <3>2
    <2> QED  BY <2>8, <2>9, <2>15, <2>16 DEF BudgetInv
  <1> QED  BY <1>1, <1>2 DEF ReserveFailure

\* refundRateLimit: the reservation goes, and its count if the window still runs.
LEMMA BudgetRefund ==
    ASSUME TypeOK, BudgetInv, AllStand, NEW v \in Verifies, RefundFailure(v)
    PROVE  BudgetInv'
  <1> USE TimesAssumption
  <1> DEFINE b == budget[v]
             row == failures[b]
             left == Refunded(row, slot[v])
  <1>1. /\ failures' = [failures EXCEPT ![b] = left]
        /\ refunded' = refunded \cup {v}
        /\ UNCHANGED <<clock, slot, budget>>
    BY DEF RefundFailure
  <1>2. slot[v] # NoSlot /\ v \notin refunded
    BY DEF RefundFailure, AllStand, Stands
  <1>3. b \in Budgets /\ row \in RateRows(FailureWindow) /\ row.count \in Nat
    BY DEF TypeOK, RateRows, Requests
  <1>4. /\ left.windowStart = row.windowStart
        /\ left.count =
             IF row.windowStart = slot[v] /\ row.count > 0 THEN row.count - 1 ELSE row.count
    BY <1>3, RefundedRow
  <1> HIDE DEF left
  <1>5. failures'[b] = left /\ \A c \in Budgets \ {b} : failures'[c] = failures[c]
    BY <1>1, <1>3 DEF TypeOK
  <1>6. \A c \in Budgets : failures'[c].windowStart = failures[c].windowStart
    BY <1>4, <1>5
  <1>7. AllPlaced' /\ WindowsApart'
    <2>1. \A u \in Verifies : budget[u] \in Budgets
      BY DEF TypeOK, Requests
    <2> QED  BY <1>1, <1>6, <2>1 DEF BudgetInv, AllPlaced, Placed, WindowsApart
  \* The budget and the window it was taken from, as values.
  <1>8. PICK d \in Budgets, n \in Nat : d = b /\ n = slot[v]
    BY <1>2, <1>3 DEF TypeOK
  <1>9. v \in Holders(d, n) /\ Holders(d, n)' = Holders(d, n) \ {v}
    BY <1>1, <1>2, <1>8 DEF Holders
  <1>10. Cardinality(Holders(d, n)') = Cardinality(Holders(d, n)) - 1
    <2>1. Cardinality(Holders(d, n) \ {v}) = Cardinality(Holders(d, n)) - 1
      BY <1>9, HoldersFinite, FS_RemoveElement, Zenon
    <2> QED  BY <1>9, <2>1
  <1>11. \A c \in Budgets : \A w : c # d \/ w # n => Holders(c, w)' = Holders(c, w)
    BY <1>1, <1>8 DEF Holders
  <1>12. BudgetExact'
    <2> SUFFICES ASSUME NEW c \in Budgets, NEW w, w = failures[c].windowStart
                 PROVE  failures'[c].count = Cardinality(Holders(c, w)')
      BY <1>6 DEF BudgetExact
    <2>1. failures[c].count = Cardinality(Holders(c, w))
      BY DEF BudgetInv, BudgetExact
    <2>2. CASE c = d /\ w = n
      <3>1. Holders(d, n) # {} /\ IsFiniteSet(Holders(d, n))
        BY <1>9, HoldersFinite
      <3>2. row.count = Cardinality(Holders(d, n))
        BY <1>8, <2>1, <2>2
      <3>3. row.count > 0
        BY <1>3, <3>1, <3>2, FS_EmptySet
      <3> QED  BY <1>3, <1>4, <1>5, <1>8, <1>10, <2>2, <3>2, <3>3
    <2>3. CASE c = d /\ w # n
      BY <1>4, <1>5, <1>8, <1>11, <2>1, <2>3
    <2>4. CASE c # d
      BY <1>5, <1>8, <1>11, <2>1, <2>4
    <2> QED  BY <2>2, <2>3, <2>4
  <1>13. HoldersCapped'
    <2> SUFFICES ASSUME NEW c \in Budgets, NEW w \in Nat
                 PROVE  Cardinality(Holders(c, w)') <= MaxFailures(c)
      BY DEF HoldersCapped
    <2>1. Cardinality(Holders(c, w)) <= MaxFailures(c)
      BY DEF BudgetInv, HoldersCapped
    <2>2. CASE c = d /\ w = n
      <3>1. Cardinality(Holders(d, n)) \in Nat /\ MaxFailures(c) \in Nat
        BY HoldersFinite, MaxFailuresType
      <3> QED  BY <1>10, <2>1, <2>2, <3>1
    <2>3. CASE c # d \/ w # n
      BY <1>11, <2>1, <2>3
    <2> QED  BY <2>2, <2>3
  <1> QED  BY <1>7, <1>12, <1>13 DEF BudgetInv

\* cleanup: a row that goes was the last to know of its window, but everything
\* reserved on it is a horizon old.
LEMMA BudgetCleanup ==
    ASSUME TypeOK, BudgetInv, Cleanup
    PROVE  BudgetInv'
  <1> USE TimesAssumption, HorizonAssumption
  <1>1. UNCHANGED <<clock, slot, refunded, budget>>
    BY DEF Cleanup, request
  <1>2. \A b, w : Holders(b, w)' = Holders(b, w)
    BY <1>1 DEF Holders
  <1>3. \A b \in Budgets :
          \/ failures'[b] = failures[b]
          \/ failures'[b] = Absent(FailureWindow) /\ failures[b].windowStart <= clock - Horizon
    BY DEF Cleanup, Swept
  <1>4. \A b \in Budgets :
          /\ failures[b].windowStart \in Nat \cup {-FailureWindow}
          /\ Absent(FailureWindow).windowStart = -FailureWindow
          /\ Absent(FailureWindow).count = 0
    BY DEF TypeOK, RateRows, Absent
  <1>5. AllPlaced'
    <2> SUFFICES ASSUME NEW v \in Verifies, slot[v] # NoSlot PROVE Placed(v)'
      BY <1>1 DEF AllPlaced, Placed
    <2>1. budget[v] \in Budgets /\ slot[v] \in Nat /\ clock \in Nat
      BY DEF TypeOK, Requests
    <2>2. Placed(v)
      BY DEF BudgetInv, AllPlaced
    <2>3. CASE failures'[budget[v]] = failures[budget[v]]
      BY <1>1, <2>2, <2>3 DEF Placed
    <2>4. CASE /\ failures'[budget[v]] = Absent(FailureWindow)
               /\ failures[budget[v]].windowStart <= clock - Horizon
      <3>1. slot[v] + Horizon <= clock
        BY <1>4, <2>1, <2>2, <2>4 DEF Placed
      <3> QED  BY <1>1, <1>4, <2>1, <2>4, <3>1 DEF Placed
    <2> QED  BY <1>3, <2>1, <2>3, <2>4
  <1>6. WindowsApart'
    BY <1>1 DEF BudgetInv, WindowsApart
  <1>7. BudgetExact'
    <2> SUFFICES ASSUME NEW b \in Budgets, NEW w, w = failures'[b].windowStart
                 PROVE  failures'[b].count = Cardinality(Holders(b, w)')
      BY DEF BudgetExact
    <2>1. CASE failures'[b] = failures[b]
      BY <1>2, <2>1 DEF BudgetInv, BudgetExact
    <2>2. CASE failures'[b] = Absent(FailureWindow)
      <3>1. Holders(b, w) = {}
        BY <1>4, <2>2 DEF Holders, TypeOK, NoSlot
      <3> QED  BY <1>2, <1>4, <2>2, <3>1, FS_EmptySet
    <2> QED  BY <1>3, <2>1, <2>2
  <1>8. HoldersCapped'
    BY <1>2 DEF BudgetInv, HoldersCapped
  <1> QED  BY <1>5, <1>6, <1>7, <1>8 DEF BudgetInv

LEMMA BudgetStep == TypeOK /\ Recent /\ AllStand /\ BudgetInv /\ [Next]_vars => BudgetInv'
  <1> SUFFICES ASSUME TypeOK, Recent, AllStand, BudgetInv, [Next]_vars PROVE BudgetInv'
    OBVIOUS
  <1> USE DEF tables, request, history
  <1>0. clock \in Nat
    BY DEF TypeOK
  <1>1. ASSUME UNCHANGED <<clock, failures, slot, refunded, budget>> PROVE BudgetInv'
    BY <1>0, <1>1, BudgetFrame
  <1>2. ASSUME NEW r \in Requests, ChooseBudget(r) PROVE BudgetInv'
    <2>1. UNCHANGED <<clock, failures, slot, refunded>> /\ pc[r] = "device"
      BY <1>2 DEF ChooseBudget
    <2>2. \A v \in Verifies : budget'[v] = budget[v] \/ slot[v] = NoSlot
      <3> SUFFICES ASSUME NEW v \in Verifies PROVE budget'[v] = budget[v] \/ slot[v] = NoSlot
        OBVIOUS
      <3>1. CASE v = r
        BY <2>1, <3>1 DEF AllStand, Stands, Unreserved
      <3>2. CASE v # r
        BY <1>2, <3>2 DEF ChooseBudget, TypeOK
      <3> QED  BY <3>1, <3>2
    <2> QED  BY <1>0, <2>1, <2>2, BudgetFrame
  <1>3. ASSUME NEW r \in Requests, Arrive(r) \/ IpLimit(r) \/ Throw(r) PROVE BudgetInv'
    BY <1>1, <1>3 DEF Arrive, IpLimit, Throw
  <1>4. ASSUME NEW s \in Starts,
               CheckFailures(s) \/ HitCooldown(s) \/ HitHourly(s) \/ PutEmailCode(s)
        PROVE  BudgetInv'
    BY <1>1, <1>4 DEF CheckFailures, HitCooldown, HitHourly, PutEmailCode
  <1>5. ASSUME NEW v \in Verifies,
               CheckBreaker(v) \/ ReserveAttempt(v) \/ ConsumeCode(v) \/ ReportOutcome(v)
        PROVE  BudgetInv'
    BY <1>1, <1>5 DEF CheckBreaker, ReserveAttempt, ConsumeCode, ReportOutcome
  <1>6. ASSUME NEW d \in Devices, LoseDevice(d) PROVE BudgetInv'
    BY <1>1, <1>6 DEF LoseDevice
  <1>7. CASE Tick
    <2>1. UNCHANGED <<failures, slot, refunded, budget>> /\ clock' = clock + 1
      BY <1>7 DEF Tick
    <2> QED  BY <1>0, <2>1, BudgetFrame
  <1>8. CASE UNCHANGED vars
    BY <1>1, <1>8 DEF vars
  <1>9. ASSUME NEW v \in Verifies, ReserveFailure(v) PROVE BudgetInv'
    BY <1>9, BudgetReserve
  <1>10. ASSUME NEW v \in Verifies, RefundFailure(v) PROVE BudgetInv'
    BY <1>10, BudgetRefund
  <1>11. CASE Cleanup
    BY <1>11, BudgetCleanup
  <1> QED
    BY <1>2, <1>3, <1>4, <1>5, <1>6, <1>7, <1>8, <1>9, <1>10, <1>11
       DEF Next, Start, Verify, Requests

\* The inductive invariant of the failure budgets.
LEMMA BudgetInvariant == Spec => [](TypeOK /\ Recent /\ AllStand /\ BudgetInv)
  <1>1. Init => TypeOK /\ Recent /\ AllStand /\ BudgetInv
    BY TypeInit, RecentInit, StandInit, BudgetInit
  <1>2. TypeOK /\ Recent /\ AllStand /\ BudgetInv /\ [Next]_vars
          => (TypeOK /\ Recent /\ AllStand /\ BudgetInv)'
    BY TypeStep, RecentStep, StandStep, BudgetStep
  <1> QED  BY <1>1, <1>2, PTL DEF Spec

(***************************************************************************)
(* otp-fail:<budget> counts exactly the reservations not given back in its *)
(* window, for any number of verifies in any interleaving with cleanup.    *)
(***************************************************************************)
THEOREM FailureCountsAreExact == Spec => []BudgetExact
  <1>1. BudgetInv => BudgetExact
    BY DEF BudgetInv
  <1> QED  BY <1>1, BudgetInvariant, PTL

(***************************************************************************)
(* At most maxFailures wrong codes are compared in one window of a budget  *)
(* (reserveRateLimit before the check, refundRateLimit only after a right  *)
(* code or no code).                                                       *)
(***************************************************************************)
THEOREM GuessesAreCapped == Spec => []GuessCap
  <1>1. TypeOK /\ AllStand /\ BudgetInv => GuessCap
    <2> SUFFICES ASSUME TypeOK, AllStand, BudgetInv, NEW b \in Budgets, NEW x \in Verifies
                 PROVE  Cardinality(WrongGuesses(b, slot[x])) <= MaxFailures(b)
      BY DEF GuessCap
    <2>1. MaxFailures(b) \in Nat \ {0}
      BY MaxFailuresType
    <2>2. CASE slot[x] = NoSlot
      <3>1. WrongGuesses(b, slot[x]) = {}
        BY <2>2 DEF WrongGuesses, AllStand, Stands
      <3> QED  BY <2>1, <3>1, FS_EmptySet
    <2>3. CASE slot[x] # NoSlot
      <3>1. slot[x] \in Nat
        BY <2>3 DEF TypeOK
      <3>2. WrongGuesses(b, slot[x]) \in SUBSET Holders(b, slot[x])
        BY <2>3 DEF WrongGuesses, Holders, AllStand, Stands
      <3>3. Cardinality(WrongGuesses(b, slot[x])) <= Cardinality(Holders(b, slot[x]))
        BY <3>2, HoldersFinite, FS_Subset
      <3>4. Cardinality(Holders(b, slot[x])) <= MaxFailures(b)
        BY <3>1 DEF BudgetInv, HoldersCapped
      <3>5. Cardinality(WrongGuesses(b, slot[x])) \in Nat
        BY <3>2, HoldersFinite, FS_Subset, FS_CardinalityType
      <3> QED  BY <2>1, <3>3, <3>4, <3>5, HoldersFinite
    <2> QED  BY <2>2, <2>3
  <1> QED  BY <1>1, BudgetInvariant, PTL

(***************************************************************************)
(* Windows of one budget start failureWindowSec apart, up to the latency   *)
(* of a request: the cap is one per failureWindowSec.                      *)
(***************************************************************************)
THEOREM WindowsDoNotOverlap == Spec => []WindowsApart
  <1>1. BudgetInv => WindowsApart
    BY DEF BudgetInv
  <1> QED  BY <1>1, BudgetInvariant, PTL

(***************************************************************************)
(* Verifies with nothing to check, or with a right code, leave the budget  *)
(* as they found it once they have ended.                                  *)
(***************************************************************************)
THEOREM NoCodeIsFree == Spec => []NoCodeCostsNothing
  <1>1. TypeOK /\ AllStand /\ BudgetInv => NoCodeCostsNothing
    <2> SUFFICES ASSUME TypeOK, AllStand, BudgetInv, NEW b \in Budgets,
                        \A v \in Verifies : budget[v] = b =>
                          pc[v] \in {"idle", "noCode", "verified", "limited", "unavailable"}
                 PROVE  failures[b].count = 0
      BY DEF NoCodeCostsNothing
    <2>1. Holders(b, failures[b].windowStart) = {}
      BY DEF Holders, AllStand, Stands, Unreserved
    <2> QED  BY <2>1, FS_EmptySet DEF BudgetInv, BudgetExact
  <1> QED  BY <1>1, BudgetInvariant, PTL

-----------------------------------------------------------------------------
(* The resend cooldown.                                                     *)

Passed(s) == pc[s] \in {"hourly", "put", "sent"}

\* The cooldown row has been hit, and no later than by its starts: one that was
\* let through began the row's window or an earlier one, or was a horizon ago.
PassedAt(s) ==
    LET row == cooldown[budget[s]]
    IN  \/ now[s] = row.windowStart
        \/ now[s] + Cooldown <= row.windowStart
        \/ now[s] + Horizon <= clock

PassesApart ==
    \A s1, s2 \in Starts :
        s1 # s2 /\ budget[s1] = budget[s2] /\ Passed(s1) /\ Passed(s2)
        => now[s1] - now[s2] >= Cooldown \/ now[s2] - now[s1] >= Cooldown

CooldownInv ==
    /\ \A b \in Budgets : cooldown[b].windowStart \in Nat => cooldown[b].count >= 1
    /\ \A s \in Starts : Passed(s) => PassedAt(s)
    /\ PassesApart

LEMMA CooldownStart == Init => CooldownInv
  BY TimesAssumption DEF Init, CooldownInv, Passed, PassesApart, Absent, Requests

\* The steps that neither touch the cooldown rows nor let a start through.
LEMMA CooldownFrame ==
    ASSUME TypeOK, CooldownInv, UNCHANGED cooldown, clock' \in Nat, clock' >= clock,
           \A s \in Starts : Passed(s)' =>
               Passed(s) /\ now'[s] = now[s] /\ budget'[s] = budget[s]
    PROVE  CooldownInv'
  <1> USE TimesAssumption, HorizonAssumption
  <1>1. \A s \in Starts : now[s] \in Nat
    BY DEF TypeOK, Requests
  <1>2. ASSUME NEW s \in Starts, Passed(s)' PROVE PassedAt(s)'
    <2>1. PassedAt(s) /\ now'[s] = now[s] /\ cooldown'[budget'[s]] = cooldown[budget[s]]
      BY <1>2 DEF CooldownInv
    <2> QED  BY <1>1, <2>1 DEF PassedAt, TypeOK
  <1>3. PassesApart'
    BY DEF CooldownInv, PassesApart
  <1> QED  BY <1>2, <1>3 DEF CooldownInv

\* hitRateLimit on otp-cool:<budget>: who is let through has begun a window.
LEMMA CooldownHit ==
    ASSUME TypeOK, Recent, CooldownInv, NEW s \in Starts, HitCooldown(s)
    PROVE  CooldownInv'
  <1> USE TimesAssumption, HorizonAssumption
  <1> DEFINE b == budget[s]
             row == cooldown[b]
             hit == Hit(row, Cooldown, now[s])
  <1>1. /\ b \in Budgets /\ row \in RateRows(Cooldown) /\ row.count \in Nat
        /\ row.windowStart \in Nat \cup {-Cooldown} /\ clock \in Nat
        /\ \A u \in Starts : now[u] \in Nat /\ budget[u] \in Budgets
    BY DEF TypeOK, RateRows, Requests
  <1>2. /\ UNCHANGED <<clock, now, budget>> /\ pc[s] = "cooldown"
        /\ cooldown' = [cooldown EXCEPT ![b] = hit]
        /\ pc'[s] = IF hit.count <= 1 THEN "hourly" ELSE "limited"
        /\ \A u \in Starts \ {s} : pc'[u] = pc[u]
    BY DEF HitCooldown, WithinCooldown, Goto, TypeOK, Requests
  <1>3. now[s] <= clock /\ clock <= now[s] + MaxLatency
    BY <1>2 DEF Recent, InFlight, Final, Requests
  <1>4. /\ hit.windowStart \in Nat
        /\ Lapsed(row, Cooldown, now[s]) => hit.windowStart = now[s] /\ hit.count = 1
        /\ ~Lapsed(row, Cooldown, now[s]) =>
             /\ hit.windowStart = row.windowStart /\ hit.count = row.count + 1
             /\ row.windowStart \in Nat
    BY <1>1, HitRow
  <1> HIDE DEF hit
  <1>5. cooldown'[b] = hit /\ \A c \in Budgets \ {b} : cooldown'[c] = cooldown[c]
    BY <1>1, <1>2 DEF TypeOK
  <1>6. row.windowStart \in Nat => row.count >= 1
    BY <1>1 DEF CooldownInv
  <1>7. Passed(s)' <=> Lapsed(row, Cooldown, now[s])
    BY <1>1, <1>2, <1>4, <1>6 DEF Passed
  <1>8. \A u \in Starts \ {s} : Passed(u)' <=> Passed(u)
    BY <1>2 DEF Passed
  \* Whoever was let through before is a cooldown older than a new window.
  <1>9. ASSUME NEW u \in Starts \ {s}, budget[u] = b, Passed(u),
               Lapsed(row, Cooldown, now[s])
        PROVE  now[u] + Cooldown <= now[s]
    <2>1. \/ now[u] = row.windowStart
          \/ now[u] + Cooldown <= row.windowStart
          \/ now[u] + Horizon <= clock
      BY <1>9 DEF CooldownInv, PassedAt
    <2> QED  BY <1>1, <1>3, <1>9, <2>1 DEF Lapsed
  <1>10. ASSUME NEW u \in Starts, Passed(u)' PROVE PassedAt(u)'
    <2>1. CASE u = s
      BY <1>2, <1>4, <1>5, <1>7, <1>10, <2>1 DEF PassedAt
    <2>2. CASE u # s /\ budget[u] = b
      <3>1. Passed(u) /\ PassedAt(u)
        BY <1>8, <1>10, <2>2 DEF CooldownInv
      <3>2. CASE Lapsed(row, Cooldown, now[s])
        BY <1>1, <1>2, <1>4, <1>5, <1>9, <2>2, <3>1, <3>2 DEF PassedAt
      <3>3. CASE ~Lapsed(row, Cooldown, now[s])
        BY <1>2, <1>4, <1>5, <2>2, <3>1, <3>3 DEF PassedAt
      <3> QED  BY <3>2, <3>3
    <2>3. CASE u # s /\ budget[u] # b
      <3>1. PassedAt(u)
        BY <1>8, <1>10, <2>3 DEF CooldownInv
      <3> QED  BY <1>1, <1>2, <1>5, <2>3, <3>1 DEF PassedAt
    <2> QED  BY <2>1, <2>2, <2>3
  <1>11. PassesApart'
    <2> SUFFICES ASSUME NEW u \in Starts, NEW w \in Starts, u # w, budget[u] = budget[w],
                        Passed(u)', Passed(w)'
                 PROVE  now[u] - now[w] >= Cooldown \/ now[w] - now[u] >= Cooldown
      BY <1>2 DEF PassesApart
    <2>1. CASE u = s
      BY <1>1, <1>7, <1>8, <1>9, <2>1
    <2>2. CASE w = s
      BY <1>1, <1>7, <1>8, <1>9, <2>2
    <2>3. CASE u # s /\ w # s
      BY <1>8, <2>3 DEF CooldownInv, PassesApart
    <2> QED  BY <2>1, <2>2, <2>3
  <1>12. \A c \in Budgets : cooldown'[c].windowStart \in Nat => cooldown'[c].count >= 1
    BY <1>1, <1>4, <1>5, <1>6 DEF CooldownInv
  <1> QED  BY <1>10, <1>11, <1>12 DEF CooldownInv

\* cleanup: what went with a row is a horizon old.
LEMMA CooldownCleanup ==
    ASSUME TypeOK, CooldownInv, Cleanup
    PROVE  CooldownInv'
  <1> USE TimesAssumption, HorizonAssumption
  <1>1. UNCHANGED <<clock, pc, now, budget>>
    BY DEF Cleanup, request
  <1>2. \A b \in Budgets :
          \/ cooldown'[b] = cooldown[b]
          \/ /\ cooldown'[b].windowStart = -Cooldown
             /\ cooldown[b].windowStart <= clock - Horizon
    BY DEF Cleanup, Swept, Absent
  <1>3. \A b \in Budgets : cooldown[b].windowStart \in Nat \cup {-Cooldown}
    BY DEF TypeOK, RateRows
  <1>4. ASSUME NEW s \in Starts, Passed(s) PROVE PassedAt(s)'
    <2>1. PassedAt(s) /\ budget[s] \in Budgets /\ now[s] \in Nat /\ clock \in Nat
      BY <1>4 DEF CooldownInv, TypeOK, Requests
    <2> QED  BY <1>1, <1>2, <1>3, <2>1 DEF PassedAt
  <1>5. PassesApart'
    BY <1>1 DEF CooldownInv, PassesApart, Passed
  <1>6. \A b \in Budgets : cooldown'[b].windowStart \in Nat => cooldown'[b].count >= 1
    BY <1>2 DEF CooldownInv
  <1> QED  BY <1>1, <1>4, <1>5, <1>6 DEF CooldownInv, Passed

LEMMA CooldownStep == TypeOK /\ Recent /\ CooldownInv /\ [Next]_vars => CooldownInv'
  <1> SUFFICES ASSUME TypeOK, Recent, CooldownInv, [Next]_vars PROVE CooldownInv'
    OBVIOUS
  <1> USE DEF tables, request, history
  <1>0. clock \in Nat
    BY DEF TypeOK
  \* A request moves, and is not newly let through.
  <1>1. ASSUME NEW r \in Requests, NEW label, Goto(r, label),
               label \in {"hourly", "put", "sent"} => r \in Verifies \/ Passed(r),
               UNCHANGED <<clock, now, budget, cooldown>>
        PROVE  CooldownInv'
    <2>1. \A s \in Starts : Passed(s)' => Passed(s)
      BY <1>1, RequestsAssumption DEF Goto, TypeOK, Passed, Requests
    <2> QED  BY <1>0, <1>1, <2>1, CooldownFrame
  <1>2. ASSUME NEW r \in Requests, Arrive(r) \/ ChooseBudget(r) PROVE CooldownInv'
    <2>1. /\ pc'[r] \notin {"hourly", "put", "sent"}
          /\ \A s \in Starts \ {r} :
               pc'[s] = pc[s] /\ now'[s] = now[s] /\ budget'[s] = budget[s]
          /\ UNCHANGED <<clock, cooldown>>
      BY <1>2 DEF Arrive, AfterIp, ChooseBudget, Goto, TypeOK, Requests
    <2> QED  BY <1>0, <2>1, CooldownFrame DEF Passed
  <1>3. ASSUME NEW r \in Requests, IpLimit(r) \/ Throw(r) PROVE CooldownInv'
    <2>1. UNCHANGED <<clock, now, budget, cooldown>>
      BY <1>3 DEF IpLimit, Throw
    <2>2. \E label \in {"breaker", "device", "limited", "error"} : Goto(r, label)
      BY <1>3 DEF IpLimit, AfterIp, Throw
    <2> QED  BY <1>1, <2>1, <2>2
  <1>4. ASSUME NEW s \in Starts, CheckFailures(s) \/ HitHourly(s) \/ PutEmailCode(s)
        PROVE  CooldownInv'
    <2>1. UNCHANGED <<clock, now, budget, cooldown>>
      BY <1>4 DEF CheckFailures, HitHourly, PutEmailCode
    <2>2. \/ \E label \in {"limited", "cooldown"} : Goto(s, label)
          \/ Passed(s) /\ \E label : Goto(s, label)
      BY <1>4 DEF CheckFailures, HitHourly, PutEmailCode, Passed
    <2> QED  BY <1>1, <2>1, <2>2 DEF Requests
  <1>5. ASSUME NEW v \in Verifies,
               \/ CheckBreaker(v) \/ ReserveFailure(v) \/ ReserveAttempt(v)
               \/ ConsumeCode(v) \/ RefundFailure(v) \/ ReportOutcome(v)
        PROVE  CooldownInv'
    <2>1. UNCHANGED <<clock, now, budget, cooldown>>
      BY <1>5 DEF CheckBreaker, ReserveFailure, ReserveAttempt, ConsumeCode, RefundFailure,
                  ReportOutcome
    <2>2. \E label : Goto(v, label)
      BY <1>5 DEF CheckBreaker, ReserveFailure, ReserveAttempt, ConsumeCode, RefundFailure,
                  ReportOutcome
    <2> QED  BY <1>1, <2>1, <2>2 DEF Requests
  <1>6. ASSUME UNCHANGED <<pc, now, budget, cooldown>>, clock' \in {clock, clock + 1}
        PROVE  CooldownInv'
    BY <1>0, <1>6, CooldownFrame DEF Passed
  <1>7. ASSUME NEW d \in Devices, LoseDevice(d) PROVE CooldownInv'
    BY <1>6, <1>7 DEF LoseDevice
  <1>8. CASE Tick
    BY <1>6, <1>8 DEF Tick
  <1>9. CASE UNCHANGED vars
    BY <1>6, <1>9 DEF vars
  <1>10. ASSUME NEW s \in Starts, HitCooldown(s) PROVE CooldownInv'
    BY <1>10, CooldownHit
  <1>11. CASE Cleanup
    BY <1>11, CooldownCleanup
  <1> QED
    BY <1>2, <1>3, <1>4, <1>5, <1>7, <1>8, <1>9, <1>10, <1>11
       DEF Next, Start, Verify, Requests

(***************************************************************************)
(* Two codes mailed on one budget are resendCooldownSec apart by their     *)
(* requests' clocks, however stale those are (hitRateLimit on otp-cool).   *)
(***************************************************************************)
THEOREM CodesAreSpaced == Spec => []CooldownSpacing
  <1>1. Init => TypeOK /\ Recent /\ CooldownInv
    BY TypeInit, RecentInit, CooldownStart
  <1>2. TypeOK /\ Recent /\ CooldownInv /\ [Next]_vars => (TypeOK /\ Recent /\ CooldownInv)'
    BY TypeStep, RecentStep, CooldownStep
  <1>3. CooldownInv => CooldownSpacing
    BY DEF CooldownInv, PassesApart, Passed, CooldownSpacing
  <1> QED  BY <1>1, <1>2, <1>3, PTL DEF Spec

-----------------------------------------------------------------------------
(* The hourly cap.                                                          *)

Counted(s) == pc[s] \in {"put", "sent"}

\* The starts let through in window w of budget b.
Sends(b, w) == {s \in Starts : Counted(s) /\ budget[s] = b /\ sendWindow[s] = w}

WithinRow == \A b \in Budgets : \A w \in Int :
    w = hourly[b].windowStart => Cardinality(Sends(b, w)) <= hourly[b].count

SendsFit == \A b \in Budgets : \A w \in Nat : Cardinality(Sends(b, w)) <= HourlyCodes

\* Everything a start was counted in is the row's window, or lies before it, or
\* began a horizon ago.
HourlyInv ==
    /\ \A s \in Starts : Counted(s) =>
           /\ sendWindow[s] \in Nat
           /\ \/ sendWindow[s] <= hourly[budget[s]].windowStart
              \/ sendWindow[s] + Horizon <= clock
    /\ WithinRow
    /\ SendsFit

LEMMA SendsFinite ==
    \A b, w : IsFiniteSet(Sends(b, w)) /\ Cardinality(Sends(b, w)) \in Nat
  BY RequestsAssumption, FS_Subset, FS_CardinalityType DEF Sends

LEMMA HourlyStart == Init => HourlyInv
  <1> SUFFICES ASSUME Init PROVE HourlyInv
    OBVIOUS
  <1>1. \A s \in Starts : ~Counted(s)
    BY DEF Init, Counted, Requests
  <1>2. \A b, w : Sends(b, w) = {}
    BY <1>1 DEF Sends
  <1>3. \A b \in Budgets : hourly[b].count = 0
    BY DEF Init, Absent
  <1> QED  BY <1>1, <1>2, <1>3, FS_EmptySet, LimitsAssumption DEF HourlyInv, SendsFit, WithinRow

\* The steps that neither touch the hourly rows nor let a start through.
LEMMA HourlyFrame ==
    ASSUME TypeOK, HourlyInv, UNCHANGED hourly, clock' \in Nat, clock' >= clock,
           \A s \in Starts : Counted(s)' =>
               /\ Counted(s)
               /\ sendWindow'[s] = sendWindow[s] /\ budget'[s] = budget[s]
    PROVE  HourlyInv'
  <1> USE HorizonAssumption
  <1>1. ASSUME NEW s \in Starts, Counted(s)'
        PROVE  /\ sendWindow'[s] \in Nat
               /\ \/ sendWindow'[s] <= hourly'[budget'[s]].windowStart
                  \/ sendWindow'[s] + Horizon <= clock'
    BY <1>1 DEF HourlyInv, TypeOK
  <1>2. ASSUME NEW b, NEW w
        PROVE  Cardinality(Sends(b, w)') <= Cardinality(Sends(b, w))
    <2>1. Sends(b, w)' \subseteq Sends(b, w)
      BY DEF Sends
    <2> QED  BY <2>1, SendsFinite, FS_Subset
  <1>3. \A b, w : Cardinality(Sends(b, w)') \in Nat
    BY RequestsAssumption, FS_Subset, FS_CardinalityType DEF Sends
  <1>4. WithinRow'
    <2> SUFFICES ASSUME NEW b \in Budgets, NEW w \in Int, w = hourly[b].windowStart
                 PROVE  Cardinality(Sends(b, w)') <= hourly[b].count
      BY DEF WithinRow
    <2>1. Cardinality(Sends(b, w)) <= hourly[b].count
      BY DEF HourlyInv, WithinRow
    <2>2. hourly[b].count \in Nat
      BY DEF TypeOK, RateRows
    <2> QED  BY <1>2, <1>3, <2>1, <2>2, SendsFinite
  <1>5. SendsFit'
    <2> SUFFICES ASSUME NEW b \in Budgets, NEW w \in Nat
                 PROVE  Cardinality(Sends(b, w)') <= HourlyCodes
      BY DEF SendsFit
    <2>1. Cardinality(Sends(b, w)) <= HourlyCodes
      BY DEF HourlyInv, SendsFit
    <2> QED  BY <1>2, <1>3, <2>1, SendsFinite, LimitsAssumption
  <1> QED  BY <1>1, <1>4, <1>5 DEF HourlyInv

\* hitRateLimit on otp-email:<budget>: counted in the row's window, or first in
\* one in which nobody was.
LEMMA HourlyHit ==
    ASSUME TypeOK, Recent, HourlyInv, NEW s \in Starts, HitHourly(s)
    PROVE  HourlyInv'
  <1> USE TimesAssumption, HorizonAssumption
  <1> DEFINE b == budget[s]
             row == hourly[b]
             hit == Hit(row, Hour, now[s])
  <1>1. /\ b \in Budgets /\ row \in RateRows(Hour) /\ row.count \in Nat /\ now[s] \in Nat
        /\ row.windowStart \in Nat \cup {-Hour} /\ clock \in Nat
        /\ \A u \in Starts : budget[u] \in Budgets
        /\ \A c \in Budgets : hourly[c].windowStart \in Nat \cup {-Hour}
    BY DEF TypeOK, RateRows, Requests
  <1>2. /\ UNCHANGED <<clock, budget>> /\ pc[s] = "hourly"
        /\ hourly' = [hourly EXCEPT ![b] = hit]
        /\ sendWindow' = [sendWindow EXCEPT ![s] = hit.windowStart]
        /\ pc'[s] = IF hit.count <= HourlyCodes THEN "put" ELSE "limited"
        /\ \A u \in Starts \ {s} : pc'[u] = pc[u]
    BY DEF HitHourly, WithinHourly, Goto, TypeOK, Requests
  <1>3. now[s] <= clock /\ clock <= now[s] + MaxLatency
    BY <1>2 DEF Recent, InFlight, Final, Requests
  <1>4. /\ hit.windowStart \in Nat
        /\ Lapsed(row, Hour, now[s]) => hit.windowStart = now[s] /\ hit.count = 1
        /\ ~Lapsed(row, Hour, now[s]) =>
             hit.windowStart = row.windowStart /\ hit.count = row.count + 1
    BY <1>1, HitRow
  <1> HIDE DEF hit
  <1>5. /\ hourly'[b] = hit /\ \A c \in Budgets \ {b} : hourly'[c] = hourly[c]
        /\ sendWindow'[s] = hit.windowStart
        /\ \A u \in Starts \ {s} : sendWindow'[u] = sendWindow[u]
    BY <1>1, <1>2 DEF TypeOK
  <1>6. ~Counted(s) /\ \A u \in Starts \ {s} : Counted(u)' <=> Counted(u)
    BY <1>2 DEF Counted
  <1>7. row.windowStart <= hit.windowStart
    BY <1>1, <1>4 DEF Lapsed
  <1>8. ASSUME NEW u \in Starts, Counted(u)'
        PROVE  /\ sendWindow'[u] \in Nat
               /\ \/ sendWindow'[u] <= hourly'[budget'[u]].windowStart
                  \/ sendWindow'[u] + Horizon <= clock'
    <2>1. CASE u = s
      BY <1>2, <1>4, <1>5, <2>1
    <2>2. CASE u # s
      <3>1. /\ sendWindow[u] \in Nat
            /\ \/ sendWindow[u] <= hourly[budget[u]].windowStart
               \/ sendWindow[u] + Horizon <= clock
        BY <1>6, <1>8, <2>2 DEF HourlyInv
      <3>2. CASE budget[u] = b
        BY <1>1, <1>2, <1>4, <1>5, <1>7, <2>2, <3>1, <3>2
      <3>3. CASE budget[u] # b
        BY <1>1, <1>2, <1>5, <2>2, <3>1, <3>3
      <3> QED  BY <3>2, <3>3
    <2> QED  BY <2>1, <2>2
  \* The budget and the window counted in, as values the step does not change.
  <1>9. PICK d \in Budgets, n \in Nat : d = b /\ n = hit.windowStart
    BY <1>1, <1>4
  <1>10. Lapsed(row, Hour, now[s]) => Sends(d, n) = {}
    <2> SUFFICES ASSUME Lapsed(row, Hour, now[s]), NEW u \in Starts, Counted(u),
                        budget[u] = b, sendWindow[u] = now[s]
                 PROVE  FALSE
      BY <1>4, <1>9 DEF Sends
    <2>1. now[s] <= row.windowStart \/ now[s] + Horizon <= clock
      BY DEF HourlyInv
    <2> QED  BY <1>1, <1>3, <2>1 DEF Lapsed
  <1>11. \A c \in Budgets, w \in Int : c # d \/ w # n => Sends(c, w)' = Sends(c, w)
    BY <1>2, <1>5, <1>6, <1>9 DEF Sends
  <1>12. /\ s \notin Sends(d, n)
         /\ Sends(d, n)' = IF Counted(s)' THEN Sends(d, n) \cup {s} ELSE Sends(d, n)
    BY <1>2, <1>5, <1>6, <1>9 DEF Sends
  <1>13. Cardinality(Sends(d, n) \cup {s}) = Cardinality(Sends(d, n)) + 1
    BY <1>12, SendsFinite, FS_AddElement, Zenon
  <1>14. /\ Cardinality(Sends(d, n)) \in Nat
         /\ Cardinality(Sends(d, n)) + 1 <= hit.count
    <2>1. CASE Lapsed(row, Hour, now[s])
      BY <1>4, <1>10, <2>1, FS_EmptySet
    <2>2. CASE ~Lapsed(row, Hour, now[s])
      <3>1. Cardinality(Sends(d, n)) <= row.count
        BY <1>1, <1>4, <1>9, <2>2 DEF HourlyInv, WithinRow
      <3> QED  BY <1>1, <1>4, <2>2, <3>1, SendsFinite
    <2> QED  BY <2>1, <2>2
  <1>15. hit.count \in Nat
    BY <1>1, <1>4
  <1>16. Cardinality(Sends(d, n)') \in Nat /\ Cardinality(Sends(d, n)') <= hit.count
    <2>1. CASE Counted(s)'
      BY <1>12, <1>13, <1>14, <1>15, <2>1
    <2>2. CASE ~Counted(s)'
      BY <1>12, <1>14, <1>15, <2>2
    <2> QED  BY <2>1, <2>2
  <1>17. WithinRow'
    <2> SUFFICES ASSUME NEW c \in Budgets, NEW w \in Int, w = hourly'[c].windowStart
                 PROVE  Cardinality(Sends(c, w)') <= hourly'[c].count
      BY DEF WithinRow
    <2>1. CASE c = d
      BY <1>5, <1>9, <1>15, <1>16, <2>1
    <2>2. CASE c # d
      BY <1>5, <1>9, <1>11, <2>2 DEF HourlyInv, WithinRow
    <2> QED  BY <2>1, <2>2
  <1>18. SendsFit'
    <2> SUFFICES ASSUME NEW c \in Budgets, NEW w \in Nat
                 PROVE  Cardinality(Sends(c, w)') <= HourlyCodes
      BY DEF SendsFit
    <2>1. Cardinality(Sends(c, w)) <= HourlyCodes
      BY DEF HourlyInv, SendsFit
    <2>2. CASE c = d /\ w = n /\ Counted(s)'
      <3>1. hit.count <= HourlyCodes
        BY <1>2, <2>2 DEF Counted
      <3> QED  BY <1>15, <1>16, <2>2, <3>1, LimitsAssumption
    <2>3. CASE c = d /\ w = n /\ ~Counted(s)'
      BY <1>12, <2>1, <2>3
    <2>4. CASE c # d \/ w # n
      BY <1>11, <2>1, <2>4
    <2> QED  BY <2>2, <2>3, <2>4
  <1> QED  BY <1>8, <1>17, <1>18 DEF HourlyInv

LEMMA HourlyCleanup ==
    ASSUME TypeOK, HourlyInv, Cleanup
    PROVE  HourlyInv'
  <1> USE TimesAssumption, HorizonAssumption
  <1>1. UNCHANGED <<clock, pc, budget, sendWindow>>
    BY DEF Cleanup, request
  <1>2. \A c, w : Sends(c, w)' = Sends(c, w)
    BY <1>1 DEF Sends, Counted
  <1>3. \A c \in Budgets :
          \/ hourly'[c] = hourly[c]
          \/ /\ hourly'[c].windowStart = -Hour /\ hourly'[c].count = 0
             /\ hourly[c].windowStart <= clock - Horizon
    BY DEF Cleanup, Swept, Absent
  <1>4. \A c \in Budgets : hourly[c].windowStart \in Nat \cup {-Hour}
    BY DEF TypeOK, RateRows
  <1>5. ASSUME NEW s \in Starts, Counted(s)
        PROVE  /\ sendWindow[s] \in Nat
               /\ \/ sendWindow[s] <= hourly'[budget[s]].windowStart
                  \/ sendWindow[s] + Horizon <= clock
    <2>1. /\ budget[s] \in Budgets /\ clock \in Nat /\ sendWindow[s] \in Nat
          /\ \/ sendWindow[s] <= hourly[budget[s]].windowStart
             \/ sendWindow[s] + Horizon <= clock
      BY <1>5 DEF HourlyInv, TypeOK, Requests
    <2> QED  BY <1>3, <1>4, <2>1
  <1>6. WithinRow'
    <2> SUFFICES ASSUME NEW c \in Budgets, NEW w \in Int, w = hourly'[c].windowStart
                 PROVE  Cardinality(Sends(c, w)) <= hourly'[c].count
      BY <1>2 DEF WithinRow
    <2>1. CASE hourly'[c] = hourly[c]
      BY <2>1 DEF HourlyInv, WithinRow
    <2>2. CASE hourly'[c].windowStart = -Hour /\ hourly'[c].count = 0
      <3>1. Sends(c, w) = {}
        BY <2>2 DEF Sends, HourlyInv
      <3> QED  BY <2>2, <3>1, FS_EmptySet
    <2> QED  BY <1>3, <2>1, <2>2
  <1>7. SendsFit'
    BY <1>2 DEF HourlyInv, SendsFit
  <1> QED  BY <1>1, <1>5, <1>6, <1>7 DEF HourlyInv, Counted

LEMMA HourlyStep == TypeOK /\ Recent /\ HourlyInv /\ [Next]_vars => HourlyInv'
  <1> SUFFICES ASSUME TypeOK, Recent, HourlyInv, [Next]_vars PROVE HourlyInv'
    OBVIOUS
  <1> USE DEF tables, request, history
  <1>0. clock \in Nat
    BY DEF TypeOK
  \* A request moves, and is not newly let through.
  <1>1. ASSUME NEW r \in Requests, NEW label, Goto(r, label),
               label \in {"put", "sent"} => r \in Verifies \/ Counted(r),
               UNCHANGED <<clock, budget, sendWindow, hourly>>
        PROVE  HourlyInv'
    <2>1. \A s \in Starts : Counted(s)' => Counted(s)
      BY <1>1, RequestsAssumption DEF Goto, TypeOK, Counted, Requests
    <2> QED  BY <1>0, <1>1, <2>1, HourlyFrame
  <1>2. ASSUME NEW r \in Requests, ChooseBudget(r) PROVE HourlyInv'
    <2>1. /\ pc'[r] \notin {"put", "sent"}
          /\ \A s \in Starts \ {r} : pc'[s] = pc[s] /\ budget'[s] = budget[s]
          /\ UNCHANGED <<clock, sendWindow, hourly>>
      BY <1>2 DEF ChooseBudget, Goto, TypeOK, Requests
    <2> QED  BY <1>0, <2>1, HourlyFrame DEF Counted
  <1>3. ASSUME NEW r \in Requests, Arrive(r) \/ IpLimit(r) \/ Throw(r) PROVE HourlyInv'
    <2>1. UNCHANGED <<clock, budget, sendWindow, hourly>>
      BY <1>3 DEF Arrive, IpLimit, Throw
    <2>2. \E label \in {"ip", "breaker", "device", "limited", "error"} : Goto(r, label)
      BY <1>3 DEF Arrive, IpLimit, AfterIp, Throw
    <2> QED  BY <1>1, <2>1, <2>2
  <1>4. ASSUME NEW s \in Starts, CheckFailures(s) \/ HitCooldown(s) \/ PutEmailCode(s)
        PROVE  HourlyInv'
    <2>1. UNCHANGED <<clock, budget, sendWindow, hourly>>
      BY <1>4 DEF CheckFailures, HitCooldown, PutEmailCode
    <2>2. \/ \E label \in {"limited", "cooldown", "hourly"} : Goto(s, label)
          \/ Counted(s) /\ \E label : Goto(s, label)
      BY <1>4 DEF CheckFailures, HitCooldown, PutEmailCode, Counted
    <2> QED  BY <1>1, <2>1, <2>2 DEF Requests
  <1>5. ASSUME NEW v \in Verifies,
               \/ CheckBreaker(v) \/ ReserveFailure(v) \/ ReserveAttempt(v)
               \/ ConsumeCode(v) \/ RefundFailure(v) \/ ReportOutcome(v)
        PROVE  HourlyInv'
    <2>1. UNCHANGED <<clock, budget, sendWindow, hourly>>
      BY <1>5 DEF CheckBreaker, ReserveFailure, ReserveAttempt, ConsumeCode, RefundFailure,
                  ReportOutcome
    <2>2. \E label : Goto(v, label)
      BY <1>5 DEF CheckBreaker, ReserveFailure, ReserveAttempt, ConsumeCode, RefundFailure,
                  ReportOutcome
    <2> QED  BY <1>1, <2>1, <2>2 DEF Requests
  <1>6. ASSUME UNCHANGED <<pc, budget, sendWindow, hourly>>, clock' \in {clock, clock + 1}
        PROVE  HourlyInv'
    BY <1>0, <1>6, HourlyFrame DEF Counted
  <1>7. ASSUME NEW d \in Devices, LoseDevice(d) PROVE HourlyInv'
    BY <1>6, <1>7 DEF LoseDevice
  <1>8. CASE Tick
    BY <1>6, <1>8 DEF Tick
  <1>9. CASE UNCHANGED vars
    BY <1>6, <1>9 DEF vars
  <1>10. ASSUME NEW s \in Starts, HitHourly(s) PROVE HourlyInv'
    BY <1>10, HourlyHit
  <1>11. CASE Cleanup
    BY <1>11, HourlyCleanup
  <1> QED
    BY <1>2, <1>3, <1>4, <1>5, <1>7, <1>8, <1>9, <1>10, <1>11
       DEF Next, Start, Verify, Requests

(***************************************************************************)
(* At most codesPerEmailPerHour codes are mailed in one hourly window of a *)
(* budget, also when cleanup removes its row under a request in flight     *)
(* (hitRateLimit on otp-email).                                            *)
(***************************************************************************)
THEOREM CodesAreCappedPerHour == Spec => []HourlyCap
  <1>1. Init => TypeOK /\ Recent /\ HourlyInv
    BY TypeInit, RecentInit, HourlyStart
  <1>2. TypeOK /\ Recent /\ HourlyInv /\ [Next]_vars => (TypeOK /\ Recent /\ HourlyInv)'
    BY TypeStep, RecentStep, HourlyStep
  <1>3. TypeOK /\ HourlyInv => HourlyCap
    <2> SUFFICES ASSUME TypeOK, HourlyInv, NEW b \in Budgets, NEW x \in Starts
                 PROVE  LET sent == {s \in Starts :
                                /\ pc[s] = "sent" /\ budget[s] = b
                                /\ sendWindow[s] = sendWindow[x]}
                        IN  Cardinality(sent) <= HourlyCodes
      BY DEF HourlyCap
    <2> DEFINE sent == {s \in Starts : /\ pc[s] = "sent" /\ budget[s] = b
                                       /\ sendWindow[s] = sendWindow[x]}
    <2>1. sent \subseteq Sends(b, sendWindow[x])
      BY DEF Sends, Counted
    <2>2. Cardinality(sent) <= Cardinality(Sends(b, sendWindow[x])) /\ Cardinality(sent) \in Nat
      BY <2>1, SendsFinite, FS_Subset, FS_CardinalityType
    <2>3. Cardinality(Sends(b, sendWindow[x])) <= HourlyCodes
      <3>1. CASE sendWindow[x] \in Nat
        BY <3>1 DEF HourlyInv, SendsFit
      <3>2. CASE sendWindow[x] \notin Nat
        <4>1. Sends(b, sendWindow[x]) = {}
          BY <3>2 DEF Sends, HourlyInv
        <4> QED  BY <4>1, FS_EmptySet, LimitsAssumption
      <3> QED  BY <3>1, <3>2
    <2> HIDE DEF sent
    <2>4. Cardinality(sent) <= HourlyCodes
      BY <2>2, <2>3, SendsFinite, LimitsAssumption
    <2> QED  BY <2>4 DEF sent
  <1> QED  BY <1>1, <1>2, <1>3, PTL DEF Spec

-----------------------------------------------------------------------------
(* The circuit breaker.                                                     *)

Outcomes == {"reportOk", "reportFailed"}

\* The verifications counted in breaker window w, and those that failed.
Reports(w) == {v \in Verifies : reported[v] # NoSlot /\ reported[v] = w /\ seen[v] # NoCode}
Failed(w) == {v \in Reports(w) : pc[v] = "invalid"}

\* Who reports has compared a code and has not reported; who has, has ended.
ReportsOnce(v) ==
    /\ pc[v] \in Outcomes => seen[v] # NoCode
    /\ reported[v] # NoSlot => pc[v] \in {"invalid", "verified"}

\* Everything a verification was counted in is the row's window, or lies before
\* it, or began a horizon ago.
BreakerInv ==
    /\ \A v \in Verifies : ReportsOnce(v)
    /\ \A v \in Verifies : reported[v] # NoSlot =>
           reported[v] <= breaker.windowStart \/ reported[v] + Horizon <= clock
    /\ \A w \in Int : w = breaker.windowStart =>
           /\ breaker.count = Cardinality(Reports(w))
           /\ breaker.failures = Cardinality(Failed(w))

LEMMA ReportsFinite ==
    \A w : /\ IsFiniteSet(Reports(w)) /\ Cardinality(Reports(w)) \in Nat
           /\ IsFiniteSet(Failed(w)) /\ Cardinality(Failed(w)) \in Nat
  BY RequestsAssumption, FS_Subset, FS_CardinalityType DEF Reports, Failed

LEMMA BreakerStart == Init => BreakerInv
  <1> SUFFICES ASSUME Init PROVE BreakerInv
    OBVIOUS
  <1>1. \A w : Reports(w) = {} /\ Failed(w) = {}
    BY DEF Init, Reports, Failed
  <1>2. breaker.count = 0 /\ breaker.failures = 0
    BY DEF Init, AbsentPair
  <1>3. \A v \in Verifies : ReportsOnce(v) /\ reported[v] = NoSlot
    BY DEF Init, ReportsOnce, Outcomes, Requests
  <1> QED  BY <1>1, <1>2, <1>3, FS_EmptySet DEF BreakerInv

\* A step of at most one verify, which has not reported and does not report.
LEMMA BreakerFrame ==
    ASSUME TypeOK, BreakerInv, UNCHANGED <<breaker, reported>>,
           clock' \in Nat, clock' >= clock,
           \A v \in Verifies :
               \/ pc'[v] = pc[v] /\ (seen'[v] = NoCode <=> seen[v] = NoCode)
               \/ /\ pc[v] \notin {"invalid", "verified"}
                  /\ pc'[v] \in Outcomes => seen'[v] # NoCode
    PROVE  BreakerInv'
  <1> USE HorizonAssumption
  <1>1. ASSUME NEW v \in Verifies, reported[v] # NoSlot
        PROVE  pc'[v] = pc[v] /\ (seen'[v] = NoCode <=> seen[v] = NoCode)
    BY <1>1 DEF BreakerInv, ReportsOnce
  <1>2. \A w : Reports(w)' = Reports(w) /\ Failed(w)' = Failed(w)
    BY <1>1 DEF Reports, Failed
  <1>3. \A v \in Verifies : ReportsOnce(v)'
    BY <1>1 DEF BreakerInv, ReportsOnce
  <1>4. \A v \in Verifies : reported[v] # NoSlot =>
            reported[v] <= breaker.windowStart \/ reported[v] + Horizon <= clock'
    BY DEF BreakerInv, TypeOK, NoSlot
  <1> QED  BY <1>2, <1>3, <1>4 DEF BreakerInv

\* hitCircuitBreaker: counted in the row's window, or first in one in which
\* nobody was.
LEMMA BreakerReport ==
    ASSUME TypeOK, Recent, BreakerInv, NEW v \in Verifies, ReportOutcome(v)
    PROVE  BreakerInv'
  <1> USE TimesAssumption, HorizonAssumption
  <1> DEFINE lapsed == Lapsed(breaker, BreakerWindow, now[v])
             one == IF pc[v] = "reportFailed" THEN 1 ELSE 0
  <1>1. /\ now[v] \in Nat /\ clock \in Nat /\ breaker.count \in Nat /\ breaker.failures \in Nat
        /\ breaker.windowStart \in Nat \cup {-BreakerWindow}
        /\ \A u \in Verifies : reported[u] \in Nat \cup {NoSlot}
    BY DEF TypeOK, PairRows, Requests
  <1>2. /\ UNCHANGED <<clock, seen>> /\ pc[v] \in Outcomes
        /\ breaker' = HitPair(breaker, BreakerWindow, now[v], pc[v] = "reportFailed")
        /\ reported' = [reported EXCEPT ![v] = breaker'.windowStart]
        /\ pc' = [pc EXCEPT ![v] = IF pc[v] = "reportOk" THEN "verified" ELSE "invalid"]
    BY DEF ReportOutcome, Goto, Outcomes
  <1>3. now[v] <= clock /\ clock <= now[v] + MaxLatency
    BY <1>2 DEF Recent, InFlight, Final, Requests, Outcomes
  <1>4. seen[v] # NoCode /\ reported[v] = NoSlot
    BY <1>2 DEF BreakerInv, ReportsOnce, Outcomes
  <1>5. /\ lapsed => /\ breaker'.windowStart = now[v] /\ breaker'.count = 1
                     /\ breaker'.failures = one
        /\ ~lapsed => /\ breaker'.windowStart = breaker.windowStart
                      /\ breaker'.count = breaker.count + 1
                      /\ breaker'.failures = breaker.failures + one
    BY <1>2 DEF HitPair
  <1>6. breaker'.windowStart \in Nat /\ breaker.windowStart <= breaker'.windowStart
    BY <1>1, <1>5 DEF Lapsed
  <1> HIDE DEF lapsed
  <1>7. PICK n \in Nat : n = breaker'.windowStart
    BY <1>6
  <1>8. /\ reported'[v] = n /\ pc'[v] = IF pc[v] = "reportOk" THEN "verified" ELSE "invalid"
        /\ \A u \in Verifies \ {v} : reported'[u] = reported[u] /\ pc'[u] = pc[u]
    BY <1>2, <1>7 DEF TypeOK, Requests
  <1>9. lapsed => Reports(n) = {} /\ Failed(n) = {}
    <2> SUFFICES ASSUME lapsed, NEW u \in Verifies, reported[u] = n, reported[u] # NoSlot
                 PROVE  FALSE
      BY DEF Reports, Failed
    <2>1. n <= breaker.windowStart \/ n + Horizon <= clock
      BY DEF BreakerInv
    <2> QED  BY <1>1, <1>3, <1>5, <1>7, <2>1 DEF Lapsed, lapsed
  <1>10. v \notin Reports(n) /\ v \notin Failed(n)
    BY <1>4 DEF Reports, Failed
  <1>11. Reports(n)' = Reports(n) \cup {v}
    BY <1>2, <1>4, <1>8 DEF Reports, NoSlot
  <1>12. Failed(n)' = IF pc[v] = "reportFailed" THEN Failed(n) \cup {v} ELSE Failed(n)
    BY <1>2, <1>8, <1>10, <1>11 DEF Failed, Reports, Outcomes
  <1>13. /\ Cardinality(Reports(n) \cup {v}) = Cardinality(Reports(n)) + 1
         /\ Cardinality(Failed(n) \cup {v}) = Cardinality(Failed(n)) + 1
    BY <1>10, ReportsFinite, FS_AddElement, Zenon
  <1>14. /\ Cardinality(Reports(n)') = Cardinality(Reports(n)) + 1
         /\ Cardinality(Failed(n)') = Cardinality(Failed(n)) + one
    <2>1. CASE pc[v] = "reportFailed"
      BY <1>11, <1>12, <1>13, <2>1
    <2>2. CASE pc[v] # "reportFailed"
      BY <1>11, <1>12, <1>13, <2>2, ReportsFinite
    <2> QED  BY <2>1, <2>2
  <1> HIDE DEF one
  <1>15. breaker'.count = Cardinality(Reports(n)') /\ breaker'.failures = Cardinality(Failed(n)')
    <2>1. CASE lapsed
      <3>1. Cardinality(Reports(n)) = 0 /\ Cardinality(Failed(n)) = 0
        BY <1>9, <2>1, FS_EmptySet
      <3> QED  BY <1>5, <1>14, <2>1, <3>1 DEF one
    <2>2. CASE ~lapsed
      BY <1>5, <1>7, <1>14, <2>2 DEF BreakerInv
    <2> QED  BY <2>1, <2>2
  <1>16. \A u \in Verifies : ReportsOnce(u)'
    BY <1>2, <1>8 DEF BreakerInv, ReportsOnce, Outcomes
  <1>17. ASSUME NEW u \in Verifies, reported'[u] # NoSlot
         PROVE  reported'[u] <= n \/ reported'[u] + Horizon <= clock
    <2>1. CASE u = v
      BY <1>8, <2>1
    <2>2. CASE u # v
      <3>1. reported[u] <= breaker.windowStart \/ reported[u] + Horizon <= clock
        BY <1>8, <1>17, <2>2 DEF BreakerInv
      <3> QED  BY <1>1, <1>6, <1>7, <1>8, <1>17, <2>2, <3>1 DEF NoSlot
    <2> QED  BY <2>1, <2>2
  <1> QED  BY <1>2, <1>7, <1>15, <1>16, <1>17 DEF BreakerInv

LEMMA BreakerCleanup ==
    ASSUME TypeOK, BreakerInv, Cleanup
    PROVE  BreakerInv'
  <1> USE TimesAssumption, HorizonAssumption
  <1>1. UNCHANGED <<clock, pc, seen, reported>>
    BY DEF Cleanup, request
  <1>2. \/ breaker' = breaker
        \/ /\ breaker'.windowStart = -BreakerWindow
           /\ breaker'.count = 0 /\ breaker'.failures = 0
           /\ breaker.windowStart <= clock - Horizon
    BY DEF Cleanup, SweptPair, AbsentPair
  <1>3. CASE breaker' = breaker
    BY <1>1, <1>3, BreakerFrame DEF TypeOK
  <1>4. CASE /\ breaker'.windowStart = -BreakerWindow
             /\ breaker'.count = 0 /\ breaker'.failures = 0
             /\ breaker.windowStart <= clock - Horizon
    <2>1. /\ clock \in Nat /\ breaker.windowStart \in Nat \cup {-BreakerWindow}
          /\ \A v \in Verifies : reported[v] \in Nat \cup {NoSlot}
      BY DEF TypeOK, PairRows
    <2>2. ASSUME NEW v \in Verifies, reported[v] # NoSlot
          PROVE  reported[v] + Horizon <= clock /\ reported[v] # -BreakerWindow
      <3>1. reported[v] <= breaker.windowStart \/ reported[v] + Horizon <= clock
        BY <2>2 DEF BreakerInv
      <3> QED  BY <1>4, <2>1, <2>2, <3>1
    <2>3. Reports(-BreakerWindow)' = {} /\ Failed(-BreakerWindow)' = {}
      BY <1>1, <2>2 DEF Reports, Failed
    <2>4. \A v \in Verifies : ReportsOnce(v)'
      BY <1>1 DEF BreakerInv, ReportsOnce
    <2>5. Cardinality(Reports(-BreakerWindow)') = 0 /\ Cardinality(Failed(-BreakerWindow)') = 0
      BY <2>3, FS_EmptySet
    <2> QED  BY <1>1, <1>4, <2>2, <2>4, <2>5 DEF BreakerInv
  <1> QED  BY <1>2, <1>3, <1>4

\* A row that can be live holds a code.
CodeDrawn == code.expiresAt # 0 => code.hash # NoCode

LEMMA CodeDrawnStep == TypeOK /\ CodeDrawn /\ [Next]_vars => CodeDrawn'
  <1> SUFFICES ASSUME TypeOK, CodeDrawn, [Next]_vars PROVE CodeDrawn'
    OBVIOUS
  <1> USE DEF CodeDrawn, tables, request, history
  <1>1. ASSUME UNCHANGED code PROVE CodeDrawn'
    BY <1>1
  <1>2. ASSUME code' = NoCodeRow PROVE CodeDrawn'
    BY <1>2 DEF NoCodeRow
  <1>3. ASSUME NEW s \in Starts, PutEmailCode(s) PROVE CodeDrawn'
    BY <1>3, NamesAssumption DEF PutEmailCode, CodeRow
  <1>4. ASSUME NEW v \in Verifies, ReserveAttempt(v) PROVE CodeDrawn'
    <2>1. code' = code \/ code' = [code EXCEPT !.attempts = @ + 1]
      BY <1>4 DEF ReserveAttempt
    <2>2. code'.hash = code.hash /\ code'.expiresAt = code.expiresAt
      BY <2>1 DEF TypeOK, CodeRows
    <2> QED  BY <2>2
  <1>5. ASSUME NEW r \in Requests,
               Arrive(r) \/ IpLimit(r) \/ ChooseBudget(r) \/ Throw(r)
        PROVE  CodeDrawn'
    BY <1>1, <1>5 DEF Arrive, IpLimit, ChooseBudget, Throw
  <1>6. ASSUME NEW s \in Starts, CheckFailures(s) \/ HitCooldown(s) \/ HitHourly(s)
        PROVE  CodeDrawn'
    BY <1>1, <1>6 DEF CheckFailures, HitCooldown, HitHourly
  <1>7. ASSUME NEW v \in Verifies,
               \/ CheckBreaker(v) \/ ReserveFailure(v) \/ ConsumeCode(v)
               \/ RefundFailure(v) \/ ReportOutcome(v)
        PROVE  CodeDrawn'
    BY <1>1, <1>2, <1>7
       DEF CheckBreaker, ReserveFailure, ConsumeCode, RowAfterUse, RefundFailure, ReportOutcome
  <1>8. CASE Cleanup
    BY <1>1, <1>2, <1>8 DEF Cleanup
  <1>9. ASSUME NEW d \in Devices, LoseDevice(d) PROVE CodeDrawn'
    BY <1>1, <1>9 DEF LoseDevice
  <1>10. CASE Tick \/ UNCHANGED vars
    BY <1>1, <1>10 DEF Tick, vars
  <1> QED
    BY <1>3, <1>4, <1>5, <1>6, <1>7, <1>8, <1>9, <1>10 DEF Next, Start, Verify, Requests

LEMMA BreakerStep ==
    TypeOK /\ Recent /\ AllStand /\ CodeDrawn /\ BreakerInv /\ [Next]_vars => BreakerInv'
  <1> SUFFICES ASSUME TypeOK, Recent, AllStand, CodeDrawn, BreakerInv, [Next]_vars
               PROVE  BreakerInv'
    OBVIOUS
  <1> USE DEF tables, request, history
  <1>0. clock \in Nat
    BY DEF TypeOK
  <1>1. ASSUME UNCHANGED <<breaker, reported, pc, seen>>, clock' \in {clock, clock + 1}
        PROVE  BreakerInv'
    BY <1>0, <1>1, BreakerFrame
  \* One request moves that has not ended.
  <1>2. ASSUME NEW r \in Requests, NEW label, Goto(r, label),
               pc[r] \notin {"invalid", "verified"},
               UNCHANGED <<breaker, reported, clock>>,
               \A u \in Verifies \ {r} : seen'[u] = seen[u],
               r \in Verifies /\ label \in Outcomes => seen'[r] # NoCode
        PROVE  BreakerInv'
    <2>1. pc'[r] = label /\ \A u \in Verifies \ {r} : pc'[u] = pc[u]
      BY <1>2 DEF Goto, TypeOK, Requests
    <2>2. \A u \in Verifies :
            \/ pc'[u] = pc[u] /\ (seen'[u] = NoCode <=> seen[u] = NoCode)
            \/ /\ pc[u] \notin {"invalid", "verified"}
               /\ pc'[u] \in Outcomes => seen'[u] # NoCode
      BY <1>2, <2>1
    <2> QED  BY <1>0, <1>2, <2>2, BreakerFrame
  <1>3. ASSUME NEW r \in Requests,
               Arrive(r) \/ IpLimit(r) \/ ChooseBudget(r) \/ Throw(r)
        PROVE  BreakerInv'
    <2>1. /\ UNCHANGED <<breaker, reported, clock, seen>>
          /\ pc[r] \notin {"invalid", "verified"}
      BY <1>3 DEF Arrive, IpLimit, ChooseBudget, Throw, InFlight, Final
    <2>2. \E label : label \notin Outcomes /\ Goto(r, label)
      BY <1>3 DEF Arrive, IpLimit, AfterIp, ChooseBudget, Throw, Outcomes
    <2> QED  BY <1>2, <2>1, <2>2
  <1>4. ASSUME NEW s \in Starts,
               CheckFailures(s) \/ HitCooldown(s) \/ HitHourly(s) \/ PutEmailCode(s)
        PROVE  BreakerInv'
    <2>1. /\ UNCHANGED <<breaker, reported, clock, seen>>
          /\ pc[s] \notin {"invalid", "verified"}
      BY <1>4 DEF CheckFailures, HitCooldown, HitHourly, PutEmailCode
    <2>2. \E label : label \notin Outcomes /\ Goto(s, label)
      BY <1>4 DEF CheckFailures, HitCooldown, HitHourly, PutEmailCode, Outcomes
    <2> QED  BY <1>2, <2>1, <2>2 DEF Requests
  <1>5. ASSUME NEW v \in Verifies, CheckBreaker(v) \/ ReserveFailure(v) PROVE BreakerInv'
    <2>1. /\ UNCHANGED <<breaker, reported, clock, seen>>
          /\ pc[v] \notin {"invalid", "verified"}
      BY <1>5 DEF CheckBreaker, ReserveFailure
    <2>2. \E label : label \notin Outcomes /\ Goto(v, label)
      BY <1>5 DEF CheckBreaker, ReserveFailure, Outcomes
    <2> QED  BY <1>2, <2>1, <2>2 DEF Requests
  <1>6. ASSUME NEW v \in Verifies, ReserveAttempt(v) PROVE BreakerInv'
    <2>1. UNCHANGED <<breaker, reported, clock>> /\ pc[v] = "attempt"
      BY <1>6 DEF ReserveAttempt
    <2>2. \A u \in Verifies \ {v} : seen'[u] = seen[u]
      BY <1>6 DEF ReserveAttempt, TypeOK
    <2>3. PICK label : Goto(v, label) /\ (label \in Outcomes => seen'[v] # NoCode)
      <3>1. CASE UNCHANGED seen /\ Goto(v, "refundNoCode")
        BY <3>1 DEF Outcomes
      <3>2. ASSUME NEW g \in Codes, seen' = [seen EXCEPT ![v] = code.hash],
                   code.expiresAt > now[v],
                   Goto(v, IF g = code.hash THEN "consume" ELSE Answer("invalid"))
            PROVE  \E label : Goto(v, label) /\ (label \in Outcomes => seen'[v] # NoCode)
        <4>1. code.hash # NoCode
          BY <3>2 DEF CodeDrawn, TypeOK, Requests
        <4>2. seen'[v] # NoCode
          BY <3>2, <4>1 DEF TypeOK
        <4> QED  BY <3>2, <4>2
      <3> QED  BY <1>6, <3>1, <3>2 DEF ReserveAttempt
    <2> QED  BY <1>2, <2>1, <2>2, <2>3 DEF Requests
  <1>7. ASSUME NEW v \in Verifies, ConsumeCode(v) \/ RefundFailure(v) PROVE BreakerInv'
    <2>1. /\ UNCHANGED <<breaker, reported, clock, seen>>
          /\ pc[v] \in {"consume", "refund", "refundNoCode"}
      BY <1>7 DEF ConsumeCode, RefundFailure
    <2>2. \E label : Goto(v, label) /\ (label \in Outcomes => pc[v] # "refundNoCode")
      BY <1>7 DEF ConsumeCode, RefundFailure, Outcomes
    <2>3. pc[v] # "refundNoCode" => seen[v] # NoCode
      BY <2>1 DEF AllStand, Stands
    <2> QED  BY <1>2, <2>1, <2>2, <2>3 DEF Requests
  <1>8. ASSUME NEW d \in Devices, LoseDevice(d) PROVE BreakerInv'
    BY <1>1, <1>8 DEF LoseDevice
  <1>9. CASE Tick
    BY <1>1, <1>9 DEF Tick
  <1>10. CASE UNCHANGED vars
    BY <1>1, <1>10 DEF vars
  <1>11. ASSUME NEW v \in Verifies, ReportOutcome(v) PROVE BreakerInv'
    BY <1>11, BreakerReport
  <1>12. CASE Cleanup
    BY <1>12, BreakerCleanup
  <1> QED
    BY <1>3, <1>4, <1>5, <1>6, <1>7, <1>8, <1>9, <1>10, <1>11, <1>12
       DEF Next, Start, Verify, Requests
(***************************************************************************)
(* cb:email-verify counts each verification that compared a live code once,*)
(* and its failure in the same window (hitCircuitBreaker).                 *)
(***************************************************************************)
THEOREM BreakerCountsAreExact == Spec => []BreakerExact
  <1> DEFINE Inv == TypeOK /\ Recent /\ AllStand /\ CodeDrawn /\ BreakerInv
  <1>1. Init => Inv
    <2>1. Init => CodeDrawn
      BY DEF Init, CodeDrawn, NoCodeRow
    <2> QED  BY <2>1, TypeInit, RecentInit, StandInit, BreakerStart
  <1>2. Inv /\ [Next]_vars => Inv'
    BY TypeStep, RecentStep, StandStep, CodeDrawnStep, BreakerStep
  <1>3. Inv => BreakerExact
    <2> SUFFICES ASSUME TypeOK, BreakerInv PROVE BreakerExact
      OBVIOUS
    <2>1. PICK w \in Int : w = breaker.windowStart
      BY TimesAssumption DEF TypeOK, PairRows
    <2>2. breaker.count = Cardinality(Reports(w)) /\ breaker.failures = Cardinality(Failed(w))
      BY <2>1 DEF BreakerInv
    <2> QED  BY <2>1, <2>2 DEF BreakerExact, Reports, Failed
  <1> HIDE DEF Inv
  <1> QED  BY <1>1, <1>2, <1>3, PTL DEF Spec
=============================================================================
