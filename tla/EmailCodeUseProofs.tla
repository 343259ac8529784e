---------------------------- MODULE EmailCodeUseProofs ----------------------------
(***************************************************************************)
(* Proofs about the code row of EmailCode: a code is used once, by the     *)
(* verify that submitted it, within the attempts of its lifetime.          *)
(***************************************************************************)
EXTENDS EmailCodeProofs

\* A verify that has not attempted the code yet.
Untried == Unreserved \cup {"attempt"}

\* A verify whose code was consumed and whose account was not refused.
Accepted == {"refund", "reportOk", "verified"}

\* The row holds the code that its issuer mailed, and nobody has used it.
CodeInForce ==
    code.hash # NoCode =>
      /\ issuer \in Starts
      /\ pc[issuer] = "sent"
      /\ mailed[issuer] = code.hash
      /\ \A v \in Verifies : won[v] # issuer

\* What a verify consumed was mailed as the code it submitted.
WonByGuess ==
    \A v \in Verifies :
      /\ won[v] # NoReq => pc[won[v]] = "sent" /\ mailed[won[v]] = guess[v]
      /\ pc[v] \in Untried => won[v] = NoReq
      /\ pc[v] \in Accepted => won[v] # NoReq

\* The row carries the lifetime of its opener, and without a row there is none.
LifetimeOfOpener ==
    IF code.hash = NoCode
    THEN code = NoCodeRow /\ opener = NoReq
    ELSE /\ opener \in Starts
         /\ pc[opener] = "sent"
         /\ code.resetAt = now[opener] + CodeTtl

Tries(s) == {v \in Verifies : tries[v] = s}

\* The row counts the attempts of the lifetime it carries.
AttemptsCounted ==
    /\ code.attempts <= CodeMaxAttempts
    /\ code.hash # NoCode => Cardinality(Tries(opener)) = code.attempts
    /\ \A s \in Starts : Cardinality(Tries(s)) <= CodeMaxAttempts

TriesAreOfSent ==
    \A v \in Verifies :
      /\ tries[v] # NoReq => pc[tries[v]] = "sent"
      /\ pc[v] \in Untried => tries[v] = NoReq

UseInv == CodeInForce /\ WonByGuess /\ SingleUse

AttemptInv == LifetimeOfOpener /\ AttemptsCounted /\ TriesAreOfSent

-----------------------------------------------------------------------------

LEMMA NoReqIsNoStart == NoReq \notin Starts
  BY RequestsAssumption DEF Requests

LEMMA TriesFinite == \A s : IsFiniteSet(Tries(s)) /\ Cardinality(Tries(s)) \in Nat
  <1> SUFFICES ASSUME NEW s PROVE IsFiniteSet(Tries(s)) /\ Cardinality(Tries(s)) \in Nat
    OBVIOUS
  <1>1. Tries(s) \in SUBSET Verifies
    BY DEF Tries
  <1>2. IsFiniteSet(Tries(s))
    BY <1>1, RequestsAssumption, FS_Subset
  <1> QED  BY <1>2, FS_CardinalityType

LEMMA UseInit == Init => UseInv /\ AttemptInv
  <1> SUFFICES ASSUME Init PROVE UseInv /\ AttemptInv
    OBVIOUS
  <1>1. UseInv
    BY DEF Init, UseInv, CodeInForce, WonByGuess, SingleUse, NoCodeRow, Accepted, Requests
  <1>2. \A s \in Starts : Tries(s) = {}
    BY NoReqIsNoStart DEF Init, Tries
  <1>3. AttemptsCounted
    <2>1. \A s \in Starts : Cardinality(Tries(s)) = 0
      BY <1>2, FS_EmptySet
    <2>2. code.hash = NoCode /\ code.attempts = 0
      BY DEF Init, NoCodeRow
    <2> QED  BY <2>1, <2>2, LimitsAssumption DEF AttemptsCounted
  <1>4. LifetimeOfOpener /\ TriesAreOfSent
    BY DEF Init, LifetimeOfOpener, TriesAreOfSent, NoCodeRow
  <1> QED  BY <1>1, <1>3, <1>4 DEF AttemptInv

\* A step that touches neither the row nor what was mailed, won or tried.
LEMMA UseFrame ==
    ASSUME TypeOK, UseInv, AttemptInv,
           UNCHANGED <<code, mailed, issuer, won, guess, opener, tries>>,
           \A s \in Starts : pc[s] = "sent" => pc'[s] = "sent" /\ now'[s] = now[s],
           \A v \in Verifies : pc'[v] \in Untried => pc[v] \in Untried,
           \A v \in Verifies : pc'[v] \in Accepted => pc[v] \in Accepted
    PROVE  UseInv' /\ AttemptInv'
  <1>1. CodeInForce'
    BY DEF UseInv, CodeInForce
  <1>2. WonByGuess'
    BY DEF UseInv, WonByGuess, TypeOK
  <1>3. SingleUse'
    BY DEF UseInv, SingleUse
  <1>4. LifetimeOfOpener'
    BY DEF AttemptInv, LifetimeOfOpener
  <1>5. AttemptsCounted'
    <2>1. \A s : Tries(s)' = Tries(s)
      BY DEF Tries
    <2>2. Tries(opener)' = Tries(opener)
      BY DEF Tries
    <2> QED  BY <2>1, <2>2 DEF AttemptInv, AttemptsCounted
  <1>6. TriesAreOfSent'
    BY DEF AttemptInv, TriesAreOfSent, TypeOK
  <1> QED  BY <1>1, <1>2, <1>3, <1>4, <1>5, <1>6 DEF UseInv, AttemptInv

\* putEmailCode: a new code, in the lifetime that runs or in a new one.
LEMMA UsePut ==
    ASSUME TypeOK, UseInv, AttemptInv, NEW s \in Starts, PutEmailCode(s)
    PROVE  UseInv' /\ AttemptInv'
  <1> USE TimesAssumption, LimitsAssumption, NoReqIsNoStart
  <1>1. PICK c \in Codes :
          code' = CodeRow(code, c, now[s]) /\ mailed' = [mailed EXCEPT ![s] = c]
    BY DEF PutEmailCode
  <1>2. /\ issuer' = s /\ opener' = OpenerAt(s) /\ pc[s] = "put"
        /\ pc' = [pc EXCEPT ![s] = "sent"]
        /\ UNCHANGED <<now, guess, won, tries>>
    BY DEF PutEmailCode, Goto
  <1>3. /\ pc'[s] = "sent"
        /\ \A t \in Starts : pc[t] = "sent" => t # s /\ pc'[t] = "sent" /\ mailed'[t] = mailed[t]
        /\ \A v \in Verifies : pc'[v] = pc[v]
        /\ mailed'[s] = c
    BY <1>1, <1>2, RequestsAssumption DEF TypeOK, Requests
  <1>4. code'.hash = c /\ c # NoCode
    BY <1>1, NamesAssumption DEF CodeRow
  <1>5. \A v \in Verifies :
          /\ won[v] # s /\ (won[v] # NoReq => won[v] \in Starts)
          /\ tries[v] # s /\ (tries[v] # NoReq => tries[v] \in Starts)
    BY <1>2 DEF UseInv, WonByGuess, AttemptInv, TriesAreOfSent, TypeOK
  <1>6. CodeInForce'
    BY <1>2, <1>3, <1>4, <1>5 DEF CodeInForce
  <1>7. WonByGuess'
    BY <1>2, <1>3, <1>5 DEF UseInv, WonByGuess
  <1>8. SingleUse'
    BY <1>2 DEF UseInv, SingleUse
  <1>9. TriesAreOfSent'
    BY <1>2, <1>3, <1>5 DEF AttemptInv, TriesAreOfSent
  <1>10. \A t : Tries(t)' = Tries(t)
    BY <1>2 DEF Tries
  <1>11. now \in [Requests -> Nat] /\ code.resetAt \in Nat /\ code.attempts \in Nat
    BY DEF TypeOK, CodeRows
  \* The row carries its attempts over exactly when its opener's lifetime runs.
  <1>12. CASE Carries(code, now[s])
    <2>1. code.hash # NoCode
      BY <1>11, <1>12 DEF Carries, AttemptInv, LifetimeOfOpener, NoCodeRow, Requests
    <2>2. /\ opener \in Starts /\ pc[opener] = "sent"
          /\ code.resetAt = now[opener] + CodeTtl
      BY <2>1 DEF AttemptInv, LifetimeOfOpener
    <2>3. opener' = opener
      BY <1>2, <1>11, <1>12, <2>2 DEF OpenerAt, Carries, Requests
    <2>4. code'.attempts = code.attempts /\ code'.resetAt = code.resetAt
      BY <1>1, <1>12 DEF CodeRow
    <2>5. LifetimeOfOpener'
      BY <1>2, <1>3, <1>4, <2>2, <2>3, <2>4 DEF LifetimeOfOpener
    <2>6. Tries(opener)' = Tries(opener)
      BY <1>2, <2>3 DEF Tries
    <2>7. AttemptsCounted'
      BY <1>10, <2>1, <2>4, <2>6 DEF AttemptInv, AttemptsCounted
    <2> QED  BY <1>6, <1>7, <1>8, <1>9, <2>5, <2>7 DEF UseInv, AttemptInv
  <1>13. CASE ~Carries(code, now[s])
    <2>1. opener' = s
      <3>1. CASE opener = NoReq
        BY <1>2, <3>1 DEF OpenerAt
      <3>2. CASE opener # NoReq
        <4>1. opener \in Starts /\ code.resetAt = now[opener] + CodeTtl
          BY <3>2 DEF AttemptInv, LifetimeOfOpener
        <4> QED  BY <1>2, <1>11, <1>13, <4>1 DEF OpenerAt, Carries, Requests
      <3> QED  BY <3>1, <3>2
    <2>2. code'.attempts = 0 /\ code'.resetAt = now[s] + CodeTtl
      BY <1>1, <1>13 DEF CodeRow
    <2>3. LifetimeOfOpener'
      BY <1>2, <1>3, <1>4, <2>1, <2>2 DEF LifetimeOfOpener
    <2>4. Tries(opener)' = {}
      BY <1>2, <1>5, <2>1 DEF Tries
    <2>5. AttemptsCounted'
      <3>1. Cardinality(Tries(opener)') = 0
        BY <2>4, FS_EmptySet
      <3> QED  BY <1>10, <2>2, <3>1 DEF AttemptInv, AttemptsCounted
    <2> QED  BY <1>6, <1>7, <1>8, <1>9, <2>3, <2>5 DEF UseInv, AttemptInv
  <1> QED  BY <1>12, <1>13

\* reserveEmailCodeAttempt: one more attempt of the lifetime, if any is left.
LEMMA UseAttempt ==
    ASSUME TypeOK, UseInv, AttemptInv, NEW v \in Verifies, ReserveAttempt(v)
    PROVE  UseInv' /\ AttemptInv'
  <1> USE LimitsAssumption, NoReqIsNoStart
  <1>1. /\ UNCHANGED <<now, mailed, issuer, won, opener>>
        /\ pc[v] = "attempt"
        /\ \A u \in Requests \ {v} : pc'[u] = pc[u]
    BY DEF ReserveAttempt, Goto, TypeOK
  <1>2. pc'[v] \in {"refundNoCode", "consume", "invalid", "reportFailed"}
    BY DEF ReserveAttempt, Goto, TypeOK, Answer, Requests
  <1>3. /\ \A s \in Starts : pc'[s] = pc[s]
        /\ \A u \in Verifies : pc'[u] \in Untried => pc[u] \in Untried
        /\ \A u \in Verifies : pc'[u] \in Accepted => pc[u] \in Accepted
    BY <1>1, <1>2, RequestsAssumption DEF Requests, Untried, Unreserved, Accepted
  <1>4. CASE UNCHANGED <<code, guess, tries>>
    BY <1>1, <1>3, <1>4, UseFrame
  <1>5. CASE /\ code.attempts < CodeMaxAttempts /\ code.expiresAt > now[v]
             /\ \E g \in Codes : guess' = [guess EXCEPT ![v] = g]
             /\ code' = [code EXCEPT !.attempts = code.attempts + 1]
             /\ tries' = [tries EXCEPT ![v] = opener]
    <2>1. won[v] = NoReq /\ tries[v] = NoReq
      BY <1>1 DEF UseInv, WonByGuess, AttemptInv, TriesAreOfSent, Untried
    <2>2. code.hash # NoCode
      BY <1>5 DEF AttemptInv, LifetimeOfOpener, NoCodeRow, TypeOK, Requests
    <2>3. /\ code'.hash = code.hash /\ code'.resetAt = code.resetAt
          /\ code'.attempts = code.attempts + 1 /\ code.attempts \in Nat
      BY <1>5 DEF TypeOK, CodeRows
    <2>4. /\ opener \in Starts /\ pc[opener] = "sent"
          /\ code.resetAt = now[opener] + CodeTtl
      BY <2>2 DEF AttemptInv, LifetimeOfOpener
    <2>5. CodeInForce' /\ SingleUse'
      BY <1>1, <1>3, <2>2, <2>3 DEF UseInv, CodeInForce, SingleUse
    <2>6. WonByGuess'
      <3> SUFFICES ASSUME NEW u \in Verifies
                   PROVE  /\ won[u] # NoReq => pc'[won[u]] = "sent" /\ mailed[won[u]] = guess'[u]
                          /\ pc'[u] \in Untried => won[u] = NoReq
                          /\ pc'[u] \in Accepted => won[u] # NoReq
        BY <1>1 DEF WonByGuess
      <3>1. CASE u = v
        BY <1>2, <2>1, <3>1 DEF Accepted
      <3>2. CASE u # v
        <4>1. guess'[u] = guess[u] /\ (won[u] # NoReq => won[u] \in Starts)
          BY <1>5, <3>2 DEF TypeOK
        <4> QED  BY <1>3, <4>1 DEF UseInv, WonByGuess
      <3> QED  BY <3>1, <3>2
    <2>7. LifetimeOfOpener'
      BY <1>1, <1>3, <2>2, <2>3, <2>4 DEF LifetimeOfOpener
    <2>8. /\ tries'[v] = opener
          /\ \A u \in Verifies \ {v} : tries'[u] = tries[u]
      BY <1>5 DEF TypeOK
    <2>9. TriesAreOfSent'
      <3> SUFFICES ASSUME NEW u \in Verifies
                   PROVE  /\ tries'[u] # NoReq => pc'[tries'[u]] = "sent"
                          /\ pc'[u] \in Untried => tries'[u] = NoReq
        BY DEF TriesAreOfSent
      <3>1. CASE u = v
        BY <1>2, <1>3, <2>4, <2>8, <3>1 DEF Untried, Unreserved
      <3>2. CASE u # v
        <4>1. tries[u] # NoReq => tries[u] \in Starts
          BY DEF TypeOK
        <4> QED  BY <1>3, <2>8, <3>2, <4>1 DEF AttemptInv, TriesAreOfSent
      <3> QED  BY <3>1, <3>2
    <2>10. AttemptsCounted'
      <3>1. PICK o \in Starts : o = opener
        BY <2>4
      <3>2. v \notin Tries(o) /\ Tries(o)' = Tries(o) \cup {v}
        BY <2>1, <2>8, <3>1 DEF Tries
      <3>3. \A s \in Starts : s # o => Tries(s)' = Tries(s)
        BY <2>1, <2>8, <3>1 DEF Tries
      <3>4. Cardinality(Tries(o) \cup {v}) = Cardinality(Tries(o)) + 1
        BY <3>2, TriesFinite, FS_AddElement, Zenon
      <3>5. Cardinality(Tries(o)') = code.attempts + 1
        BY <2>2, <3>1, <3>2, <3>4 DEF AttemptInv, AttemptsCounted
      <3>6. Tries(opener)' = Tries(o)'
        BY <1>1, <3>1 DEF Tries
      <3>7. code.attempts + 1 <= CodeMaxAttempts
        BY <1>5, <2>3
      <3>8. \A s \in Starts : Cardinality(Tries(s)') <= CodeMaxAttempts
        BY <3>1, <3>3, <3>5, <3>7 DEF AttemptInv, AttemptsCounted
      <3> QED  BY <2>3, <3>5, <3>6, <3>7, <3>8 DEF AttemptsCounted
    <2> QED  BY <2>5, <2>6, <2>7, <2>9, <2>10 DEF UseInv, AttemptInv
  <1> QED  BY <1>4, <1>5 DEF ReserveAttempt

\* consumeEmailCode: the row goes, and with it its lifetime.
LEMMA UseConsume ==
    ASSUME TypeOK, AllStand, UseInv, AttemptInv, NEW v \in Verifies, ConsumeCode(v)
    PROVE  UseInv' /\ AttemptInv'
  <1> USE LimitsAssumption, NoReqIsNoStart
  <1>1. /\ UNCHANGED <<now, mailed, issuer, guess, tries>>
        /\ pc[v] = "consume"
        /\ \A u \in Requests \ {v} : pc'[u] = pc[u]
    BY DEF ConsumeCode, Goto, TypeOK
  <1>2. pc'[v] \in {"refund", "invalid", "reportFailed"}
    BY DEF ConsumeCode, Goto, TypeOK, Answer, Requests
  <1>3. /\ \A s \in Starts : pc'[s] = pc[s]
        /\ \A u \in Verifies : pc'[u] \in Untried => pc[u] \in Untried
    BY <1>1, <1>2, RequestsAssumption DEF Requests, Untried, Unreserved
  <1>4. CASE UNCHANGED <<code, won, opener>> /\ pc'[v] # "refund"
    <2>1. \A u \in Verifies : pc'[u] \in Accepted => pc[u] \in Accepted
      BY <1>1, <1>2, <1>4 DEF Requests, Accepted
    <2> QED  BY <1>1, <1>3, <1>4, <2>1, UseFrame
  <1>5. CASE /\ code.hash = seen[v] /\ code' = NoCodeRow /\ opener' = NoReq
             /\ won' = [won EXCEPT ![v] = issuer]
    <2>1. seen[v] = guess[v] /\ seen[v] # NoCode
      BY <1>1 DEF AllStand, Stands
    <2>2. /\ issuer \in Starts /\ pc[issuer] = "sent" /\ mailed[issuer] = guess[v]
          /\ \A u \in Verifies : won[u] # issuer
      BY <1>5, <2>1 DEF UseInv, CodeInForce
    <2>3. code'.hash = NoCode /\ code'.attempts = 0
      BY <1>5 DEF NoCodeRow
    <2>4. won'[v] = issuer /\ \A u \in Verifies \ {v} : won'[u] = won[u]
      BY <1>5 DEF TypeOK
    <2>5. CodeInForce'
      BY <2>3 DEF CodeInForce
    <2>6. WonByGuess'
      <3> SUFFICES ASSUME NEW u \in Verifies
                   PROVE  /\ won'[u] # NoReq =>
                               pc'[won'[u]] = "sent" /\ mailed[won'[u]] = guess[u]
                          /\ pc'[u] \in Untried => won'[u] = NoReq
                          /\ pc'[u] \in Accepted => won'[u] # NoReq
        BY <1>1 DEF WonByGuess
      <3>1. CASE u = v
        BY <1>2, <1>3, <2>2, <2>4, <3>1 DEF Untried, Unreserved
      <3>2. CASE u # v
        <4>1. (won[u] # NoReq => won[u] \in Starts) /\ pc'[u] = pc[u]
          BY <1>1, <3>2 DEF TypeOK, Requests
        <4> QED  BY <1>3, <2>4, <3>2, <4>1 DEF UseInv, WonByGuess
      <3> QED  BY <3>1, <3>2
    <2>7. SingleUse'
      <3> SUFFICES ASSUME NEW v1 \in Verifies, NEW v2 \in Verifies,
                          v1 # v2, won'[v1] # NoReq
                   PROVE  won'[v1] # won'[v2]
        BY DEF SingleUse
      <3> QED  BY <2>2, <2>4 DEF UseInv, SingleUse
    <2>8. LifetimeOfOpener'
      BY <1>5, <2>3 DEF LifetimeOfOpener
    <2>9. TriesAreOfSent'
      BY <1>1, <1>3 DEF AttemptInv, TriesAreOfSent, TypeOK
    <2>10. AttemptsCounted'
      <3>1. \A s : Tries(s)' = Tries(s)
        BY <1>1 DEF Tries
      <3> QED  BY <2>3, <3>1 DEF AttemptInv, AttemptsCounted
    <2> QED  BY <2>5, <2>6, <2>7, <2>8, <2>9, <2>10 DEF UseInv, AttemptInv
  <1>6. CASE StillHolds(seen[v])
    BY <1>5, <1>6 DEF ConsumeCode, StillHolds, RowAfterUse
  <1>7. CASE ~StillHolds(seen[v])
    <2>1. Goto(v, Answer("invalid")) /\ UNCHANGED <<code, won, opener>>
      BY <1>7 DEF ConsumeCode
    <2>2. pc'[v] # "refund"
      BY <2>1 DEF Goto, Answer, TypeOK, Requests
    <2> QED  BY <1>4, <2>1, <2>2
  <1> QED  BY <1>6, <1>7

\* cleanup: an expired row goes, and with it its lifetime.
LEMMA UseCleanup ==
    ASSUME TypeOK, UseInv, AttemptInv, Cleanup
    PROVE  UseInv' /\ AttemptInv'
  <1> USE LimitsAssumption
  <1>1. UNCHANGED <<pc, now, guess, mailed, issuer, won, tries>>
    BY DEF Cleanup, request
  <1>2. CASE UNCHANGED <<code, opener>>
    BY <1>1, <1>2, UseFrame
  <1>3. CASE code' = NoCodeRow /\ opener' = NoReq
    <2>1. code'.hash = NoCode /\ code'.attempts = 0
      BY <1>3 DEF NoCodeRow
    <2>2. UseInv'
      BY <1>1, <2>1 DEF UseInv, CodeInForce, WonByGuess, SingleUse
    <2>3. LifetimeOfOpener' /\ TriesAreOfSent'
      BY <1>1, <1>3, <2>1 DEF AttemptInv, LifetimeOfOpener, TriesAreOfSent
    <2>4. AttemptsCounted'
      <3>1. \A s : Tries(s)' = Tries(s)
        BY <1>1 DEF Tries
      <3> QED  BY <2>1, <3>1 DEF AttemptInv, AttemptsCounted
    <2> QED  BY <2>2, <2>3, <2>4 DEF AttemptInv
  <1> QED  BY <1>2, <1>3 DEF Cleanup

LEMMA UseStep ==
    TypeOK /\ AllStand /\ UseInv /\ AttemptInv /\ [Next]_vars => (UseInv /\ AttemptInv)'
  <1> SUFFICES ASSUME TypeOK, AllStand, UseInv, AttemptInv, [Next]_vars
               PROVE  UseInv' /\ AttemptInv'
    OBVIOUS
  <1> USE DEF tables, request, history
  <1>1. ASSUME NEW r \in Requests, NEW label, Goto(r, label), pc[r] # "sent",
               UNCHANGED <<code, mailed, issuer, won, guess, opener, tries>>,
               \A s \in Starts : pc[s] = "sent" => now'[s] = now[s],
               r \in Verifies /\ label \in Untried => pc[r] \in Untried,
               r \in Verifies /\ label \in Accepted => pc[r] \in Accepted
        PROVE  UseInv' /\ AttemptInv'
    <2>1. pc'[r] = label /\ \A u \in Requests \ {r} : pc'[u] = pc[u]
      BY <1>1 DEF Goto, TypeOK
    <2>2. /\ \A s \in Starts : pc[s] = "sent" => pc'[s] = "sent"
          /\ \A v \in Verifies : pc'[v] \in Untried => pc[v] \in Untried
          /\ \A v \in Verifies : pc'[v] \in Accepted => pc[v] \in Accepted
      BY <1>1, <2>1 DEF TypeOK, Requests
    <2> QED  BY <1>1, <2>2, UseFrame
  <1>2. ASSUME NEW r \in Requests, Arrive(r) PROVE UseInv' /\ AttemptInv'
    <2>1. PICK label \in {"ip", "breaker", "device"} : Goto(r, label)
      BY <1>2 DEF Arrive, AfterIp
    <2>2. pc[r] = "idle"
      BY <1>2 DEF Arrive
    <2>3. \A s \in Starts : pc[s] = "sent" => now'[s] = now[s]
      BY <1>2, <2>2 DEF Arrive, TypeOK, Requests
    <2>4. UNCHANGED <<code, mailed, issuer, won, guess, opener, tries>>
      BY <1>2 DEF Arrive
    <2> QED  BY <1>1, <2>1, <2>2, <2>3, <2>4 DEF Untried, Unreserved, Accepted
  <1>3. ASSUME NEW r \in Requests, IpLimit(r) \/ ChooseBudget(r) PROVE UseInv' /\ AttemptInv'
    <2>1. PICK label \in {"limited", "breaker", "device", "failures", "reserve"} : Goto(r, label)
      BY <1>3 DEF IpLimit, ChooseBudget, AfterIp
    <2>2. pc[r] \in {"ip", "device"}
      BY <1>3 DEF IpLimit, ChooseBudget
    <2>3. UNCHANGED <<code, mailed, issuer, won, guess, opener, tries>> /\ now' = now
      BY <1>3 DEF IpLimit, ChooseBudget
    <2> QED  BY <1>1, <2>1, <2>2, <2>3 DEF Untried, Unreserved, Accepted
  <1>4. ASSUME NEW r \in Requests, Throw(r) PROVE UseInv' /\ AttemptInv'
    <2>1. Goto(r, "error") /\ pc[r] # "sent"
      BY <1>4 DEF Throw, InFlight, Final
    <2>2. UNCHANGED <<code, mailed, issuer, won, guess, opener, tries>> /\ now' = now
      BY <1>4 DEF Throw
    <2> QED  BY <1>1, <2>1, <2>2 DEF Untried, Unreserved, Accepted
  <1>5. ASSUME NEW s \in Starts, CheckFailures(s) \/ HitCooldown(s) \/ HitHourly(s)
        PROVE  UseInv' /\ AttemptInv'
    <2>1. \E label : Goto(s, label)
      BY <1>5 DEF CheckFailures, HitCooldown, HitHourly
    <2>2. /\ pc[s] # "sent"
          /\ UNCHANGED <<code, mailed, issuer, won, guess, opener, tries>> /\ now' = now
      BY <1>5 DEF CheckFailures, HitCooldown, HitHourly
    <2> QED  BY <1>1, <2>1, <2>2, RequestsAssumption DEF Requests
  <1>6. ASSUME NEW s \in Starts, PutEmailCode(s) PROVE UseInv' /\ AttemptInv'
    BY <1>6, UsePut
  <1>7. ASSUME NEW v \in Verifies, CheckBreaker(v) \/ ReserveFailure(v)
        PROVE  UseInv' /\ AttemptInv'
    <2>1. PICK label \in {"unavailable", "device", "attempt", "limited"} : Goto(v, label)
      BY <1>7 DEF CheckBreaker, ReserveFailure
    <2>2. /\ pc[v] \in {"breaker", "reserve"}
          /\ UNCHANGED <<code, mailed, issuer, won, guess, opener, tries>> /\ now' = now
      BY <1>7 DEF CheckBreaker, ReserveFailure
    <2> QED  BY <1>1, <2>1, <2>2 DEF Requests, Untried, Unreserved, Accepted
  <1>8. ASSUME NEW v \in Verifies, ReserveAttempt(v) PROVE UseInv' /\ AttemptInv'
    BY <1>8, UseAttempt
  <1>9. ASSUME NEW v \in Verifies, ConsumeCode(v) PROVE UseInv' /\ AttemptInv'
    BY <1>9, UseConsume
  <1>10. ASSUME NEW v \in Verifies, RefundFailure(v) PROVE UseInv' /\ AttemptInv'
    <2>1. \/ pc[v] = "refundNoCode" /\ Goto(v, "noCode")
          \/ /\ pc[v] = "refund"
             /\ \E label \in {"verified", "reportOk"} : Goto(v, label)
      BY <1>10 DEF RefundFailure, Answer
    <2>2. UNCHANGED <<code, mailed, issuer, won, guess, opener, tries>> /\ now' = now
      BY <1>10 DEF RefundFailure
    <2> QED  BY <1>1, <2>1, <2>2 DEF Requests, Untried, Unreserved, Accepted
  <1>11. ASSUME NEW v \in Verifies, ReportOutcome(v) PROVE UseInv' /\ AttemptInv'
    <2>1. \/ pc[v] = "reportOk" /\ Goto(v, "verified")
          \/ pc[v] = "reportFailed" /\ Goto(v, "invalid")
      BY <1>11 DEF ReportOutcome
    <2>2. UNCHANGED <<code, mailed, issuer, won, guess, opener, tries>> /\ now' = now
      BY <1>11 DEF ReportOutcome
    <2> QED  BY <1>1, <2>1, <2>2 DEF Requests, Untried, Unreserved, Accepted
  <1>12. CASE Cleanup
    BY <1>12, UseCleanup
  <1>13. ASSUME UNCHANGED <<pc, now, code, mailed, issuer, won, guess, opener, tries>>
         PROVE  UseInv' /\ AttemptInv'
    BY <1>13, UseFrame
  <1> QED
    BY <1>2, <1>3, <1>4, <1>5, <1>6, <1>7, <1>8, <1>9, <1>10, <1>11, <1>12, <1>13
       DEF Next, Start, Verify, Requests, LoseDevice, Tick, vars

LEMMA UseInvariant == Spec => [](UseInv /\ AttemptInv)
  <1>1. Init => TypeOK /\ AllStand /\ UseInv /\ AttemptInv
    BY TypeInit, StandInit, UseInit
  <1>2. TypeOK /\ AllStand /\ UseInv /\ AttemptInv /\ [Next]_vars
          => (TypeOK /\ AllStand /\ UseInv /\ AttemptInv)'
    BY TypeStep, StandStep, UseStep
  <1> QED  BY <1>1, <1>2, PTL DEF Spec

(***************************************************************************)
(* No code is consumed by two verifies (consumeEmailCode's DELETE).        *)
(***************************************************************************)
THEOREM CodesAreUsedOnce == Spec => []SingleUse
  <1>1. UseInv => SingleUse
    BY DEF UseInv
  <1> QED  BY <1>1, UseInvariant, PTL

(***************************************************************************)
(* A verify succeeds only by the code that was in force when it was        *)
(* consumed, even if it compared its guess with that code earlier.         *)
(***************************************************************************)
THEOREM VerifiedByTheCodeInForce == Spec => []VerifiedByItsCode
  <1>1. UseInv => VerifiedByItsCode
    BY DEF UseInv, WonByGuess, VerifiedByItsCode, Accepted
  <1> QED  BY <1>1, UseInvariant, PTL

(***************************************************************************)
(* At most emailCode.maxAttempts attempts in a code's lifetime, counted    *)
(* over all its resends (putEmailCode carries them over).                  *)
(***************************************************************************)
THEOREM AttemptsAreCappedPerLifetime == Spec => []AttemptsPerLifetime
  <1>1. AttemptInv => AttemptsPerLifetime
    BY DEF AttemptInv, AttemptsCounted, AttemptsPerLifetime, Tries
  <1> QED  BY <1>1, UseInvariant, PTL
=============================================================================
