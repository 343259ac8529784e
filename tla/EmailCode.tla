-------------------------------- MODULE EmailCode --------------------------------
(***************************************************************************)
(* POST /email/start and POST /email/verify of deviceAuth() for one        *)
(* address (src/src/device-auth/index.ts), over the tables of              *)
(* d1DeviceAuthStore (src/src/device-auth/store.ts).                       *)
(*                                                                         *)
(* Each request is a process that makes one store call per step.  Between  *)
(* two calls any other request may run, the clock may move, a device may   *)
(* be revoked and the cleanup cron may fire.  A request reads the clock    *)
(* once and uses that `now` for every later call.  Any call may throw, and *)
(* the request then ends where it stands: nothing is undone.               *)
(*                                                                         *)
(* What follows a verified code (unlocking the PIN, trusting the device,   *)
(* minting the session) is the business of module DeviceAuth.              *)
(***************************************************************************)
EXTENDS RateLimits, FiniteSets

CONSTANTS
    Starts,            \* the POST /email/start requests
    Verifies,          \* the POST /email/verify requests
    Devices,           \* trusted devices registered to the address
    Address,           \* the address itself, as the owner of a budget
    Codes,             \* values a generated code may take
    NoCode,
    NoReq,
    Ips,               \* rate-limit keys of client addresses; {} if unknown to all
    RequireClientIp,   \* option requireClientIp
    MaxPerEmail,       \* emailCode.maxFailuresPerEmail
    MaxPerDevice,      \* emailCode.maxFailuresPerDevice
    FailureWindow,     \* emailCode.failureWindowSec
    CodeMaxAttempts,   \* emailCode.maxAttempts
    CodeTtl,           \* emailCode.ttlSec
    Cooldown,          \* limits.resendCooldownSec
    HourlyCodes,       \* limits.codesPerEmailPerHour
    Hour,              \* the window of the hourly and per-IP limits
    StartsPerIp, VerifiesPerIp,
    CircuitBreaker,    \* whether option circuitBreaker is set
    MinFailures, RatioPercent, BreakerWindow,
    CleanupTimes,      \* when the app's cron may call cleanup()
    Horizon,           \* cleanup's rateLimitHorizonMs
    MaxLatency,        \* the longest a request runs, in clock units
    MaxClock           \* bound on the clock, for TLC

Requests == Starts \cup Verifies

Budgets == Devices \cup {Address}

Kind(r) == IF r \in Starts THEN "start" ELSE "verify"

NoSlot == -1

ASSUME RequestsAssumption ==
    /\ IsFiniteSet(Starts) /\ IsFiniteSet(Verifies)
    /\ Starts \cap Verifies = {}
    /\ NoReq \notin Requests

ASSUME NamesAssumption ==
    /\ Address \notin Devices
    /\ NoCode \notin Codes

\* `positive(...)` refuses zero and negative options (index.ts).
ASSUME LimitsAssumption ==
    /\ MaxPerEmail \in Nat \ {0} /\ MaxPerDevice \in Nat \ {0}
    /\ CodeMaxAttempts \in Nat \ {0}
    /\ HourlyCodes \in Nat \ {0}
    /\ StartsPerIp \in Nat \ {0} /\ VerifiesPerIp \in Nat \ {0}
    /\ MinFailures \in Nat \ {0} /\ RatioPercent \in 1..100
    /\ CircuitBreaker \in BOOLEAN /\ RequireClientIp \in BOOLEAN

ASSUME TimesAssumption ==
    /\ FailureWindow \in Nat \ {0} /\ CodeTtl \in Nat \ {0}
    /\ Cooldown \in Nat \ {0} /\ Hour \in Nat \ {0}
    /\ BreakerWindow \in Nat \ {0}
    /\ MaxLatency \in Nat /\ MaxClock \in Nat
    /\ CleanupTimes \subseteq Nat

(***************************************************************************)
(* README.md, "Cleanup": a horizon at least as long as failureWindowSec    *)
(* (both are a day by default).  A day is also far longer than a request   *)
(* runs, and than the cooldown.                                            *)
(***************************************************************************)
ASSUME HorizonAssumption ==
    /\ Horizon \in Nat
    /\ Horizon > MaxLatency
    /\ Horizon >= FailureWindow
    /\ Horizon >= Cooldown + MaxLatency

VARIABLES
    clock,
    \* The database.
    liveDevices,  \* the address's devices that are neither revoked nor expired
    failures,     \* otp-fail:<budget>
    cooldown,     \* otp-cool:<budget>
    hourly,       \* otp-email:<budget>
    ipHits,       \* otp-start:ip:<ip> and otp-verify:ip:<ip>
    breaker,      \* cb:email-verify
    code,         \* the address's row of auth_email_codes
    \* The requests.
    pc,
    now,          \* the clock as the request read it
    guess,        \* the submitted code
    budget,       \* whose budgets the request draws on
    slot,         \* the failure window it reserved in
    seen,         \* the code hash reserveEmailCodeAttempt returned
    \* History, read by the properties only.
    refunded,     \* verifies that gave their slot back
    mailed,       \* the code a start put and mailed
    issuer,       \* the start that put the current code row
    won,          \* the start whose code a verify consumed
    opener,       \* the start that began the current code lifetime
    tries,        \* the opener of the lifetime a verify's attempt fell in
    sendWindow,   \* the hourly window a start was counted in
    reported      \* the breaker window a verify was counted in

tables  == <<liveDevices, failures, cooldown, hourly, ipHits, breaker, code>>
request == <<pc, now, guess, budget, slot, seen>>
history == <<refunded, mailed, issuer, won, opener, tries, sendWindow, reported>>
vars    == <<clock, tables, request, history>>

-----------------------------------------------------------------------------

MaxFailures(b) == IF b = Address THEN MaxPerEmail ELSE MaxPerDevice

\* No row: expired, without a hash, and with nothing to carry to the next code.
NoCodeRow == [hash |-> NoCode, attempts |-> 0, resetAt |-> 0, expiresAt |-> 0]

Init ==
    /\ clock = 0
    /\ liveDevices = Devices
    /\ failures = [b \in Budgets |-> Absent(FailureWindow)]
    /\ cooldown = [b \in Budgets |-> Absent(Cooldown)]
    /\ hourly = [b \in Budgets |-> Absent(Hour)]
    /\ ipHits = [k \in {"start", "verify"} \X Ips |-> Absent(Hour)]
    /\ breaker = AbsentPair(BreakerWindow)
    /\ code = NoCodeRow
    /\ pc = [r \in Requests |-> "idle"]
    /\ now = [r \in Requests |-> 0]
    /\ guess = [v \in Verifies |-> NoCode]
    /\ budget = [r \in Requests |-> Address]
    /\ slot = [v \in Verifies |-> NoSlot]
    /\ seen = [v \in Verifies |-> NoCode]
    /\ refunded = {}
    /\ mailed = [s \in Starts |-> NoCode]
    /\ issuer = NoReq
    /\ won = [v \in Verifies |-> NoReq]
    /\ opener = NoReq
    /\ tries = [v \in Verifies |-> NoReq]
    /\ sendWindow = [s \in Starts |-> NoSlot]
    /\ reported = [v \in Verifies |-> NoSlot]

Final == {"sent", "limited", "unavailable", "noCode", "invalid", "verified", "error"}

InFlight(r) == pc[r] \notin Final \cup {"idle"}

Goto(r, label) == pc' = [pc EXCEPT ![r] = label]

-----------------------------------------------------------------------------
(* Steps both handlers share.                                               *)

\* What follows the per-IP limit.
AfterIp(r) == IF r \in Verifies /\ CircuitBreaker THEN "breaker" ELSE "device"

(***************************************************************************)
(* gate, body, address, code format and bot check have passed: the request *)
(* reads the clock.  (A request that fails one of them touches nothing.)   *)
(* Its other inputs are drawn by the step that first looks at them.        *)
(***************************************************************************)
Arrive(r) ==
    /\ pc[r] = "idle"
    /\ now' = [now EXCEPT ![r] = clock]
    /\ Goto(r, IF Ips = {} THEN AfterIp(r) ELSE "ip")
    /\ UNCHANGED <<clock, tables, guess, budget, slot, seen, history>>

\* ipLimited: count the request against its client address, if it has one.
IpLimit(r) ==
    LET max == IF r \in Starts THEN StartsPerIp ELSE VerifiesPerIp
    IN  /\ pc[r] = "ip"
        /\ \/ \E i \in Ips :
                LET key == <<Kind(r), i>>
                    row == Hit(ipHits[key], Hour, now[r])
                IN  /\ ipHits' = [ipHits EXCEPT ![key] = row]
                    /\ Goto(r, IF row.count <= max THEN AfterIp(r) ELSE "limited")
           \/ /\ Goto(r, IF RequireClientIp THEN "limited" ELSE AfterIp(r))
              /\ UNCHANGED ipHits
        /\ UNCHANGED <<clock, liveDevices, failures, cooldown, hourly, breaker, code,
                       now, guess, budget, slot, seen, history>>

\* deviceOfAddress and budgetFor: a request that presents a live device of the
\* address draws on the device's budgets, any other on the address's.
ChooseBudget(r) ==
    /\ pc[r] = "device"
    /\ \E b \in liveDevices \cup {Address} : budget' = [budget EXCEPT ![r] = b]
    /\ Goto(r, IF r \in Starts THEN "failures" ELSE "reserve")
    /\ UNCHANGED <<clock, tables, now, guess, slot, seen, history>>

\* A store call or a callback throws; the route answers 500.
Throw(r) ==
    /\ InFlight(r)
    /\ Goto(r, "error")
    /\ UNCHANGED <<clock, tables, now, guess, budget, slot, seen, history>>

-----------------------------------------------------------------------------
(* POST /email/start.                                                       *)

\* A code the requester could not verify is not sent: the failure budget is
\* read, not charged.
CheckFailures(s) ==
    LET b == budget[s]
        spent == CountAt(failures[b], FailureWindow, now[s]) >= MaxFailures(b)
    IN  /\ pc[s] = "failures"
        /\ Goto(s, IF spent THEN "limited" ELSE "cooldown")
        /\ UNCHANGED <<clock, tables, now, guess, budget, slot, seen,
                       history>>

\* The resend cooldown lets one request per window through, the hourly cap
\* HourlyCodes of them.
WithinCooldownMutant(row) == row.count <= 2
WithinCooldown(row) == row.count <= 1

WithinHourlyMutant(row) == row.count <= HourlyCodes + 1
WithinHourly(row) == row.count <= HourlyCodes

HitCooldown(s) ==
    LET b == budget[s]
        row == Hit(cooldown[b], Cooldown, now[s])
    IN  /\ pc[s] = "cooldown"
        /\ cooldown' = [cooldown EXCEPT ![b] = row]
        /\ Goto(s, IF WithinCooldown(row) THEN "hourly" ELSE "limited")
        /\ UNCHANGED <<clock, liveDevices, failures, hourly, ipHits, breaker, code,
                       now, guess, budget, slot, seen, history>>

HitHourly(s) ==
    LET b == budget[s]
        row == Hit(hourly[b], Hour, now[s])
    IN  /\ pc[s] = "hourly"
        /\ hourly' = [hourly EXCEPT ![b] = row]
        /\ Goto(s, IF WithinHourly(row) THEN "put" ELSE "limited")
        /\ sendWindow' = [sendWindow EXCEPT ![s] = row.windowStart]
        /\ UNCHANGED <<clock, liveDevices, failures, cooldown, ipHits, breaker, code,
                       now, guess, budget, slot, seen,
                       refunded, mailed, issuer, won, opener, tries, reported>>

(***************************************************************************)
(* The row putEmailCode leaves: a new hash, and the attempts already used  *)
(* when the lifetime that counts them is not over.                         *)
(***************************************************************************)
CarriesMutant(old, createdAt) == FALSE
Carries(old, createdAt) == old.resetAt > createdAt

CodeRow(old, hash, createdAt) ==
    LET running == Carries(old, createdAt)
    IN  [hash      |-> hash,
         attempts  |-> IF running THEN old.attempts ELSE 0,
         resetAt   |-> IF running THEN old.resetAt ELSE createdAt + CodeTtl,
         expiresAt |-> createdAt + CodeTtl]

(***************************************************************************)
(* History: the start that began the lifetime running at time t, in the    *)
(* words of the documentation.  A lifetime lasts CodeTtl from its first    *)
(* code; it ends early when a code is used or its expired row is swept.    *)
(***************************************************************************)
OpenerAt(s) ==
    IF opener = NoReq THEN s
    ELSE IF now[s] >= now[opener] + CodeTtl THEN s ELSE opener

\* putEmailCode, then sendCode, whose failure is swallowed.
PutEmailCode(s) ==
    /\ pc[s] = "put"
    /\ \E c \in Codes :
         /\ code' = CodeRow(code, c, now[s])
         /\ mailed' = [mailed EXCEPT ![s] = c]
    /\ issuer' = s
    /\ opener' = OpenerAt(s)
    /\ Goto(s, "sent")
    /\ UNCHANGED <<clock, liveDevices, failures, cooldown, hourly, ipHits, breaker,
                   now, guess, budget, slot, seen,
                   refunded, won, tries, sendWindow, reported>>

Start(s) ==
    \/ IpLimit(s)
    \/ ChooseBudget(s)
    \/ CheckFailures(s)
    \/ HitCooldown(s)
    \/ HitHourly(s)
    \/ PutEmailCode(s)
    \/ Throw(s)

-----------------------------------------------------------------------------
(* POST /email/verify.                                                      *)

BreakerOpen(row, t) ==
    LET lapsed == Lapsed(row, BreakerWindow, t)
        attempts == IF lapsed \/ row.count = 0 THEN 1 ELSE row.count
        failed == IF lapsed THEN 0 ELSE row.failures
    IN  failed >= MinFailures /\ 100 * failed >= RatioPercent * attempts

\* readCircuitBreaker: 503 while it is open.
CheckBreaker(v) ==
    /\ pc[v] = "breaker"
    /\ Goto(v, IF BreakerOpen(breaker, now[v]) THEN "unavailable" ELSE "device")
    /\ UNCHANGED <<clock, tables, now, guess, budget, slot, seen, history>>

(***************************************************************************)
(* reserveRateLimit: a failure is charged before anything is checked.  A   *)
(* refused request is answered 429 and writes nothing.                     *)
(***************************************************************************)
ReserveFailure(v) ==
    LET b == budget[v]
        row == Hit(failures[b], FailureWindow, now[v])
    IN  /\ pc[v] = "reserve"
        /\ IF CanReserve(failures[b], FailureWindow, now[v], MaxFailures(b))
           THEN /\ failures' = [failures EXCEPT ![b] = row]
                /\ slot' = [slot EXCEPT ![v] = row.windowStart]
                /\ Goto(v, "attempt")
           ELSE /\ Goto(v, "limited")
                /\ UNCHANGED <<failures, slot>>
        /\ UNCHANGED <<clock, liveDevices, cooldown, hourly, ipHits, breaker, code,
                       now, guess, budget, seen, history>>

\* What a checked verification does last: count itself in the breaker, if any.
Answer(outcome) ==
    CASE ~CircuitBreaker        -> outcome
      [] outcome = "verified"   -> "reportOk"
      [] OTHER                  -> "reportFailed"

(***************************************************************************)
(* reserveEmailCodeAttempt, and the comparison of the hash it returns with *)
(* the submitted code's.  With no live code, nothing is compared.  (A code *)
(* made under a key no longer configured compares like a wrong guess.)     *)
(***************************************************************************)
ReserveAttempt(v) ==
    LET live == code.attempts < CodeMaxAttempts /\ code.expiresAt > now[v]
    IN  /\ pc[v] = "attempt"
        /\ IF live
           THEN \E g \in Codes :
                  /\ guess' = [guess EXCEPT ![v] = g]
                  /\ code' = [code EXCEPT !.attempts = @ + 1]
                  /\ seen' = [seen EXCEPT ![v] = code.hash]
                  /\ tries' = [tries EXCEPT ![v] = opener]
                  /\ Goto(v, IF g = code.hash THEN "consume" ELSE Answer("invalid"))
           ELSE /\ Goto(v, "refundNoCode")
                /\ UNCHANGED <<code, guess, seen, tries>>
        /\ UNCHANGED <<clock, liveDevices, failures, cooldown, hourly, ipHits, breaker,
                       now, budget, slot,
                       refunded, mailed, issuer, won, opener, sendWindow, reported>>

(***************************************************************************)
(* consumeEmailCode: DELETE the row if it still holds the hash that was    *)
(* compared; finding none means the code was used or replaced meanwhile.   *)
(* Then resolveUser, which may refuse the account.                         *)
(***************************************************************************)
StillHoldsMutant(hash) == code.hash # NoCode
StillHolds(hash) == code.hash = hash

RowAfterUseMutant == code
RowAfterUse == NoCodeRow

ConsumeCode(v) ==
    /\ pc[v] = "consume"
    /\ IF StillHolds(seen[v])
       THEN /\ code' = RowAfterUse
            /\ won' = [won EXCEPT ![v] = issuer]
            /\ opener' = NoReq
            /\ \/ Goto(v, "refund")
               \/ Goto(v, Answer("invalid"))
       ELSE /\ Goto(v, Answer("invalid"))
            /\ UNCHANGED <<code, won, opener>>
    /\ UNCHANGED <<clock, liveDevices, failures, cooldown, hourly, ipHits, breaker,
                   now, guess, budget, slot, seen,
                   refunded, mailed, issuer, tries, sendWindow, reported>>

\* refundRateLimit: after a success, or when there was nothing to compare.
RefundFailure(v) ==
    LET b == budget[v]
    IN  /\ pc[v] \in {"refundNoCode", "refund"}
        /\ failures' = [failures EXCEPT ![b] = Refunded(@, slot[v])]
        /\ refunded' = refunded \cup {v}
        /\ Goto(v, IF pc[v] = "refund" THEN Answer("verified") ELSE "noCode")
        /\ UNCHANGED <<clock, liveDevices, cooldown, hourly, ipHits, breaker, code,
                       now, guess, budget, slot, seen,
                       mailed, issuer, won, opener, tries, sendWindow, reported>>

\* hitCircuitBreaker: one checked verification and its outcome.
ReportOutcome(v) ==
    LET row == HitPair(breaker, BreakerWindow, now[v], pc[v] = "reportFailed")
    IN  /\ pc[v] \in {"reportOk", "reportFailed"}
        /\ breaker' = row
        /\ reported' = [reported EXCEPT ![v] = row.windowStart]
        /\ Goto(v, IF pc[v] = "reportOk" THEN "verified" ELSE "invalid")
        /\ UNCHANGED <<clock, liveDevices, failures, cooldown, hourly, ipHits, code,
                       now, guess, budget, slot, seen,
                       refunded, mailed, issuer, won, opener, tries, sendWindow>>

Verify(v) ==
    \/ IpLimit(v)
    \/ CheckBreaker(v)
    \/ ChooseBudget(v)
    \/ ReserveFailure(v)
    \/ ReserveAttempt(v)
    \/ ConsumeCode(v)
    \/ RefundFailure(v)
    \/ ReportOutcome(v)
    \/ Throw(v)

-----------------------------------------------------------------------------
(* The surroundings.                                                        *)

\* A device of the address is revoked or expires.
LoseDevice(d) ==
    /\ d \in liveDevices
    /\ liveDevices' = liveDevices \ {d}
    /\ UNCHANGED <<clock, failures, cooldown, hourly, ipHits, breaker, code, request,
                   history>>

(***************************************************************************)
(* The cron's cleanup(), one transaction: expired codes and counters whose *)
(* window started at least Horizon ago.                                    *)
(***************************************************************************)
Cleanup ==
    /\ clock \in CleanupTimes
    /\ IF code.expiresAt <= clock
       THEN code' = NoCodeRow /\ opener' = NoReq
       ELSE UNCHANGED <<code, opener>>
    /\ failures' = [b \in Budgets |-> Swept(failures[b], FailureWindow, Horizon, clock)]
    /\ cooldown' = [b \in Budgets |-> Swept(cooldown[b], Cooldown, Horizon, clock)]
    /\ hourly' = [b \in Budgets |-> Swept(hourly[b], Hour, Horizon, clock)]
    /\ ipHits' = [k \in DOMAIN ipHits |-> Swept(ipHits[k], Hour, Horizon, clock)]
    /\ breaker' = SweptPair(breaker, BreakerWindow, Horizon, clock)
    /\ UNCHANGED <<clock, liveDevices, request,
                   refunded, mailed, issuer, won, tries, sendWindow, reported>>

\* Time passes, but no request outlives MaxLatency.
Tick ==
    /\ clock < MaxClock
    /\ \A r \in Requests : InFlight(r) => clock - now[r] < MaxLatency
    /\ clock' = clock + 1
    /\ UNCHANGED <<tables, request, history>>

Next ==
    \/ \E r \in Requests : Arrive(r)
    \/ \E s \in Starts : Start(s)
    \/ \E v \in Verifies : Verify(v)
    \/ \E d \in Devices : LoseDevice(d)
    \/ Cleanup
    \/ Tick

Spec == Init /\ [][Next]_vars

-----------------------------------------------------------------------------
(* Properties.                                                              *)

CodeRows == [hash : Codes \cup {NoCode}, attempts : Nat, resetAt : Nat, expiresAt : Nat]

StartLabels == {"idle", "ip", "device", "failures", "cooldown", "hourly", "put",
                "sent", "limited", "error"}

VerifyLabels == {"idle", "ip", "breaker", "device", "reserve", "attempt", "consume",
                 "refundNoCode", "refund", "reportOk", "reportFailed", "noCode",
                 "invalid", "verified", "limited", "unavailable", "error"}

\* The types of the tables and of the requests' locals.
TypeOK ==
    /\ clock \in Nat
    /\ liveDevices \subseteq Devices
    /\ failures \in [Budgets -> RateRows(FailureWindow)]
    /\ cooldown \in [Budgets -> RateRows(Cooldown)]
    /\ hourly \in [Budgets -> RateRows(Hour)]
    /\ ipHits \in [{"start", "verify"} \X Ips -> RateRows(Hour)]
    /\ breaker \in PairRows(BreakerWindow)
    /\ code \in CodeRows
    /\ pc \in [Requests -> StartLabels \cup VerifyLabels]
    /\ \A s \in Starts : pc[s] \in StartLabels
    /\ \A v \in Verifies : pc[v] \in VerifyLabels
    /\ now \in [Requests -> Nat]
    /\ guess \in [Verifies -> Codes \cup {NoCode}]
    /\ budget \in [Requests -> Budgets]
    /\ slot \in [Verifies -> Nat \cup {NoSlot}]
    /\ seen \in [Verifies -> Codes \cup {NoCode}]
    /\ refunded \subseteq Verifies
    /\ mailed \in [Starts -> Codes \cup {NoCode}]
    /\ issuer \in Starts \cup {NoReq}
    /\ won \in [Verifies -> Starts \cup {NoReq}]
    /\ opener \in Starts \cup {NoReq}
    /\ tries \in [Verifies -> Starts \cup {NoReq}]
    /\ sendWindow \in [Starts -> Nat \cup {NoSlot}]
    /\ reported \in [Verifies -> Nat \cup {NoSlot}]

\* The verifies whose reservation in window w of budget b is still charged.
Holders(b, w) ==
    {v \in Verifies \ refunded : slot[v] # NoSlot /\ budget[v] = b /\ slot[v] = w}

(***************************************************************************)
(* The failure counter is exactly the reservations not given back: none is *)
(* lost, charged twice or refunded into a window it was not taken from,    *)
(* whatever the order of reserve, refund, window restart, throw and        *)
(* cleanup (index.ts, the comments in /email/verify on reserving first).   *)
(***************************************************************************)
BudgetExact ==
    \A b \in Budgets : failures[b].count = Cardinality(Holders(b, failures[b].windowStart))

\* The verifies that compared a wrong code on window w of budget b.
WrongGuesses(b, w) ==
    {v \in Verifies :
        budget[v] = b /\ slot[v] = w /\ seen[v] # NoCode /\ seen[v] # guess[v]}

(***************************************************************************)
(* However many verifies run at once, over however many codes, at most     *)
(* MaxFailures wrong codes are compared per window of a budget (SECURITY.md*)
(* "Guessing budget per address, not per code").                           *)
(***************************************************************************)
GuessCap ==
    \A b \in Budgets : \A w \in {slot[v] : v \in Verifies} :
        Cardinality(WrongGuesses(b, w)) <= MaxFailures(b)

(***************************************************************************)
(* Windows of one budget do not overlap, up to the latency of a request:   *)
(* neither a stale `now` nor cleanup starts a window early, so GuessCap is *)
(* a cap per failureWindowSec and not only per row.                        *)
(***************************************************************************)
WindowsApart ==
    \A v1, v2 \in Verifies :
        (/\ budget[v1] = budget[v2]
         /\ slot[v1] # NoSlot
         /\ slot[v1] < slot[v2]) => slot[v2] - slot[v1] >= FailureWindow - MaxLatency

(***************************************************************************)
(* A burst of verifies with no live code to check (or of successes) leaves *)
(* its budget untouched (SECURITY.md, the fix of "A burst of no-code       *)
(* verifies filled the budget").                                           *)
(***************************************************************************)
NoCodeCostsNothing ==
    \A b \in Budgets :
        (\A v \in Verifies : budget[v] = b =>
            pc[v] \in {"idle", "noCode", "verified", "limited", "unavailable"})
        => failures[b].count = 0

(***************************************************************************)
(* Of all verifies that submit one code, at most one consumes it, however  *)
(* they race each other and the resends (SECURITY.md, "single use").       *)
(***************************************************************************)
SingleUse ==
    \A v1, v2 \in Verifies : v1 # v2 /\ won[v1] # NoReq => won[v1] # won[v2]

(***************************************************************************)
(* A verify succeeds only by the code in force when it was consumed: a     *)
(* code replaced by a resend between the comparison and the DELETE does    *)
(* not log in, and does not burn its successor.                            *)
(***************************************************************************)
VerifiedByItsCode ==
    \A v \in Verifies :
        /\ won[v] # NoReq => mailed[won[v]] = guess[v]
        /\ pc[v] \in {"refund", "reportOk", "verified"} => won[v] # NoReq

(***************************************************************************)
(* At most CodeMaxAttempts attempts in the lifetime of a code, counted     *)
(* over all its resends (SECURITY.md: "A resend inside the first code's    *)
(* lifetime keeps the attempts already used").                             *)
(***************************************************************************)
AttemptsPerLifetime ==
    \A s \in Starts : Cardinality({v \in Verifies : tries[v] = s}) <= CodeMaxAttempts

(***************************************************************************)
(* Two codes mailed on one budget are a cooldown apart, whatever `now`     *)
(* their requests hold (option limits.resendCooldownSec).                  *)
(***************************************************************************)
CooldownSpacing ==
    \A s1, s2 \in Starts :
        (/\ s1 # s2 /\ budget[s1] = budget[s2]
         /\ pc[s1] = "sent" /\ pc[s2] = "sent")
        => \/ now[s1] - now[s2] >= Cooldown
           \/ now[s2] - now[s1] >= Cooldown

\* At most HourlyCodes codes are mailed per hourly window of a budget.
HourlyCap ==
    \A b \in Budgets : \A w \in {sendWindow[s] : s \in Starts} :
        Cardinality({s \in Starts : pc[s] = "sent" /\ budget[s] = b /\ sendWindow[s] = w})
            <= HourlyCodes

(***************************************************************************)
(* The breaker's row counts the verifications that compared a live code,   *)
(* each once, attempts and failures in the same window (SECURITY.md,       *)
(* "Circuit-breaker counting").                                            *)
(***************************************************************************)
BreakerExact ==
    LET counted == {v \in Verifies :
                        /\ reported[v] # NoSlot
                        /\ reported[v] = breaker.windowStart
                        /\ seen[v] # NoCode}
    IN  /\ breaker.count = Cardinality(counted)
        /\ breaker.failures = Cardinality({v \in counted : pc[v] = "invalid"})
=============================================================================
