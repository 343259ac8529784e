# Verification of workers-auth

TLA+ modules that model the stateful core of workers-auth, the TLC runs that
check them on small instances, and theorems about them that TLAPS proves for
every value of the constants. The reference is the source under `src/src`; line
numbers in `PROJECT.json` ("map") lead from each definition to the code it
stands for.

## 1. The system

workers-auth authenticates requests to a Cloudflare Worker. It has no process of
its own: every HTTP request runs its handler in some isolate, many at once, and
all of them meet in a database (D1 or Postgres) or in Workers KV. A handler is a
sequence of awaited store calls; between two of them anything else may happen.

| component | state it keeps | operations | properties that make it correct |
|---|---|---|---|
| email-code login (`device-auth/index.ts`: `/email/start`, `/email/verify`) | `auth_email_codes` (one row per address), `auth_rate_limits` (fixed-window counters) | send a code within cooldown, hourly cap and failure budget; verify: reserve a failure, reserve an attempt, compare, consume, refund, report to the circuit breaker | guesses per window and per lifetime are capped, a code is used once and by its holder, budgets are exact, sends are spaced |
| PIN, devices (`device-auth/index.ts`: the other routes) | `auth_trusted_devices`, `auth_credentials`, `auth_login_guards` | trust, touch, revoke a device; set a PIN; PIN login with attempts and a lock | wrong PINs capped, lock earned and lifted only by email, a device put out stays out, one PIN |
| device-auth stores (`device-auth/store.ts`, `store/pg/device-auth.ts`) | the rows above | one SQL statement or one transaction per method | each method atomic; both stores alike |
| device-bound sessions (`device-auth/sessions.ts`) | none (a view on a session store) | `get` checks the session's device and ends the session with it | no session outlives its device |
| session stores (`store/kv.ts`, `store/d1.ts`, `store/pg/session.ts`) and `store/revocation.ts` | sessions; per-user revocation markers | create, get, touch, revoke, revokeAllForUser, cleanup | a revoked session never returns; revokeAllForUser reaches every earlier session; touch never extends past the absolute expiry |
| magic link (`providers/magic-link.ts`) | one-time tokens | start, take at the callback | a link signs in once |
| API keys (`providers/api-key.ts`) | key records, revocations | create, verify, revoke, touch | a revoked key stays revoked |
| Neon JWT (`providers/neon.ts`) | cached JWKS per isolate, a second tier in KV, the shared fetch | load, refetch on an unknown key id, `clearJwksCache` | refetches for unknown kids spaced, a rotation picked up, a clear final, everybody answered |
| middleware and routes (`middleware.ts`, `routes.ts`, `index.ts`) | cookies, the caller's session | resolve a user, sign in (rotate the session), sign out | the previous session is ended at sign-in |
| browser client (`client.ts`) | the shared in-flight request, nothing else | `session`, `login`, `logout` | callers that share a request are told the same; nothing is remembered once it has settled |
| PIN hashing, key ring, ip keys, cookies, CSRF, crypto, headers | none | pure functions | - |

Interactions: the email and PIN routes mint sessions in the session store and
revoke all of them (`revokeAllForUser`) after a PIN change; `deviceBoundSessionStore`
reads the device table on every session read; a cron calls the stores' `cleanup()`.

What is hard here: interleavings of requests between store calls, a request that
holds an old `now` (each reads the clock once), a throw between two calls
(nothing is undone), cleanup firing under running requests, and data copied out
of the database and used after it changed. `PROJECT.json` ("hazards") lists each
with its line and the property that covers it.

## 2. What is modelled

### RateLimits
The `auth_rate_limits` statements as functions from a row to a row: `Hit`
(hitRateLimit), `CanReserve` (the WHERE of reserveRateLimit), `CountAt`
(readRateLimit), `Refunded`, `HitPair` (hitCircuitBreaker), `Swept` (cleanup). A
missing row is a row that lapsed before time 0: every statement writes the same
values in both cases.

### EmailCode
`/email/start` and `/email/verify` for one address. The variables are the tables
(`failures`, `cooldown`, `hourly`, `ipHits`, `breaker`, `code`, `liveDevices`)
and each request's locals (`now`, `guess`, `budget`, `slot`, `seen`, and `pc`,
the store call it is about to make). One action per store call:

| action | code |
|---|---|
| `Arrive` | everything before the clock is read; it changes no state |
| `IpLimit`, `ChooseBudget` | `ipLimited`, `deviceOfAddress` + `budgetFor` |
| `CheckFailures`, `HitCooldown`, `HitHourly`, `PutEmailCode` | the four store calls of `/email/start` |
| `CheckBreaker`, `ReserveFailure`, `ReserveAttempt`, `ConsumeCode`, `RefundFailure`, `ReportOutcome` | the store calls of `/email/verify`, up to the verified code |
| `Throw` | any store call, `resolveUser` or other callback rejects |
| `LoseDevice`, `Cleanup`, `Tick` | another request revokes a device, the cron, time |

Codes and their hashes are one: a value of `Codes`, of which different starts may
draw the same (the hash is keyed with the address, so equal codes have equal
hashes). History variables (`refunded`, `mailed`, `issuer`, `won`, `opener`,
`tries`, `sendWindow`, `reported`) record who did what; no guard reads them.

### DeviceAuth
Everything after a verified code, for one account: `EmailUnlock` .. `Mint` (the
rest of `/email/verify`), `LoginReadDevice` .. `Mint` (`/pin/login`), `PinGate`,
`PinReplace`, `SignOut` (`/pin`), `RevokeAllDevices`, `RevokeDevice`,
`ExpireDevice`, `EndSession`, `Throw`. Devices, credentials and sessions are named
by the request that creates them. Time is abstracted: a device expires at any
moment. `Usable` is `deviceBoundSessionStore.get`. Sessions are kept by a store
whose calls take effect at once (D1, Postgres); KV's lag is left to its own module.

### SessionStore and KvSessions
`SessionStore` is the promise of `types.ts` as a caller sees it: which session ids
exist, are over, were revoked by a call that has *returned*, and what a `get`
answers (`Ask`, `Answer`, `Refuse`). A `get` must not answer a session that a
revocation had reached and returned from before the `get` began, nor one that was
over then; one under way when the lifetime ends may still answer (the list's
cleanup may drop the tombstone between the KV read and the query).

`KvSessions` is `store/kv.ts` with the list of `store/revocation.ts` and the
middleware's touch, for the sessions of one user. KV is eventually consistent. A
key is `[now, reads]`: the last value written and the values a read may return.
A write adds its value to `reads`; `PropagateRecord` and `PropagateMarker` let the
replicas agree. The revocation tables are strongly consistent (one D1 database).

| action | code |
|---|---|
| `BeginCreate`, `PutRecord` | `create`: the clock reading, then the put |
| `AskGet`; `FindNothing`, `FindExpired`, `FindLive` | `get`: both keys are read together, then expiry |
| `CheckRevoked`, `ForgetExpired` | `revocation.isRevoked`; the deletes of an expired session (awaited or deferred) |
| `BeginTouch`, `PutMarker` | the middleware's touch: throttle and guard, then one blind put of the marker |
| `BeginRevoke`, `LookUp`, `Bury`, `ForgetRevoked` | `revoke`: read the record, write the tombstone, delete both keys |
| `BeginRevokeAll`, `MarkUser` | `revokeAllForUser`: the cutoff, then the user's marker |
| `Cleanup`, `ExpireRecord`, `ExpireMarker` | the list's cleanup with a cutoff read earlier; KV's `expirationTtl` |
| `Throw`, `Tick` | a call to KV or D1 rejects; time |

`list` is chosen at the start: the store runs with or without a revocation list. A
call that took effect and then failed is the effect followed by `Throw` at the next
step. `asked`, `told` and `reach` are history variables. The refinement mapping
(`Promise`) reads `known` off `made`, `over` off the clock, and `gone` off what
the returned revocations reached; without a list nothing counts as gone, because
`README.md` promises no immediate revocation for KV alone.

### SqlSessions
`store/d1.ts` and `store/pg/session.ts`, chosen at the start together with whether
D1 has a revocation list. Every statement is one step on a strongly consistent
table; the awaits between a caller's statements are step boundaries.

| action | code |
|---|---|
| `BeginCreate`, `Insert` | `create`: the clock reading, then the INSERT |
| `AskGet`; `FindNothing`, `FindRow`; `CheckRevoked`; `Decide`; `DeleteExpired` | `get`: the SELECT, the list's query, expiry, and the unconditional DELETE of an expired row (awaited or deferred) |
| `BeginTouch`, `Update` | the middleware's touch, and the UPDATE with its WHERE and its MIN |
| `BeginRevoke`, `LookUp`, `Bury`, `Delete` | `revoke`, with a list: row, tombstone, DELETE |
| `BeginRevokeAll`, `MarkUser`, `DeleteAll` | `revokeAllForUser`; "mark elsewhere" is that of a KV store on the same list, which deletes no row here |
| `Cleanup`, `CleanupList` | `cleanup` of the store (one batch on D1, two statements on Postgres) and of the list |
| `Throw`, `Tick` | a statement fails; time |

`executor.ts` runs a Postgres statement again after a serialization failure or a
deadlock. Both undo the first run, so the retried statement is one step. A lost
answer is a statement that took effect and a call that rejects.

### PgDeviceStore
What Postgres adds to the D1 device store: there a method is one batch, here it is
a transaction or a statement under READ COMMITTED. Its methods that are single
conditional statements on one row are the same as D1's, and are the steps of
`RateLimits`, `EmailCode` and `DeviceAuth` ("map" points some of their definitions
at `store/pg/device-auth.ts`). The rest is `PgDeviceStore`: an UPDATE of several
rows takes its rows from a snapshot and writes them one by one (`WriteRow`), waits
for a row another transaction has written and looks at it again
(`StillQualifies`); `TakeLock` is the advisory lock; `Insert` meets the unique index;
`CommitChange` publishes what `replaceCredential` wrote; `Abort` rolls back.
`StartReset`/`FinishReset` is the `FOR UPDATE` of `resetLoginGuard`, and `ResetNothing`
the same statement when its snapshot has no row; `Reserve` and `LockAccount` are the
guard's other statements. `Fail` is `retryOnce`: one second
run after 40001 or 40P01, none after anything else.

### SignIn
The four routes, the middleware, `verifyCsrf`, the magic-link and session-bearer
providers, `createSession` and `destroySession`. A request arrives with a cookie
session, one credential and the headers CSRF looks at, each from a small set; what
the program holds apart (transport, `rateLimitId`, device) is a session's `kind`.

| action | code |
|---|---|
| `Arrive`, `Read` | the request; `readCookieSession` and, for session endpoints, `verifyCsrf` |
| `VerifyNothing`, `VerifyBearer`, `TakeLink`, `CheckLink` | `verifyProviders`: none, `sessionBearer`, `magicLink` (DELETE ... RETURNING, then the expiry and `resolveUser`) |
| `Rotate`, `Create` | `createSessionFor`: the previous session is revoked, then the new one made |
| `ReadBearer`, `End`, `Touch` | `revokeBearerSession`, `/logout` and `destroySession`, the middleware's touch |
| `StartLink`, `LapseLink`, `CleanupLinks`, `Expire`, `Throw` | a link's row, its expiry and cleanup; a session's expiry; a rejecting store |

The session store under it is one whose revocations hold at once, which is what
`SessionStore` promises and `SqlSessions` shows of D1 and Postgres.

### Jwks
`neonAuth`'s cache in one isolate: the entry, its one fetch on the wire, the KV
tier and `clearJwksCache`, while the issuer publishes one key document after the
other. `Begin`, `UseKv`, `FetchPastKv`, `ThrowKv` load keys; `Find`, `Refetch`,
`GiveUp` look a kid up, refetching once; `Import` is the awaited `importJwk`;
`Reply`, `Store`, `TimeOut` (the fetch's `AbortSignal`) and `FailFetch` are the fetch;
however it ends, `Resume` answers everybody that joined it. KV may return any document
ever published with any time stamp: what other isolates wrote is not tracked. A document
without keys never counts as fresh (`HasKeys`, `neon.ts:332`); the run has none, the
proofs are for any `Docs`. Every token has a kid: one without takes the first key of its
algorithm's type (`neon.ts:353-354`), which is not modelled.

### ApiKeys
One key in `kvApiKeyStore` or `d1ApiKeyStore`, put with a new secret and revoked
while it is verified with and without `trackLastUsed`. KV as in `KvSessions`. `Revoke`
is a blind write of a key of its own on KV (`WriteRevocation`: before there is a record,
or again) and a conditional UPDATE on D1 (`RevokeRow`).

### AuthClient
`session()` of `client.ts`: `Send` or `Join` the request in the map, `Settle` takes it
out, `ReadBody` is `res.json()` on a Response that gives its body once. `login` and
`logout` are their effect at the server (`Change`).

## 3. What is checked

| run | bounds | shows |
|---|---|---|
| `email_budget` | 3 verifies on budgets of 2 (address) and 1 (device), 1 start, window 3, latency 1, clock 0..3, cleanup at 3 | `BudgetExact`, `GuessCap`, `WindowsApart`, `NoCodeCostsNothing`, `TypeOK` |
| `email_code` | 3 verifies, 2 starts, 2 code values, 2 attempts per lifetime of 2 | `SingleUse`, `VerifiedByItsCode`, `AttemptsPerLifetime` |
| `email_sends` | 3 starts, cooldown 2, hourly cap 2 per 5, clock 0..6 | `CooldownSpacing`, `HourlyCap` |
| `email_breaker` | 3 verifies, breaker window 2, opening at 2 failures, per-IP limits of 2 | `BreakerExact` |
| `device_auth` | 2 verifications, 2 logins, 2 PIN changes, 1 revoke-all, 1 PIN attempt | `PinGuessCap`, `LockIsEarned`, `PutOutStaysOut`, `TypeOK` (with one live PIN) |
| `kv_sessions` | 1 session, 2 gets, 1 revocation of either kind, lifetime 3, idle window 2, clock 1..5, with and without a list | `Implements` (the store implements `SessionStore`), `NoResurrection`, `LogoutSticks`, `TypeOK` |
| `sql_stores` | sessions: 1 session, 2 gets, 1 revocation of either kind, lifetime 3, idle window 2, clock 1..5, three stores. Devices: 2 PIN changes on 2 devices, with 1 revoke-all or with 1 login and 1 reset | `Implements` (a second refinement of `SessionStore`), `NoRevival`; `NoChangeCollides`, `OnePin`, `DevicesGoWithThePin`, `RevokedOnce`, `ChargedOnce`, `ResetsTellAll`; `TypesOK` |
| `requests` | 2 requests; 1 earlier session of any kind, 1 link; 2 verifications of a JWT, 2 key documents, 1 clear, intervals of 1, clock to 2; 2 puts of an API key; 3 sign-ins or sign-outs | `LinkSignsInOnce`, `OutIsOut`, `RefusedChangesNothing`, `TransportsApart`; `NullHasReason`, `FreshKeysSpareIssuer`, `ClearedIsGone`, `EveryoneIsAnswered`; `RevokedIsRefused`, `NewSecretOnly`; `NothingRemembered`; `TypesOK` |
| `pin_unlock` | 3 logins, 2 attempts | `OnlyEmailUnlocks` is violated |
| `old_pin` | 1 login, 2 PIN changes | `NewPinOnly` is violated |
| `kv_deferred` | 1 session, 3 gets, no revocation, clock 1..4 | `SecondGetsNull` is violated |
| `client_body` | 2 callers, 2 GETs | `AllAreTold` is violated |

Why the bounds suffice: each limit is smaller than the number of requests that
draw on it, so it is reached and exceeded; the clock runs past the end of every
window the run is about and past one cleanup while requests are in flight;
latency 1 lets a request hold a `now` one unit older than a row. In `kv_sessions`
the clock runs past the session's lifetime, past the tombstone and past the user
marker, so cleanup removes both; with one session the memory of marker writes is
never cleared in favour of another, and that case is covered by the proof only.
`MaxTime`, `MaxClock`,
`MaxClears`, `MaxPuts`, `MaxChanges` and `MaxLatency` bound the model, not the code: a Worker request has no hard limit on
wall-clock time, but the horizon of cleanup (a day) is far above it. Requests of a
kind and code values are interchangeable, hence the symmetry sets.
`CHECK_DEADLOCK FALSE` everywhere: when all requests have been answered and the
clock has reached its bound, nothing is left to do.

`sql_stores` and `requests` each check several modules in one run. Their parts share
no state: a behaviour picks one part (`tested`) and steps only that, while the
others rest in an initial state. `MCRequests` extends the four modules of its parts, as
`MCSqlStores` extends its two, so the runs, the modules and the proofs use the same
definitions. So the run's states are the sum of the parts', not
their product, and each part's properties are decided on all its behaviours at the
bounds given. In `sql_stores`, `PgDeviceStore` is split once more: `revokeAllDevices`
and the guard's statements share no row, so PIN changes are run beside the one and
beside the other. `DeviceBound` is `FALSE` in `requests`, the setting in which a
device's session must be refused; nobody but `Acceptable` reads it.

Each property is paired in `PROJECT.json` ("mutants") with a plausible bug of the
code that breaks it.

**Four disagreements between the documents and the code.**
*pin_unlock*: `SECURITY.md` and a comment say only an email code lifts a PIN
lockout. A login whose attempt was reserved before the lock and whose PIN is right
calls `resetLoginGuard` after the lock. *old_pin*: a comment and the README say
that after a PIN change with `revokeOtherDevicesOnChange` the kept device logs in
again with the new PIN. A login on that device that read the old credential before
the change mints a session after the sign-out. *kv_deferred*: `README.md` says
that once a `get` has found a session expired, a second `get` before the deferred
delete lands is told `null` too. In KV the idle expiry is read from a marker that a
touch may have just renewed: the first `get` read the old value, the second reads
the new one and answers the session, and the pending delete then removes a session
in use. *client_body*: `client.ts` says simultaneous calls of `session()` share one
request, and its test expects them to return the same. They share the `Response`
too, and with the browser's `fetch` the first `res.json()` uses up its body: the other
calls reject. The test's own `fetch` returns a body that can be read twice.

**Smaller ones, met while modelling, without a run of their own.**
`NewSecretOnly` carries the condition "on D1, or without `trackLastUsed`", because
`kvApiKeyStore.touch` writes the whole record back as it was read: a use of an old
secret that is under way while the key is put again restores the old secret
(`api-key.ts:65-67` and `SECURITY.md` describe only a lost timestamp).
`RevokedIsRefused` speaks on D1 of secrets put before the revocation: a D1 `put`
with the default `revoked_at` takes a revocation back, a KV `put` does not.
`Jwks` accepts a token by a key that was imported while the entry was fresh even
when the document is older than `jwksCacheTtlSec` by then (`neon.ts:350-351`), and
an older document from KV may replace a newer one for the rest of its lifetime.
`neon.ts:51` calls `minRefetchIntervalSec` the "minimum gap between JWKS network
fetches". The code looks at it only before the refetch for an unknown kid
(`neon.ts:359-365`). An entry without fresh keys is fetched whenever no fetch is on the
wire (`neon.ts:330-345`): while the issuer fails, one request follows the other at the
rate of the verifications, in the code and in `Begin` and `FailFetch`.
`FreshKeysSpareIssuer` therefore speaks of entries with fresh keys. It also leaves out
the one fetch of a verification that found nothing in KV while another one's fetch
brought the keys (`FetchPastKv`). `README.md:560-561` says that a hung endpoint "fails a
single request", `SECURITY.md:178-180` "the request that triggered the fetch". In the code
every request that found the fetch on the wire awaits the same promise
(`neon.ts:274`) and fails with it, and so they do in `Resume`; what holds is that none
of them hangs (`EveryoneIsAnswered`).
`NothingRemembered` holds relative to the request joined: a `session()` called after
`logout()` has resolved may join a GET that the server answered before it.

**Fairness.** Two assumptions, for one property each. `LogoutSticks` holds under weak
fairness of `PropagateRecord`, KV's own promise that its replicas agree in the end
on the last value written. `EveryoneIsAnswered` holds under `JwksFairness`, weak fairness
of `Due`: a verification whose await is over goes on (the runtime runs continuations),
`AbortSignal.timeout` fires while a fetch is out (`neon.ts:281-286`; the code uses it
where it exists, as it does on Workers), and a call to KV settles, for which the code
has no timeout of its own. The issuer is not fair: without the signal a verification
waits for ever, which is the property's mutant. New verifications, clears, rotations and
the clock are not fair either. The run's symmetry set is `Requests`, which permutes the
clients of the other parts; verifications are not permuted, and where they move
the permuted parts rest in states that every permutation leaves as they are, so
the check of the liveness property is sound. Of the initial states, `KidsInOrder` keeps
one of each two that differ by an exchange of the two verifications. Elsewhere handlers
are not fair: they may stop at any call, and everything else is safety.

## 4. What is proved

| module | theorem | inductive argument |
|---|---|---|
| `EmailCodeProofs` | `EmailCodeTypes` | `TypeOK` is inductive |
| | `FailureCountsAreExact`, `GuessesAreCapped`, `WindowsDoNotOverlap`, `NoCodeIsFree` | `BudgetInv` |
| | `CodesAreSpaced`, `CodesAreCappedPerHour`, `BreakerCountsAreExact` | `CooldownInv`, `HourlyInv`, `BreakerInv` |
| `EmailCodeUseProofs` | `CodesAreUsedOnce`, `VerifiedByTheCodeInForce` | `CodeInForce`, `WonByGuess` |
| | `AttemptsAreCappedPerLifetime` | `LifetimeOfOpener`, `AttemptsCounted`, `TriesAreOfSent` |
| `DeviceAuthProofs` | `DeviceAuthTypes`, `PinGuessesCapped`, `LocksAreEarned`, `PutOutDevicesStayOut` | `Counted`/`Lockout`, `Unregistered`/`PutOutIsGone` |
| `KvSessionsProofs` | `KvSessionsTypes` | `TypeOK` with the shape of keys and rows |
| | `KvStoreKeepsItsPromise` (`Spec => Implements`), `RecordsStayDeleted` | `KvInv` |
| `SqlSessionsProofs` | `SqlSessionsTypes`, `TouchRevivesNothing`, `SqlStoresKeepTheirPromise` (`Spec => Implements`) | `SqlInv` |
| `PgDeviceStoreProofs` | `PgTypes`, `ChangesNeverCollide`, `AlwaysOnePin`, `DevicesLeaveTogether`, `RevocationReportedOnce`, `ReservationChargedOnce`, `ResetsReportAll` | `PgInv` |
| | `EachStoreAlone`, `SqlStoresTypes` | each step of `MCSqlStores` is a step or a stutter of either store |
| `SignInProofs` | `SignInTypes`, `LinksSignInOnce`, `OutStaysOut`, `RefusalChangesNothing`, `TransportsStayApart` | `SignInInv` |
| `RequestsProofs` | `JwksTypes`, `JwksClearedIsGone`, `JwksFreshKeysSpareIssuer`, `JwksNullHasReason` | `JwksInv` |
| | `KeysTypes`, `KeysRevokedIsRefused`, `KeysNewSecretOnly` | `KeysInv` |
| | `ClientTypes`, `ClientRemembersNothing` | `ClientInv` |
| | `EachPartAlone`, `RequestsTypes` | each step of `MCRequests` is a step or a stutter of each of its four parts |

`BudgetExact` alone is not inductive: a refund decrements only when the row still
carries the reservation's `windowStart`, so one has to know that a reservation
never lies in a window later than its row's, and that a row reborn after cleanup
gets a start no reservation still holds. `BudgetInv` adds that (`Recent`: no
request outlives `MaxLatency`; `Stands`/`Placed`: every reservation lies in the
row's window or in one that ended long enough ago; `HoldersCapped`: charged
reservations of a window stay within the budget). `GuessCap` follows, because a
verify that compared a wrong code never refunds. The cooldown, the hourly cap and
the breaker rest on the same idea with their own rows: whoever was counted stands in
the row's window, in an earlier one, or a horizon back. So a new window, or a row
reborn after cleanup, starts where nobody was counted. `AttemptsPerLifetime` needs that
the row's `attempts` bounds the attempts recorded for the lifetime's opener.
`PinGuessCap` rests on `failed` bounding the wrong PINs since the reset,
`PutOutStaysOut` on a device never coming back once it is gone: registering makes
a new device, touching needs an unrevoked row.

`KvInv` says what a revocation has secured at each of its steps and that nothing
undoes it. Once it has returned with a list, each session it reached is `Covered`:
it is over, or has a tombstone that lasts to its absolute expiry, or was created
before the user's marker. Cleanup keeps that, because it drops a tombstone only at
its expiry and a user marker only `MaxSessionLifetime` after it was written, and
no session lives longer. A `get` that began afterwards either sees the cover in
its query, or the session has ended meanwhile. Each step of `KvSessions` then maps
to one step of `SessionStore` or to a stutter.

`SqlInv` has the same shape: a session a returned revocation reached is `Covered`. It is
over, or it has no row, or (with a list) it was created before the user's marker.
Nothing takes a cover away: only `create` inserts a row, and a touch updates one that
is there. Its mapping to `SessionStore` is proved as for KV.

`PgInv` says that of all PIN changes only the holder of the advisory lock is past its
first statement (`LockHeld`), that a row a transaction has written still qualifies and
is no other transaction's (`Written`), and how much of the old PIN and of the devices a
change has written at each stage (`Progress`). The live PIN therefore does not move
under a change, its snapshot is still the whole truth when it inserts, and its commit
leaves one PIN and revokes the devices in one step.

`SignInInv` joins, per request, what it carries, which routes its stage admits, which
session it holds and what it may have changed so far (`Carries`, `Routed`, `Holding`,
`Unharmed`, `InTimeOnly`) with the claims on links being exclusive: a link's row is
gone once somebody has taken it, and no other request can have taken it.

`JwksInv` keeps five facts beside the types. What an entry has imported, or is about
to, the issuer has published (`Vouched`). An entry's `attempt` is the time its last
fetch went out, although `Loaded` replaces the rest of it and a clear makes another
entry (`Stamps`); together with the three ways a request is sent (`SomebodySends`: by one
that begins and finds no keys, by one that found none in KV, by a refetch past the
interval) that gives `FreshKeysSpareIssuer`. Whoever waits has a fetch under way
(`WaitersFetch`), which is needed for the next: a verification that will be answered
without another fetch has been answered by one that was sent after it came, or that was
on the wire when it came (`Answered`); hence `NullHasReason`. Without KV,
whatever the current entry has, fetches or has handed out is no older than the last
clear (`Uncached`). That holds of the new entry because no fetch has ever been sent for
it: a late reply and a late import go to the old entry, which `mine` still names.

`KeysInv` says of a verification what it was promised when it began and that every value
it may still read keeps that. On KV without `trackLastUsed`, and on D1, nothing but `put`
changes the stored secret (`Renewed`). On KV the revocation's key is written with `TRUE`
alone, so once it reads so everywhere it does for good (`RevokedInKv`); on D1 a row stays
revoked until a put brings a secret beyond the promised one (`RevokedInD1`).
`StoreStep`, `OthersRest` and `UseGoes` say once what a step does to the store, to the
other verifications and to its own; each part of the invariant uses only these.

`ClientInv` follows a caller (`Told`): it has a GET from its call on, and a GET that has
been served saw a session no older than any of the callers that share it may be told of.

Assumptions: `TtlAssumption` (the idle window is within the lifetime, which
`resolveSessionConfig` enforces; `MaxSessionLifetime` is the longest lifetime
configured, as `SECURITY.md` requires; the tombstone's fallback horizon is at least
the lifetime, as with the defaults, 30 days both). Further, the options are positive (`LimitsAssumption`, `TimesAssumption`; the
code's `positive(...)` checks), names are distinct (`NamesAssumption`,
`PgAssumption`), the issuer publishes something from the start and an interval may be 0
(`JwksAssumption`), a client's names are distinct and at least one change is allowed
(`ClientAssumption`), puts are counted (`KeysAssumption`), and `HorizonAssumption`:
cleanup's horizon is at least the failure window (required by the repository's
README) and exceeds the latency of a request. Lemmas about the row functions of `RateLimits` open `EmailCodeProofs`.

Every property of a passing run but two is stated by a theorem. Model-checked only:
`LogoutSticks` and `EveryoneIsAnswered`, since liveness under fairness is out of the prover's reach, as is
anything with `ENABLED`; and the four violated properties, which are not theorems.
Nothing here needs induction over data: counts are related to cardinalities of sets that
grow or shrink by one element per step.

## 5. What is not modelled

- Parsing, formatting, logging and events, cookies and their attributes, redirects,
  the bot check: they refuse or dress a request before or after any state is touched.
- Cryptography: a hash equals another iff what was hashed is equal; a JWT's
  signature, issuer, audience and dates are taken to be good, since a token that
  fails them is refused without touching the cache.
- `kvMagicLinkStore`: its `take` is a get and a delete, so a link may be used twice;
  `magicLink()` refuses it unless the application opts in, and the code says why.
- `markCredentialUsed` (timestamps and re-encrypted material) and `revokeMany` of the
  list (no store calls it).
- The reading of the configuration, the registry that recognises a wrapped store,
  `testing.ts` (for applications' own tests), types.
- Of the Postgres executor, connection handling; its retry is modelled.

Three hazards have no property, each with its reason in `PROJECT.json`: the code row
written by two starts in the opposite order of their clocks (`store.ts:330`),
`touchDevice` with an older clock (`store.ts:395`), and `POST /pin` past its gate
(`index.ts:995`), whose window the code accepts.

## 6. Plan

1. Proofs about the promises themselves: what `SessionStore` guarantees to a caller of
   `get`, carried over to the three stores by their refinements.
2. A run of `Jwks` that asks how long a rotated key may still be accepted, with
   other isolates writing the KV tier; today KV may return any document.
3. The weak-PIN test of `credentials.ts` and the /64 grouping of `ip.ts` as operators,
   checked against a reference definition over bounded inputs.
4. A property for `store.ts:330`: how much a code's lifetime may shrink when two starts
   write in the opposite order of their clocks.
