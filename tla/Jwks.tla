---------------------------------- MODULE Jwks ----------------------------------
(***************************************************************************)
(* The JWKS cache of neonAuth (src/src/providers/neon.ts) in one isolate,  *)
(* with or without its second tier in KV, while the issuer rotates its     *)
(* keys.  Concurrent verifications share the entry and its one fetch on    *)
(* the wire; every await is a step boundary.  A token's signature, issuer  *)
(* and dates are pure checks and are taken to be good.                     *)
(***************************************************************************)
EXTENDS Integers, Sequences

CONSTANTS
    Verifies,
    Docs,         \* the documents the issuer publishes, one after the other: sets of kids
    Ttl,          \* jwksCacheTtlSec
    MinRefetch,   \* minRefetchIntervalSec
    MaxClears,    \* how often clearJwksCache may be called
    MaxTime       \* bound of the clock, for TLC

Kids == UNION {Docs[d] : d \in DOMAIN Docs}
Gens == 0..MaxClears

\* The issuer publishes something from the start; an interval may be 0.
ASSUME JwksAssumption ==
    /\ Docs \in Seq(SUBSET Kids) /\ Docs # <<>>
    /\ Ttl \in Nat /\ MinRefetch \in Nat
    /\ MaxClears \in Nat

VARIABLES
    now,
    published,  \* the document the issuer publishes
    cached,     \* is a KV cache configured?
    gen,        \* the entry jwksCache holds: one more with every clear
    entry,      \* the entries; an old one is still used by who has it
    wire,       \* each entry's fetch: "none", "out" or "storing"
    sent,       \* the document published when the fetch was sent
    reply,      \* the document it has brought
    at,         \* the clock a verification has read
    kid,        \* the kid of its token
    mine,       \* the entry it uses
    got,        \* the document it looks in
    step,       \* where it is
    sentAt,     \* history: when an entry's last fetch went out
    joined,     \* history: was a fetch on the wire when a verification began?
    cleared     \* history: the document published at the last clear

fetches == <<wire, sent, reply>>
asked == <<at, kid, mine>>
jwksHistory == <<sentAt, joined, cleared>>
jwksVars == <<now, published, cached, gen, entry, fetches, asked, got, step, jwksHistory>>

Empty == [doc |-> 0, fetchedAt |-> 0, attempt |-> 0, imported |-> {}]

\* Longer ago than any interval.
Never == 0 - Ttl - MinRefetch

JwksInit ==
    /\ now = 1
    /\ published = 1
    /\ cached \in BOOLEAN
    /\ gen = 0
    /\ entry = [g \in Gens |-> [Empty EXCEPT !.attempt = Never]]
    /\ wire = [g \in Gens |-> "none"]
    /\ sent = [g \in Gens |-> 0]
    /\ reply = [g \in Gens |-> 0]
    /\ at = [v \in Verifies |-> 0]
    /\ kid \in [Verifies -> Kids]
    /\ mine = [v \in Verifies |-> 0]
    /\ got = [v \in Verifies |-> 0]
    /\ step = [v \in Verifies |-> "idle"]
    /\ sentAt = [g \in Gens |-> Never]
    /\ joined = [v \in Verifies |-> FALSE]
    /\ cleared = 1

\* A verification goes on to a step, or is answered and forgets what it had.
GoOn(v, to) ==
    /\ step' = [step EXCEPT ![v] = to]
    /\ got' = [got EXCEPT ![v] = 0]

Answer(v, to) ==
    /\ GoOn(v, to)
    /\ at' = [at EXCEPT ![v] = 0]
    /\ joined' = [joined EXCEPT ![v] = FALSE]

HasMutant(d, k) == d # 0
Has(d, k) == d # 0 /\ k \in Docs[d]

---------------------------------------------------------------------------
\* fetchJwks: join the fetch on the wire, or send one.

AttemptMutant(e) == e
Attempt(e) == [e EXCEPT !.attempt = now]

Fetch(v, g) ==
    IF wire[g] # "none"
      THEN UNCHANGED <<entry, wire, sent, sentAt>>
      ELSE /\ entry' = [entry EXCEPT ![g] = Attempt(@)]
           /\ wire' = [wire EXCEPT ![g] = "out"]
           /\ sent' = [sent EXCEPT ![g] = published]
           /\ sentAt' = [sentAt EXCEPT ![g] = now]

\* Those that await the fetch of an entry go on: with its document, or not.
Waiting(g) == {v \in Verifies : step[v] \in {"wait", "wait again"} /\ mine[v] = g}

Resume(g, d) ==
    /\ got' = [v \in Verifies |-> IF v \in Waiting(g) THEN d ELSE got[v]]
    /\ step' = [v \in Verifies |->
           IF v \notin Waiting(g) THEN step[v]
           ELSE IF d = 0 THEN "threw"
           ELSE IF step[v] = "wait" THEN "look" ELSE "look again"]
    /\ wire' = [wire EXCEPT ![g] = "none"]
    /\ sent' = [sent EXCEPT ![g] = 0]
    /\ reply' = [reply EXCEPT ![g] = 0]

\* A document replaces the entry's keys and the keys imported from the last.
Loaded(e, d, t) == [e EXCEPT !.doc = d, !.fetchedAt = t, !.imported = {}]

Reply(g) ==
    /\ wire[g] = "out"
    /\ \E d \in sent[g]..published :
           /\ entry' = [entry EXCEPT ![g] = Loaded(@, d, now)]
           /\ IF cached
                THEN /\ wire' = [wire EXCEPT ![g] = "storing"]
                     /\ reply' = [reply EXCEPT ![g] = d]
                     /\ UNCHANGED <<sent, got, step>>
                ELSE Resume(g, d)
    /\ UNCHANGED <<now, published, cached, gen, asked, jwksHistory>>

\* The write to KV has been awaited.
Store(g) ==
    /\ wire[g] = "storing"
    /\ Resume(g, reply[g])
    /\ UNCHANGED <<now, published, cached, gen, entry, asked, jwksHistory>>

\* The fetch carries AbortSignal.timeout(fetchTimeoutMs), which also ends the
\* reading of a body; the write to KV carries nothing of the kind.
AbortsMutant(g) == FALSE
Aborts(g) == wire[g] = "out"

TimeOut(g) ==
    /\ Aborts(g)
    /\ Resume(g, 0)
    /\ UNCHANGED <<now, published, cached, gen, entry, asked, jwksHistory>>

\* No connection, an answer that is not a JWKS, or a write to KV that fails.
FailFetch(g) ==
    /\ wire[g] # "none"
    /\ Resume(g, 0)
    /\ UNCHANGED <<now, published, cached, gen, entry, asked, jwksHistory>>

---------------------------------------------------------------------------
\* resolveKey

Fresh(fetchedAt, t) == t - fetchedAt < Ttl

\* A document without keys is asked for again.
HasKeys(e) == e.doc # 0 /\ Docs[e.doc] # {} /\ Fresh(e.fetchedAt, now)

Begin(v) ==
    LET e == entry[gen]
        fresh == HasKeys(e)
        next == CASE kid[v] \in e.imported -> "accepted"
                  [] kid[v] \notin e.imported /\ fresh -> "look"
                  [] kid[v] \notin e.imported /\ ~fresh -> IF cached THEN "kv" ELSE "wait"
    IN
    /\ step[v] = "idle"
    /\ at' = [at EXCEPT ![v] = IF next = "accepted" THEN 0 ELSE now]
    /\ mine' = [mine EXCEPT ![v] = gen]
    /\ step' = [step EXCEPT ![v] = next]
    /\ got' = [got EXCEPT ![v] = IF next = "look" THEN e.doc ELSE 0]
    /\ IF next = "wait" THEN Fetch(v, gen) ELSE UNCHANGED <<entry, wire, sent, sentAt>>
    /\ joined' = [joined EXCEPT ![v] = next # "accepted" /\ wire[gen] # "none"]
    /\ UNCHANGED <<now, published, cached, gen, reply, kid, cleared>>

\* loadKeys, with the clock it read before the call to KV.  KV is written by
\* every isolate and slow to converge: it may have any document published so
\* far, fetched at any time.
LoadedFromKvMutant(e, d, t) == [Loaded(e, d, t) EXCEPT !.attempt = now]
LoadedFromKv(e, d, t) == Loaded(e, d, t)

UseKv(v) ==
    /\ step[v] = "kv"
    /\ \E d \in 1..published, t \in 1..now :
           /\ Fresh(t, at[v])
           /\ entry' = [entry EXCEPT ![mine[v]] = LoadedFromKv(@, d, t)]
           /\ got' = [got EXCEPT ![v] = d]
    /\ step' = [step EXCEPT ![v] = "look"]
    /\ UNCHANGED <<now, published, cached, gen, fetches, asked, jwksHistory>>

\* Nothing in KV, or nothing fresh.
FetchPastKv(v) ==
    /\ step[v] = "kv"
    /\ GoOn(v, "wait")
    /\ Fetch(v, mine[v])
    /\ UNCHANGED <<now, published, cached, gen, reply, asked, joined, cleared>>

ThrowKv(v) ==
    /\ step[v] = "kv"
    /\ Answer(v, "threw")
    /\ UNCHANGED <<now, published, cached, gen, entry, fetches, kid, mine, sentAt, cleared>>

Find(v) ==
    /\ step[v] \in {"look", "look again"}
    /\ Has(got[v], kid[v])
    /\ GoOn(v, "import")
    /\ UNCHANGED <<now, published, cached, gen, entry, fetches, asked, jwksHistory>>

\* An unknown kid: refetch once, and not if the endpoint was just hit.
JustHit(g) == now - entry[g].attempt < MinRefetch

Refetch(v) ==
    /\ step[v] = "look"
    /\ ~Has(got[v], kid[v])
    /\ ~JustHit(mine[v])
    /\ GoOn(v, "wait again")
    /\ Fetch(v, mine[v])
    /\ UNCHANGED <<now, published, cached, gen, reply, asked, joined, cleared>>

GiveUp(v) ==
    /\ \/ step[v] = "look" /\ JustHit(mine[v])
       \/ step[v] = "look again"
    /\ ~Has(got[v], kid[v])
    /\ Answer(v, "null")
    /\ UNCHANGED <<now, published, cached, gen, entry, fetches, kid, mine, sentAt, cleared>>

\* importJwk is awaited: the entry may hold another document by now.
Import(v) ==
    /\ step[v] = "import"
    /\ entry' = [entry EXCEPT ![mine[v]].imported = @ \cup {kid[v]}]
    /\ Answer(v, "accepted")
    /\ UNCHANGED <<now, published, cached, gen, fetches, kid, mine, sentAt, cleared>>

---------------------------------------------------------------------------
\* clearJwksCache: the next verification makes an entry of its own.
NewEntryMutant(old) == [old EXCEPT !.fetchedAt = 0, !.doc = 0]
NewEntry(old) == [Empty EXCEPT !.attempt = Never]

ClearJwksCache ==
    /\ gen < MaxClears
    /\ gen' = gen + 1
    /\ entry' = [entry EXCEPT ![gen + 1] = NewEntry(entry[gen])]
    /\ cleared' = published
    /\ UNCHANGED <<now, published, cached, fetches, asked, got, step, sentAt, joined>>

RotateKeys ==
    /\ published < Len(Docs)
    /\ published' = published + 1
    /\ UNCHANGED <<now, cached, gen, entry, fetches, asked, got, step, jwksHistory>>

Tick ==
    /\ now < MaxTime
    /\ now' = now + 1
    /\ UNCHANGED <<published, cached, gen, entry, fetches, asked, got, step, jwksHistory>>

Resolve(v) ==
    \/ UseKv(v) \/ FetchPastKv(v) \/ ThrowKv(v)
    \/ Find(v) \/ Refetch(v) \/ GiveUp(v) \/ Import(v)

JwksNext ==
    \/ \E v \in Verifies : Begin(v) \/ Resolve(v)
    \/ \E g \in Gens : Reply(g) \/ Store(g) \/ TimeOut(g) \/ FailFetch(g)
    \/ ClearJwksCache \/ RotateKeys \/ Tick

JwksSpec == JwksInit /\ [][JwksNext]_jwksVars

\* What the runtime sees to: an await that is over goes on, a signal fires, and
\* a call to KV settles.  The issuer need never answer, and no request come.
Due == (\E v \in Verifies : Resolve(v)) \/ (\E g \in Gens : TimeOut(g) \/ Store(g))

JwksFairness == WF_jwksVars(Due)

---------------------------------------------------------------------------
Steps == {"idle", "kv", "wait", "look", "wait again", "look again", "import",
          "accepted", "null", "threw"}

(* Types; what has been imported, and whom it let in, the issuer has         *)
(* published: an unreachable or unknown JWKS lets nobody in.                 *)
JwksTypeOK ==
    /\ now \in Nat
    /\ published \in DOMAIN Docs
    /\ cached \in BOOLEAN
    /\ gen \in Gens
    /\ entry \in [Gens -> [doc : 0..published, fetchedAt : 0..now,
                           attempt : Never..now, imported : SUBSET Kids]]
    /\ wire \in [Gens -> {"none", "out", "storing"}]
    /\ sent \in [Gens -> 0..published]
    /\ reply \in [Gens -> 0..published]
    /\ at \in [Verifies -> 0..now]
    /\ kid \in [Verifies -> Kids]
    /\ mine \in [Verifies -> 0..gen]
    /\ got \in [Verifies -> 0..published]
    /\ step \in [Verifies -> Steps]
    /\ sentAt \in [Gens -> Never..now]
    /\ joined \in [Verifies -> BOOLEAN]
    /\ cleared \in 1..published
    /\ \A v \in Verifies :
           step[v] = "accepted" => \E d \in 1..published : kid[v] \in Docs[d]

(* A good token is refused only because something failed, or because the     *)
(* isolate asked the issuer for it, was asking when it came or had done so a *)
(* moment ago ("key rotation is picked up", README.md:556-557): not because  *)
(* of what KV or another request had.                                        *)
NullHasReason ==
    [][\A v \in Verifies :
           (step[v] # "null" /\ step'[v] = "null" /\ kid[v] \in Docs[published])
               => \/ joined[v]
                  \/ at[v] <= sentAt[mine[v]]
                  \/ at[v] - sentAt[mine[v]] < MinRefetch]_jwksVars

(* While an entry has fresh keys, no two requests for it leave within the    *)
(* interval, whoever sends them and whatever became of the last ("an unknown *)
(* kid triggers exactly one refetch, rate limited to one network call per    *)
(* minRefetchIntervalSec", README.md:555-557).  An entry without fresh keys  *)
(* (new, stale, or of a document without keys) is asked for by every         *)
(* verification that finds no request on the wire, at any rate: loadKeys     *)
(* knows no interval, although neon.ts:51 calls it the "minimum gap between  *)
(* JWKS network fetches".  So is one that gets its keys while a verification *)
(* reads KV, once, by that verification.                                     *)
FreshKeysSpareIssuer ==
    [][\A g \in Gens :
           (wire[g] = "none" /\ wire'[g] # "none" /\ HasKeys(entry[g]))
               => \/ now - sentAt[g] >= MinRefetch
                  \/ \E v \in Verifies : mine[v] = g /\ step[v] = "kv" /\ step'[v] = "wait"]_jwksVars

(* Without the KV tier, clearJwksCache is an emergency rotation: whoever     *)
(* comes after it is let in only by a key that was published then or later,  *)
(* whatever verifications and fetches were under way on the old entry.       *)
ClearedIsGone ==
    \A v \in Verifies : (step[v] = "accepted" /\ mine[v] = gen /\ ~cached) =>
        \E d \in cleared..published : kid[v] \in Docs[d]

(* Every verification is answered in the end though the issuer never does:   *)
(* whoever sent the request or joined it, over clears of the cache, failed   *)
(* fetches and a second fetch ("a hung [...] JWKS endpoint fails the request *)
(* that triggered the fetch instead of stalling every authenticated request  *)
(* behind it", SECURITY.md:178-180; those that joined it fail too).          *)
EveryoneIsAnswered ==
    <>[](\A v \in Verifies : step[v] \in {"idle", "accepted", "null", "threw"})
=============================================================================
