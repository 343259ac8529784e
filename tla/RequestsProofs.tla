----------------------------- MODULE RequestsProofs -----------------------------
(***************************************************************************)
(* Proofs about what a request goes through beside SignIn: the JWKS cache  *)
(* (Jwks), an API key's stores (ApiKeys) and the browser's client          *)
(* (AuthClient); and that a behaviour of them all (MCRequests) is a        *)
(* behaviour of each.                                                      *)
(***************************************************************************)
EXTENDS MCRequests, SignInProofs

-----------------------------------------------------------------------------
(* Jwks: the inductive invariant.                                           *)

\* The issuer has published a kid, no earlier than a document.
Published(from, k) == \E d \in from..published : k \in Docs[d]

\* The types without what accepted verifications have shown.
Entries == [doc : 0..published, fetchedAt : 0..now, attempt : Never..now, imported : SUBSET Kids]

JwksFields ==
    /\ now \in Nat
    /\ published \in DOMAIN Docs
    /\ cached \in BOOLEAN
    /\ gen \in Gens
    /\ entry \in [Gens -> Entries]
    /\ wire \in [Gens -> {"none", "out", "storing"}]
    /\ sent \in [Gens -> 0..published]
    /\ reply \in [Gens -> 0..published]
    /\ at \in [Verifies -> 0..now]
    /\ kid \in [Verifies -> Kids]
    /\ mine \in [Verifies -> 0..gen]
    /\ got \in [Verifies -> 0..published]
    /\ step \in [Verifies -> Steps]
    /\ sentAt \in [Gens -> Never..now]
    /\ joined \in [Verifies -> BOOLEAN]
    /\ cleared \in 1..published

\* What is imported, or about to be, and whom it let in, has been published.
Vouched ==
    /\ \A g \in Gens : \A k \in entry[g].imported : Published(1, k)
    /\ \A v \in Verifies : step[v] \in {"import", "accepted"} => Published(1, kid[v])

\* An entry knows when its last fetch went out; a later entry has sent none.
Stamps ==
    \A g \in Gens :
        /\ entry[g].attempt = sentAt[g]
        /\ g > gen => sentAt[g] = Never /\ wire[g] = "none"

\* A fetch a verification may wait for was sent after it came, or was on the
\* wire when it came.
Asked(v) == joined[v] \/ at[v] <= sentAt[mine[v]]

Underway == {"kv", "wait", "look", "wait again"}

AnsweredTo(v) ==
    /\ step[v] \in Underway /\ wire[mine[v]] # "none" => Asked(v)
    /\ step[v] = "look again" => Asked(v)

Answered == \A v \in Verifies : AnsweredTo(v)

\* Without KV, whatever the current entry has, fetches or hands out was
\* published since the last clear.
Recently(v) ==
    /\ got[v] = 0 \/ got[v] >= cleared
    /\ step[v] \in {"import", "accepted"} => Published(cleared, kid[v])

Uncached ==
    ~cached =>
        /\ \A g \in Gens : wire[g] # "storing"
        /\ \A v \in Verifies : step[v] # "kv"
        /\ entry[gen].doc = 0 \/ entry[gen].doc >= cleared
        /\ \A k \in entry[gen].imported : Published(cleared, k)
        /\ wire[gen] = "out" => sent[gen] >= cleared
        /\ \A v \in Verifies : mine[v] = gen => Recently(v)

\* Who waits for a document waits for a fetch that is under way.
WaitersFetch ==
    \A v \in Verifies : step[v] \in {"wait", "wait again"} => wire[mine[v]] # "none"

JwksInv == JwksFields /\ Vouched /\ Stamps /\ WaitersFetch /\ Answered /\ Uncached

LEMMA FieldsAreTypes == JwksFields /\ Vouched => JwksTypeOK
  BY DEF JwksFields, Entries, Vouched, JwksTypeOK, Published

LEMMA Documents ==
    /\ Len(Docs) \in Nat \ {0} /\ DOMAIN Docs = 1..Len(Docs)
    /\ \A d \in DOMAIN Docs : Docs[d] \subseteq Kids
    /\ Never \in Int /\ Never <= 0 /\ MinRefetch <= 0 - Never /\ MinRefetch \in Nat
    /\ Gens = 0..MaxClears /\ MaxClears \in Nat
  BY JwksAssumption DEF Kids, Never, Gens

\* The values of the fields a step works with.
LEMMA Ranges ==
    ASSUME JwksFields
    PROVE  /\ published \in Nat /\ 0 \in 0..published /\ now \in Nat /\ gen \in Gens
           /\ \A g \in Gens : sent[g] \in 0..published /\ reply[g] \in 0..published
           /\ \A g \in Gens : sentAt[g] \in Int
           /\ \A v \in Verifies : mine[v] \in Gens /\ mine[v] <= gen
           /\ \A v \in Verifies : at[v] \in Nat /\ at[v] <= now
  <1>1. /\ published \in Nat /\ 0 \in 0..published /\ now \in Nat /\ gen \in Gens
        /\ mine \in [Verifies -> 0..gen]
    BY Documents DEF JwksFields
  <1>2. \A v \in Verifies : mine[v] \in Gens /\ mine[v] <= gen
    BY <1>1, Documents
  <1>3. \A g \in Gens : sent[g] \in 0..published /\ reply[g] \in 0..published
    BY DEF JwksFields
  <1>4. \A g \in Gens : sentAt[g] \in Int
    BY Documents DEF JwksFields
  <1>5. \A v \in Verifies : at[v] \in Nat /\ at[v] <= now
    BY DEF JwksFields
  <1> QED  BY <1>1, <1>2, <1>3, <1>4, <1>5

LEMMA JwksInitially == JwksInit => JwksInv
  <1> SUFFICES ASSUME JwksInit PROVE JwksInv
    OBVIOUS
  <1>1. [Empty EXCEPT !.attempt = Never] \in Entries
    BY Documents DEF JwksInit, Empty, Entries
  <1>2. JwksFields
    <2>1. entry \in [Gens -> Entries]
      BY <1>1 DEF JwksInit
    <2>2. 0 \in Gens /\ 1 \in DOMAIN Docs /\ Never <= 1
      BY Documents
    <2>3. sentAt \in [Gens -> Never..now]
      BY <2>2, Documents DEF JwksInit
    <2> QED  BY <2>1, <2>2, <2>3 DEF JwksInit, JwksFields, Steps
  <1>3. \A g \in Gens : entry[g].doc = 0 /\ entry[g].attempt = Never /\ entry[g].imported = {}
    BY DEF JwksInit, Empty
  <1>4. Vouched /\ Stamps /\ WaitersFetch /\ Answered
    BY <1>3 DEF JwksInit, Vouched, Stamps, WaitersFetch, Answered, AnsweredTo, Underway
  <1>5. Uncached
    <2>1. gen \in Gens /\ \A g \in Gens : wire[g] = "none"
      BY Documents DEF JwksInit
    <2>2. \A v \in Verifies : step[v] = "idle" /\ got[v] = 0
      BY DEF JwksInit
    <2> QED  BY <1>3, <2>1, <2>2 DEF Uncached, Recently
  <1> QED  BY <1>2, <1>4, <1>5 DEF JwksInv

-----------------------------------------------------------------------------
(* What a fetch that is sent, and one that is over, change.                 *)

LEMMA FetchDoes ==
    ASSUME JwksFields, NEW v, NEW g \in Gens, Fetch(v, g)
    PROVE  /\ entry' \in [Gens -> Entries] /\ sentAt' \in [Gens -> Never..now]
           /\ wire' \in [Gens -> {"none", "out", "storing"}] /\ sent' \in [Gens -> 0..published]
           /\ wire'[g] # "none" /\ wire'[g] \in {wire[g], "out"}
           /\ \A h \in Gens : entry'[h].doc = entry[h].doc /\ entry'[h].imported = entry[h].imported
           /\ \A h \in Gens : h # g \/ wire[h] # "none" =>
                  /\ entry'[h].attempt = entry[h].attempt /\ sentAt'[h] = sentAt[h]
                  /\ wire'[h] = wire[h] /\ sent'[h] = sent[h]
           /\ wire[g] = "none" =>
                  /\ entry'[g].attempt = now /\ sentAt'[g] = now
                  /\ wire'[g] = "out" /\ sent'[g] = published
  <1>1. CASE wire[g] # "none"
    BY <1>1 DEF Fetch, JwksFields
  <1>2. CASE wire[g] = "none"
    <2> DEFINE e == [entry[g] EXCEPT !.attempt = now]
    <2>1. /\ entry' = [entry EXCEPT ![g] = e] /\ wire' = [wire EXCEPT ![g] = "out"]
          /\ sent' = [sent EXCEPT ![g] = published] /\ sentAt' = [sentAt EXCEPT ![g] = now]
      BY <1>2 DEF Fetch, Attempt
    <2>2. now \in Never..now /\ published \in 0..published
      BY Ranges, Documents
    <2>3. e \in Entries /\ e.attempt = now /\ e.doc = entry[g].doc /\ e.imported = entry[g].imported
      BY <2>2 DEF JwksFields, Entries
    <2> HIDE DEF e
    <2> QED  BY <1>2, <2>1, <2>2, <2>3 DEF JwksFields
  <1> QED  BY <1>1, <1>2

LEMMA ResumeDoes ==
    ASSUME JwksFields, NEW g \in Gens, NEW d \in 0..published, Resume(g, d)
    PROVE  /\ got' \in [Verifies -> 0..published] /\ step' \in [Verifies -> Steps]
           /\ wire' \in [Gens -> {"none", "out", "storing"}]
           /\ sent' \in [Gens -> 0..published] /\ reply' \in [Gens -> 0..published]
           /\ \A v \in Waiting(g) :
                  /\ got'[v] = d /\ step'[v] \in {"threw", "look", "look again"}
                  /\ step'[v] = "look again" => step[v] = "wait again"
                  /\ step[v] \in {"wait", "wait again"}
           /\ \A v \in Verifies \ Waiting(g) : got'[v] = got[v] /\ step'[v] = step[v]
           /\ wire'[g] = "none"
           /\ \A h \in Gens \ {g} : wire'[h] = wire[h] /\ sent'[h] = sent[h]
  <1>1. /\ wire' \in [Gens -> {"none", "out", "storing"}] /\ wire'[g] = "none"
        /\ sent' \in [Gens -> 0..published] /\ reply' \in [Gens -> 0..published]
        /\ \A h \in Gens \ {g} : wire'[h] = wire[h] /\ sent'[h] = sent[h]
    <2>1. /\ wire' = [wire EXCEPT ![g] = "none"]
          /\ sent' = [sent EXCEPT ![g] = 0] /\ reply' = [reply EXCEPT ![g] = 0]
      BY DEF Resume
    <2>2. 0 \in 0..published
      BY Documents DEF JwksFields
    <2> QED  BY <2>1, <2>2 DEF JwksFields
  <1>2. \A v \in Verifies : v \in Waiting(g) <=>
            step[v] \in {"wait", "wait again"} /\ mine[v] = g
    BY DEF Waiting
  <1>3. \A v \in Verifies :
            /\ got'[v] = (IF v \in Waiting(g) THEN d ELSE got[v])
            /\ step'[v] = (IF v \notin Waiting(g) THEN step[v]
                           ELSE IF d = 0 THEN "threw"
                           ELSE IF step[v] = "wait" THEN "look" ELSE "look again")
    BY DEF Resume
  <1>4. got' \in [Verifies -> 0..published]
    BY DEF JwksFields, Resume
  <1>5. step' \in [Verifies -> Steps]
    BY DEF JwksFields, Resume, Steps
  <1>6. Waiting(g) \subseteq Verifies
    BY DEF Waiting
  <1>7. \A v \in Waiting(g) :
            /\ got'[v] = d /\ step'[v] \in {"threw", "look", "look again"}
            /\ step'[v] = "look again" => step[v] = "wait again"
            /\ step[v] \in {"wait", "wait again"}
    BY <1>2, <1>3, <1>6
  <1>8. \A v \in Verifies \ Waiting(g) : got'[v] = got[v] /\ step'[v] = step[v]
    BY <1>3
  <1> QED  BY <1>1, <1>4, <1>5, <1>7, <1>8

LEMMA BeginGoes ==
    ASSUME NEW v \in Verifies, Begin(v)
    PROVE  \E next \in {"accepted", "look", "kv", "wait"} :
               /\ step' = [step EXCEPT ![v] = next]
               /\ at' = [at EXCEPT ![v] = IF next = "accepted" THEN 0 ELSE now]
               /\ got' = [got EXCEPT ![v] = IF next = "look" THEN entry[gen].doc ELSE 0]
               /\ joined' = [joined EXCEPT ![v] = next # "accepted" /\ wire[gen] # "none"]
               /\ IF next = "wait" THEN Fetch(v, gen) ELSE UNCHANGED <<entry, wire, sent, sentAt>>
               /\ next = "accepted" => kid[v] \in entry[gen].imported
               /\ next = "kv" => cached
               /\ next = "wait" => ~HasKeys(entry[gen])
  <1> DEFINE e == entry[gen]
             fresh == HasKeys(e)
             next == CASE kid[v] \in e.imported -> "accepted"
                       [] kid[v] \notin e.imported /\ fresh -> "look"
                       [] kid[v] \notin e.imported /\ ~fresh -> IF cached THEN "kv" ELSE "wait"
  <1>1. /\ next \in {"accepted", "look", "kv", "wait"}
        /\ next = "accepted" => kid[v] \in e.imported
        /\ next = "kv" => cached
        /\ next = "wait" => ~HasKeys(e)
    BY Zenon
  <1>2. /\ step' = [step EXCEPT ![v] = next]
        /\ at' = [at EXCEPT ![v] = IF next = "accepted" THEN 0 ELSE now]
        /\ got' = [got EXCEPT ![v] = IF next = "look" THEN e.doc ELSE 0]
        /\ joined' = [joined EXCEPT ![v] = next # "accepted" /\ wire[gen] # "none"]
        /\ IF next = "wait" THEN Fetch(v, gen) ELSE UNCHANGED <<entry, wire, sent, sentAt>>
    BY DEF Begin
  <1> HIDE DEF next
  <1> QED  BY <1>1, <1>2

\* What a fetch that is given up does to the isolate, any fetch that fails does.
LEMMA TimeOutFails ==
    ASSUME NEW g, TimeOut(g)
    PROVE  FailFetch(g)
  BY DEF TimeOut, FailFetch, Aborts

LEMMA FieldsStep ==
    ASSUME JwksFields, [JwksNext]_jwksVars
    PROVE  JwksFields'
  <1> USE DEF fetches, asked, jwksHistory
  <1>0. 0 \in 0..published /\ 0 \in 0..now /\ now \in 0..now /\ published \in Nat
    BY Documents DEF JwksFields
  <1>m. \A v \in Verifies : mine[v] \in Gens
    BY Documents DEF JwksFields
  <1>1. ASSUME NEW v \in Verifies, Begin(v) PROVE JwksFields'
    <2>1. gen \in Gens /\ entry[gen] \in Entries /\ gen \in 0..gen
      BY Documents DEF JwksFields
    <2>2. /\ entry' \in [Gens -> Entries] /\ sentAt' \in [Gens -> Never..now]
          /\ wire' \in [Gens -> {"none", "out", "storing"}] /\ sent' \in [Gens -> 0..published]
      <3>1. Fetch(v, gen) \/ UNCHANGED <<entry, wire, sent, sentAt>>
        BY <1>1 DEF Begin
      <3> QED  BY <2>1, <3>1, FetchDoes DEF JwksFields
    <2>3. PICK next \in {"accepted", "look", "kv", "wait"}, t \in 0..now, d \in 0..published,
               j \in BOOLEAN :
            /\ step' = [step EXCEPT ![v] = next] /\ at' = [at EXCEPT ![v] = t]
            /\ got' = [got EXCEPT ![v] = d] /\ joined' = [joined EXCEPT ![v] = j]
      <3>1. entry[gen].doc \in 0..published
        BY <2>1 DEF Entries
      <3> QED  BY <1>0, <1>1, <3>1 DEF Begin
    <2>4. /\ mine' = [mine EXCEPT ![v] = gen]
          /\ UNCHANGED <<now, published, cached, gen, reply, kid, cleared>>
      BY <1>1 DEF Begin
    <2> QED  BY <2>1, <2>2, <2>3, <2>4 DEF JwksFields, Entries, Steps
  <1>2. ASSUME NEW v \in Verifies, UseKv(v) PROVE JwksFields'
    <2>1. PICK d \in 1..published, t \in 1..now :
            /\ entry' = [entry EXCEPT ![mine[v]] = LoadedFromKv(entry[mine[v]], d, t)]
            /\ got' = [got EXCEPT ![v] = d]
      BY <1>2 DEF UseKv
    <2>2. mine[v] \in Gens /\ d \in 0..published /\ t \in 0..now
      BY <1>m DEF JwksFields
    <2>3. LoadedFromKv(entry[mine[v]], d, t) \in Entries
      <3>1. entry[mine[v]] \in Entries
        BY <2>2 DEF JwksFields
      <3> QED  BY <2>2, <3>1 DEF Entries, LoadedFromKv, Loaded
    <2>4. entry' \in [Gens -> Entries] /\ got' \in [Verifies -> 0..published]
      BY <2>1, <2>2, <2>3 DEF JwksFields
    <2> QED  BY <1>2, <2>4 DEF UseKv, JwksFields, Entries, Steps
  <1>3. ASSUME NEW v \in Verifies, FetchPastKv(v) \/ Refetch(v) PROVE JwksFields'
    <2>1. mine[v] \in Gens /\ Fetch(v, mine[v])
      BY <1>3, <1>m DEF FetchPastKv, Refetch
    <2>2. PICK to \in {"wait", "wait again"} : GoOn(v, to)
      BY <1>3 DEF FetchPastKv, Refetch
    <2>3. step' \in [Verifies -> Steps] /\ got' \in [Verifies -> 0..published]
      BY <1>0, <2>2 DEF JwksFields, GoOn, Steps
    <2>4. UNCHANGED <<now, published, cached, gen, reply, at, kid, mine, joined, cleared>>
      BY <1>3 DEF FetchPastKv, Refetch
    <2> QED  BY <2>1, <2>3, <2>4, FetchDoes DEF JwksFields, Entries
  <1>4. ASSUME NEW v \in Verifies, Find(v) PROVE JwksFields'
    BY <1>0, <1>4 DEF Find, GoOn, JwksFields, Entries, Steps
  <1>5. ASSUME NEW v \in Verifies, ThrowKv(v) \/ GiveUp(v) PROVE JwksFields'
    <2>1. PICK to \in {"threw", "null"} : Answer(v, to)
      BY <1>5 DEF ThrowKv, GiveUp
    <2>2. /\ step' \in [Verifies -> Steps] /\ got' \in [Verifies -> 0..published]
          /\ at' \in [Verifies -> 0..now] /\ joined' \in [Verifies -> BOOLEAN]
      BY <1>0, <2>1 DEF JwksFields, Answer, GoOn, Steps
    <2>3. UNCHANGED <<now, published, cached, gen, entry, fetches, kid, mine, sentAt, cleared>>
      BY <1>5 DEF ThrowKv, GiveUp
    <2> QED  BY <2>2, <2>3 DEF JwksFields, Entries
  <1>6. ASSUME NEW v \in Verifies, Import(v) PROVE JwksFields'
    <2>1. /\ step' \in [Verifies -> Steps] /\ got' \in [Verifies -> 0..published]
          /\ at' \in [Verifies -> 0..now] /\ joined' \in [Verifies -> BOOLEAN]
      BY <1>0, <1>6 DEF JwksFields, Import, Answer, GoOn, Steps
    <2>2. [entry[mine[v]] EXCEPT !.imported = entry[mine[v]].imported \cup {kid[v]}] \in Entries
      BY <1>m DEF JwksFields, Entries
    <2>3. entry' \in [Gens -> Entries]
      BY <1>6, <2>2 DEF JwksFields, Import
    <2> QED  BY <1>6, <2>1, <2>3 DEF JwksFields, Import, Entries
  <1>7. ASSUME NEW g \in Gens, Reply(g) PROVE JwksFields'
    <2>1. PICK d \in sent[g]..published :
            /\ entry' = [entry EXCEPT ![g] = Loaded(entry[g], d, now)]
            /\ IF cached
                 THEN /\ wire' = [wire EXCEPT ![g] = "storing"]
                      /\ reply' = [reply EXCEPT ![g] = d]
                      /\ UNCHANGED <<sent, got, step>>
                 ELSE Resume(g, d)
      BY <1>7 DEF Reply
    <2>2. d \in 0..published
      BY Ranges
    <2>3. entry' \in [Gens -> Entries]
      <3>1. entry[g] \in Entries
        BY DEF JwksFields
      <3>2. Loaded(entry[g], d, now) \in Entries
        BY <1>0, <2>2, <3>1 DEF Entries, Loaded
      <3> QED  BY <2>1, <3>2 DEF JwksFields
    <2>4. /\ wire' \in [Gens -> {"none", "out", "storing"}]
          /\ sent' \in [Gens -> 0..published] /\ reply' \in [Gens -> 0..published]
          /\ got' \in [Verifies -> 0..published] /\ step' \in [Verifies -> Steps]
      <3>1. CASE cached
        BY <2>1, <2>2, <3>1 DEF JwksFields
      <3>2. CASE ~cached
        BY <2>1, <2>2, <3>2, ResumeDoes
      <3> QED  BY <3>1, <3>2
    <2> QED  BY <1>7, <2>3, <2>4 DEF Reply, JwksFields, Entries
  <1>8. ASSUME NEW g \in Gens, Store(g) \/ FailFetch(g) PROVE JwksFields'
    <2>1. PICK d \in 0..published : Resume(g, d)
      BY <1>0, <1>8 DEF Store, FailFetch, JwksFields
    <2>2. UNCHANGED <<now, published, cached, gen, entry, asked, jwksHistory>>
      BY <1>8 DEF Store, FailFetch
    <2> QED  BY <2>1, <2>2, ResumeDoes DEF JwksFields, Entries
  <1>9. CASE ClearJwksCache
    <2>1. gen + 1 \in Gens /\ gen \in 0..gen + 1
      <3>1. gen < MaxClears /\ gen \in Gens
        BY <1>9 DEF ClearJwksCache, JwksFields
      <3> QED  BY <3>1, Documents
    <2>2. NewEntry(entry[gen]) \in Entries
      <3>1. Never \in Never..now
        BY Documents DEF JwksFields
      <3> QED  BY <1>0, <3>1 DEF NewEntry, Empty, Entries
    <2>3. entry' \in [Gens -> Entries]
      BY <1>9, <2>1, <2>2 DEF ClearJwksCache, JwksFields
    <2>4. mine \in [Verifies -> 0..gen + 1]
      <3>1. 0..gen \subseteq 0..gen + 1
        BY Ranges, Documents
      <3> QED  BY <3>1 DEF JwksFields
    <2>5. published \in 1..published
      BY Documents DEF JwksFields
    <2> QED  BY <1>9, <2>1, <2>3, <2>4, <2>5 DEF ClearJwksCache, JwksFields, Entries
  <1>10. CASE RotateKeys
    <2>1. published' \in DOMAIN Docs /\ published' = published + 1
      <3>1. published < Len(Docs) /\ published' = published + 1
        BY <1>10 DEF RotateKeys
      <3> QED  BY <1>0, <3>1, Documents
    <2>2. entry' \in [Gens -> Entries']
      <3>1. entry' = entry /\ now' = now /\ 0..published \subseteq 0..published'
        BY <1>0, <1>10, <2>1 DEF RotateKeys
      <3>2. Entries \subseteq Entries'
        BY <3>1 DEF Entries
      <3> QED  BY <3>1, <3>2 DEF JwksFields
    <2>3. /\ sent' \in [Gens -> 0..published'] /\ reply' \in [Gens -> 0..published']
          /\ got' \in [Verifies -> 0..published'] /\ cleared' \in 1..published'
      BY <1>0, <1>10, <2>1 DEF RotateKeys, JwksFields
    <2> QED  BY <1>10, <2>1, <2>2, <2>3 DEF RotateKeys, JwksFields
  <1>11. CASE Tick
    <2>1. now' \in Nat /\ now' = now + 1 /\ Never \in Int
      BY <1>11, Documents DEF Tick, JwksFields
    <2>2. entry' \in [Gens -> Entries']
      BY <1>11, <2>1 DEF Tick, JwksFields, Entries
    <2>3. at' \in [Verifies -> 0..now'] /\ sentAt' \in [Gens -> Never..now']
      BY <1>11, <2>1 DEF Tick, JwksFields
    <2> QED  BY <1>11, <2>1, <2>2, <2>3 DEF Tick, JwksFields
  <1>12. CASE UNCHANGED jwksVars
    BY <1>12 DEF jwksVars, JwksFields, Entries
  <1> QED
    BY <1>1, <1>2, <1>3, <1>4, <1>5, <1>6, <1>7, <1>8, <1>9, <1>10, <1>11, <1>12, TimeOutFails
       DEF JwksNext, Resolve

-----------------------------------------------------------------------------
(* What has been imported has been published.                               *)

LEMMA VouchedFrame ==
    ASSUME JwksFields, Vouched, kid' = kid, published' \in {published, published + 1},
           \A g \in Gens : \A k \in entry'[g].imported :
               k \in entry[g].imported \/ Published(1, k),
           \A v \in Verifies : step'[v] \in {"import", "accepted"} =>
               step[v] \in {"import", "accepted"} \/ Published(1, kid[v])
    PROVE  Vouched'
  <1>1. published \in Nat /\ published <= published'
    BY Documents DEF JwksFields
  <1>2. \A k : Published(1, k) => Published(1, k)'
    BY <1>1 DEF Published
  <1>3. \A g \in Gens : \A k \in entry'[g].imported : Published(1, k)'
    BY <1>2 DEF Vouched
  <1>4. \A v \in Verifies : step'[v] \in {"import", "accepted"} => Published(1, kid[v])'
    BY <1>2 DEF Vouched
  <1> QED  BY <1>3, <1>4 DEF Vouched

LEMMA VouchedStep ==
    ASSUME JwksFields, Vouched, [JwksNext]_jwksVars
    PROVE  Vouched'
  <1> USE DEF fetches, asked, jwksHistory
  <1>0. published \in Nat /\ 0 \in 0..published
    BY Documents DEF JwksFields
  <1>m. /\ \A v \in Verifies : mine[v] \in Gens
        /\ entry \in [Gens -> Entries] /\ step \in [Verifies -> Steps] /\ gen \in Gens
    BY Documents DEF JwksFields
  <1>1. ASSUME NEW v \in Verifies, Begin(v) PROVE Vouched'
    <2>1. \A g \in Gens : entry'[g].imported = entry[g].imported
      <3>1. Fetch(v, gen) \/ UNCHANGED entry
        BY <1>1 DEF Begin
      <3> QED  BY <1>m, <3>1, FetchDoes
    <2>2. PICK next \in {"accepted", "look", "kv", "wait"} :
              /\ step' = [step EXCEPT ![v] = next]
              /\ next = "accepted" => kid[v] \in entry[gen].imported
      BY <1>1, BeginGoes
    <2>3. next = "accepted" => Published(1, kid[v])
      BY <1>m, <2>2 DEF Vouched
    <2>4. kid' = kid /\ published' = published
      BY <1>1 DEF Begin
    <2> QED  BY <1>m, <2>1, <2>2, <2>3, <2>4, VouchedFrame
  <1>2. ASSUME NEW v \in Verifies, UseKv(v) PROVE Vouched'
    <2>1. PICK d, t : entry' = [entry EXCEPT ![mine[v]] = LoadedFromKv(entry[mine[v]], d, t)]
      BY <1>2 DEF UseKv
    <2>2. LoadedFromKv(entry[mine[v]], d, t).imported = {}
      BY <1>m DEF Entries, LoadedFromKv, Loaded
    <2>3. \A g \in Gens : entry'[g].imported \subseteq entry[g].imported
      BY <1>m, <2>1, <2>2
    <2>4. step' = [step EXCEPT ![v] = "look"] /\ kid' = kid /\ published' = published
      BY <1>2 DEF UseKv
    <2> QED  BY <1>m, <2>3, <2>4, VouchedFrame
  <1>3. ASSUME NEW v \in Verifies, FetchPastKv(v) \/ Refetch(v) PROVE Vouched'
    <2>1. Fetch(v, mine[v]) /\ kid' = kid /\ published' = published
      BY <1>3 DEF FetchPastKv, Refetch
    <2>2. PICK to \in {"wait", "wait again"} : step' = [step EXCEPT ![v] = to]
      BY <1>3 DEF FetchPastKv, Refetch, GoOn
    <2>3. \A g \in Gens : entry'[g].imported = entry[g].imported
      BY <1>m, <2>1, FetchDoes
    <2> QED  BY <1>m, <2>1, <2>2, <2>3, VouchedFrame
  <1>4. ASSUME NEW v \in Verifies, Find(v) PROVE Vouched'
    <2>1. got[v] \in 1..published /\ kid[v] \in Docs[got[v]]
      <3>1. got[v] # 0 /\ kid[v] \in Docs[got[v]]
        BY <1>4 DEF Find, Has
      <3> QED  BY <1>0, <3>1 DEF JwksFields
    <2>2. Published(1, kid[v])
      BY <2>1 DEF Published
    <2>3. step' = [step EXCEPT ![v] = "import"] /\ UNCHANGED <<entry, kid, published>>
      BY <1>4 DEF Find, GoOn
    <2> QED  BY <1>m, <2>2, <2>3, VouchedFrame
  <1>5. ASSUME NEW v \in Verifies, ThrowKv(v) \/ GiveUp(v) PROVE Vouched'
    <2>1. UNCHANGED <<entry, kid, published>>
      BY <1>5 DEF ThrowKv, GiveUp
    <2>2. PICK to \in {"threw", "null"} : step' = [step EXCEPT ![v] = to]
      BY <1>5 DEF ThrowKv, GiveUp, Answer, GoOn
    <2> QED  BY <1>m, <2>1, <2>2, VouchedFrame
  <1>6. ASSUME NEW v \in Verifies, Import(v) PROVE Vouched'
    <2>1. Published(1, kid[v])
      BY <1>6 DEF Import, Vouched
    <2>2. step' = [step EXCEPT ![v] = "accepted"] /\ kid' = kid /\ published' = published
      BY <1>6 DEF Import, Answer, GoOn
    <2>3. entry' = [entry EXCEPT ![mine[v]] =
              [entry[mine[v]] EXCEPT !.imported = entry[mine[v]].imported \cup {kid[v]}]]
      BY <1>6, <1>m DEF Import
    <2>4. \A g \in Gens : entry'[g].imported \subseteq entry[g].imported \cup {kid[v]}
      BY <1>m, <2>3 DEF Entries
    <2> QED  BY <1>m, <2>1, <2>2, <2>4, VouchedFrame
  <1>7. ASSUME NEW g \in Gens, Reply(g) PROVE Vouched'
    <2>0. sent[g] \in 0..published
      BY DEF JwksFields
    <2>1. PICK d \in sent[g]..published :
              /\ entry' = [entry EXCEPT ![g] = Loaded(entry[g], d, now)]
              /\ UNCHANGED step \/ Resume(g, d)
      BY <1>7 DEF Reply
    <2>d. d \in 0..published
      BY <1>0, <2>0
    <2>2. Loaded(entry[g], d, now).imported = {}
      BY <1>m DEF Entries, Loaded
    <2>3. \A h \in Gens : entry'[h].imported \subseteq entry[h].imported
      BY <1>m, <2>1, <2>2
    <2>4. \A v \in Verifies : step'[v] \in {"import", "accepted"} => step'[v] = step[v]
      BY <2>1, <2>d, ResumeDoes
    <2>5. kid' = kid /\ published' = published
      BY <1>7 DEF Reply
    <2> QED  BY <2>3, <2>4, <2>5, VouchedFrame
  <1>8. ASSUME NEW g \in Gens, Store(g) \/ FailFetch(g) PROVE Vouched'
    <2>0. reply[g] \in 0..published
      BY DEF JwksFields
    <2>1. PICK d \in 0..published : Resume(g, d)
      BY <1>0, <1>8, <2>0 DEF Store, FailFetch
    <2>2. UNCHANGED <<entry, kid, published>>
      BY <1>8 DEF Store, FailFetch
    <2>3. \A v \in Verifies : step'[v] \in {"import", "accepted"} => step'[v] = step[v]
      BY <2>1, ResumeDoes
    <2> QED  BY <2>2, <2>3, VouchedFrame
  <1>9. CASE ClearJwksCache
    <2>1. UNCHANGED <<step, kid, published>>
      BY <1>9 DEF ClearJwksCache
    <2>2. entry' = [entry EXCEPT ![gen + 1] = NewEntry(entry[gen])] /\ NewEntry(entry[gen]).imported = {}
      BY <1>9 DEF ClearJwksCache, NewEntry, Empty
    <2>3. \A g \in Gens : entry'[g].imported \subseteq entry[g].imported
      BY <1>m, <2>2
    <2> QED  BY <2>1, <2>3, VouchedFrame
  <1>10. CASE RotateKeys \/ Tick \/ UNCHANGED jwksVars
    <2>1. UNCHANGED <<entry, step, kid>> /\ published' \in {published, published + 1}
      BY <1>10 DEF RotateKeys, Tick, jwksVars
    <2> QED  BY <2>1, VouchedFrame
  <1> QED
    BY <1>1, <1>2, <1>3, <1>4, <1>5, <1>6, <1>7, <1>8, <1>9, <1>10, TimeOutFails
       DEF JwksNext, Resolve

-----------------------------------------------------------------------------
(* Who waits for which fetch, and when it was sent.                         *)

\* Entries and fetches change in one of three ways.
Fetches == gen' = gen /\ \E v \in Verifies : \E g \in 0..gen : Fetch(v, g)

Rests ==
    /\ gen' = gen /\ sentAt' = sentAt
    /\ \A g \in Gens : /\ entry'[g].attempt = entry[g].attempt
                       /\ wire[g] = "none" => wire'[g] = "none"

LEMMA FetchKinds ==
    ASSUME JwksFields, [JwksNext]_jwksVars
    PROVE  Fetches \/ Rests \/ ClearJwksCache
  <1> USE DEF fetches, asked, jwksHistory
  <1>m. /\ \A v \in Verifies : mine[v] \in Gens /\ mine[v] \in 0..gen
        /\ entry \in [Gens -> Entries] /\ wire \in [Gens -> {"none", "out", "storing"}]
        /\ gen \in Gens /\ gen \in 0..gen /\ 0 \in 0..published /\ published \in Nat
        /\ \A g \in Gens : sent[g] \in 0..published /\ reply[g] \in 0..published
    BY Documents DEF JwksFields
  <1>1. ASSUME NEW v \in Verifies, Begin(v) PROVE Fetches \/ Rests
    <2>1. gen' = gen /\ (Fetch(v, gen) \/ UNCHANGED <<entry, wire, sentAt>>)
      BY <1>1 DEF Begin
    <2> QED  BY <1>m, <2>1 DEF Fetches, Rests
  <1>2. ASSUME NEW v \in Verifies, UseKv(v) PROVE Rests
    <2>1. PICK d, t : entry' = [entry EXCEPT ![mine[v]] = LoadedFromKv(entry[mine[v]], d, t)]
      BY <1>2 DEF UseKv
    <2>2. LoadedFromKv(entry[mine[v]], d, t).attempt = entry[mine[v]].attempt
      BY <1>m DEF Entries, LoadedFromKv, Loaded
    <2>3. \A g \in Gens : entry'[g].attempt = entry[g].attempt
      BY <1>m, <2>1, <2>2
    <2> QED  BY <1>2, <2>3 DEF UseKv, Rests
  <1>3. ASSUME NEW v \in Verifies, FetchPastKv(v) \/ Refetch(v) PROVE Fetches
    BY <1>3, <1>m DEF FetchPastKv, Refetch, Fetches
  <1>4. ASSUME NEW v \in Verifies, Find(v) \/ ThrowKv(v) \/ GiveUp(v) PROVE Rests
    BY <1>4 DEF Find, ThrowKv, GiveUp, Rests
  <1>5. ASSUME NEW v \in Verifies, Import(v) PROVE Rests
    <2>1. entry' = [entry EXCEPT ![mine[v]] =
              [entry[mine[v]] EXCEPT !.imported = entry[mine[v]].imported \cup {kid[v]}]]
      BY <1>5, <1>m DEF Import
    <2>2. \A g \in Gens : entry'[g].attempt = entry[g].attempt
      BY <1>m, <2>1 DEF Entries
    <2> QED  BY <1>5, <2>2 DEF Import, Rests
  <1>6. ASSUME NEW g \in Gens, Reply(g) PROVE Rests
    <2>1. PICK d \in sent[g]..published :
              /\ entry' = [entry EXCEPT ![g] = Loaded(entry[g], d, now)]
              /\ wire' = [wire EXCEPT ![g] = "storing"] \/ Resume(g, d)
      BY <1>6 DEF Reply
    <2>2. d \in 0..published
      BY <1>m
    <2>3. Loaded(entry[g], d, now).attempt = entry[g].attempt
      BY <1>m DEF Entries, Loaded
    <2>4. \A h \in Gens : entry'[h].attempt = entry[h].attempt
      BY <1>m, <2>1, <2>3
    <2>5. \A h \in Gens : wire[h] = "none" => wire'[h] = "none"
      <3>1. wire[g] = "out"
        BY <1>6 DEF Reply
      <3>2. CASE wire' = [wire EXCEPT ![g] = "storing"]
        BY <1>m, <3>1, <3>2
      <3>3. CASE Resume(g, d)
        BY <2>2, <3>1, <3>3, ResumeDoes
      <3> QED  BY <2>1, <3>2, <3>3
    <2> QED  BY <1>6, <2>4, <2>5 DEF Reply, Rests
  <1>7. ASSUME NEW g \in Gens, Store(g) \/ FailFetch(g) PROVE Rests
    <2>1. PICK d \in 0..published : Resume(g, d)
      BY <1>7, <1>m DEF Store, FailFetch
    <2>2. UNCHANGED <<gen, entry, sentAt>>
      BY <1>7 DEF Store, FailFetch
    <2>3. \A h \in Gens : wire[h] = "none" => wire'[h] = "none"
      BY <2>1, ResumeDoes
    <2> QED  BY <2>2, <2>3 DEF Rests
  <1>8. CASE RotateKeys \/ Tick \/ UNCHANGED jwksVars
    BY <1>8 DEF RotateKeys, Tick, jwksVars, Rests
  <1> QED
    BY <1>1, <1>2, <1>3, <1>4, <1>5, <1>6, <1>7, <1>8, TimeOutFails DEF JwksNext, Resolve

LEMMA StampsStep ==
    ASSUME JwksFields, Stamps, [JwksNext]_jwksVars
    PROVE  Stamps'
  <1>0. gen \in Nat /\ Gens \subseteq Nat /\ \A g \in 0..gen : g \in Gens
    BY Documents DEF JwksFields
  <1>1. CASE Fetches
    <2>1. PICK v \in Verifies, g \in 0..gen : Fetch(v, g)
      BY <1>1 DEF Fetches
    <2>2. g \in Gens /\ g <= gen /\ gen' = gen
      BY <1>0, <1>1 DEF Fetches
    <2>3. \A h \in Gens : entry'[h].attempt = sentAt'[h]
      BY <2>1, <2>2, FetchDoes DEF Stamps
    <2>a. \A h \in Gens : h > gen => h # g
      BY <1>0
    <2>4. \A h \in Gens : h > gen => sentAt'[h] = sentAt[h] /\ wire'[h] = wire[h]
      BY <2>1, <2>2, <2>a, FetchDoes
    <2> QED  BY <2>2, <2>3, <2>4 DEF Stamps
  <1>2. CASE Rests
    BY <1>2 DEF Rests, Stamps
  <1>3. CASE ClearJwksCache
    <2>1. /\ entry' = [entry EXCEPT ![gen + 1] = NewEntry(entry[gen])] /\ gen' = gen + 1
          /\ UNCHANGED <<wire, sentAt>>
      BY <1>3 DEF ClearJwksCache, fetches
    <2>2. NewEntry(entry[gen]).attempt = Never
      BY DEF NewEntry, Empty
    <2>3. entry \in [Gens -> Entries]
      BY DEF JwksFields
    <2>4. \A g \in Gens : entry'[g].attempt = IF g = gen + 1 THEN Never ELSE entry[g].attempt
      BY <2>1, <2>2, <2>3
    <2>5. \A g \in Gens : g > gen + 1 => g > gen
      BY <1>0
    <2>6. gen + 1 > gen
      BY <1>0
    <2> QED  BY <2>1, <2>4, <2>5, <2>6 DEF Stamps
  <1> QED  BY <1>1, <1>2, <1>3, FetchKinds

\* What a step does to a verification that does not move.
LEMMA StallsFrame ==
    ASSUME WaitersFetch, Answered, NEW v \in Verifies,
           at'[v] = at[v], mine'[v] = mine[v], joined'[v] = joined[v], step'[v] = step[v],
           sentAt'[mine[v]] = sentAt[mine[v]] \/ at[v] <= sentAt'[mine[v]],
           wire[mine[v]] = "none" => wire'[mine[v]] = "none" \/ at[v] <= sentAt'[mine[v]],
           step[v] \in {"wait", "wait again"} => wire'[mine[v]] # "none"
    PROVE  /\ step'[v] \in {"wait", "wait again"} => wire'[mine'[v]] # "none"
           /\ AnsweredTo(v)'
  <1>1. Asked(v) => Asked(v)'
    BY DEF Asked
  <1>2. AnsweredTo(v)
    BY DEF Answered
  <1>3. wire[mine[v]] = "none" /\ wire'[mine[v]] # "none" => Asked(v)'
    BY DEF Asked
  <1> QED  BY <1>1, <1>2, <1>3 DEF AnsweredTo, Underway

LEMMA StallsStep ==
    ASSUME JwksFields, WaitersFetch, Answered, [JwksNext]_jwksVars
    PROVE  WaitersFetch' /\ Answered'
  <1> USE DEF fetches, asked, jwksHistory
  <1> DEFINE Fine(v) == /\ step[v] \in {"wait", "wait again"} => wire[mine[v]] # "none"
                        /\ AnsweredTo(v)
  <1> SUFFICES \A v \in Verifies : Fine(v)'
    BY DEF WaitersFetch, Answered
  <1> HIDE DEF Fine
  <1>m. /\ \A v \in Verifies : mine[v] \in Gens /\ at[v] \in 0..now /\ at[v] <= now
        /\ step \in [Verifies -> Steps] /\ at \in [Verifies -> 0..now]
        /\ mine \in [Verifies -> 0..gen] /\ joined \in [Verifies -> BOOLEAN]
        /\ wire \in [Gens -> {"none", "out", "storing"}]
        /\ gen \in Gens /\ 0 \in 0..published /\ published \in Nat /\ now \in Nat
        /\ \A g \in Gens : sent[g] \in 0..published /\ reply[g] \in 0..published
    BY Documents DEF JwksFields
  <1>s. ASSUME NEW v \in Verifies,
               at'[v] = at[v], mine'[v] = mine[v], joined'[v] = joined[v], step'[v] = step[v],
               UNCHANGED <<wire, sentAt>>
        PROVE  Fine(v)'
    BY <1>s, StallsFrame DEF Fine, WaitersFetch
  <1>f. ASSUME NEW v \in Verifies, NEW u, NEW g \in Gens, Fetch(u, g),
               at'[v] = at[v], mine'[v] = mine[v], joined'[v] = joined[v], step'[v] = step[v]
        PROVE  Fine(v)'
    <2>1. mine[v] = g /\ wire[g] = "none" => sentAt'[g] = now /\ wire'[g] = "out"
      BY <1>f, FetchDoes
    <2>2. mine[v] # g \/ wire[g] # "none" =>
              sentAt'[mine[v]] = sentAt[mine[v]] /\ wire'[mine[v]] = wire[mine[v]]
      BY <1>m, <1>f, FetchDoes
    <2> QED  BY <1>m, <1>f, <2>1, <2>2, StallsFrame DEF Fine, WaitersFetch
  <1>1. ASSUME NEW v \in Verifies, Begin(v) PROVE \A w \in Verifies : Fine(w)'
    <2>1. PICK next \in {"accepted", "look", "kv", "wait"} :
            /\ step' = [step EXCEPT ![v] = next]
            /\ at' = [at EXCEPT ![v] = IF next = "accepted" THEN 0 ELSE now]
            /\ joined' = [joined EXCEPT ![v] = next # "accepted" /\ wire[gen] # "none"]
            /\ IF next = "wait" THEN Fetch(v, gen) ELSE UNCHANGED <<entry, wire, sent, sentAt>>
      BY <1>1, BeginGoes
    <2>2. mine' = [mine EXCEPT ![v] = gen]
      BY <1>1 DEF Begin
    <2>3. \A w \in Verifies : w # v => Fine(w)'
      BY <1>m, <1>s, <1>f, <2>1, <2>2
    <2>4. step'[v] = next /\ mine'[v] = gen
      BY <1>m, <2>1, <2>2
    <2>5. ASSUME next = "accepted" PROVE Fine(v)'
      BY <2>4, <2>5 DEF Fine, AnsweredTo, Underway
    <2>6. ASSUME next # "accepted" PROVE Fine(v)'
      <3>1. at'[v] = now /\ (wire[gen] # "none" => joined'[v])
        BY <1>m, <2>1, <2>6
      <3>2. wire[gen] = "none" /\ next = "wait" => sentAt'[gen] = now
        BY <1>m, <2>1, FetchDoes
      <3>3. next = "wait" => wire'[gen] # "none"
        BY <1>m, <2>1, FetchDoes
      <3>4. wire'[gen] # "none" => Asked(v)'
        BY <1>m, <2>1, <2>4, <3>1, <3>2 DEF Asked
      <3> QED  BY <2>4, <3>3, <3>4 DEF Fine, AnsweredTo
    <2> QED  BY <2>3, <2>5, <2>6
  <1>2. ASSUME NEW v \in Verifies, UseKv(v) PROVE \A w \in Verifies : Fine(w)'
    <2>1. step' = [step EXCEPT ![v] = "look"] /\ step[v] = "kv"
          /\ UNCHANGED <<wire, sentAt, at, mine, joined>>
      BY <1>2 DEF UseKv
    <2>2. \A w \in Verifies : w # v => Fine(w)'
      BY <1>m, <1>s, <2>1
    <2>3. step'[v] = "look" /\ AnsweredTo(v)
      BY <1>m, <2>1 DEF Answered
    <2>4. Fine(v)'
      BY <2>1, <2>3 DEF Fine, AnsweredTo, Asked, Underway
    <2> QED  BY <2>2, <2>4
  <1>3. ASSUME NEW v \in Verifies, FetchPastKv(v) \/ Refetch(v)
        PROVE  \A w \in Verifies : Fine(w)'
    <2>1. Fetch(v, mine[v]) /\ UNCHANGED <<at, mine, joined>> /\ step[v] \in {"kv", "look"}
      BY <1>3 DEF FetchPastKv, Refetch
    <2>2. PICK to \in {"wait", "wait again"} : step' = [step EXCEPT ![v] = to]
      BY <1>3 DEF FetchPastKv, Refetch, GoOn
    <2>3. \A w \in Verifies : w # v => Fine(w)'
      BY <1>m, <1>f, <2>1, <2>2
    <2>4. step'[v] = to /\ AnsweredTo(v)
      BY <1>m, <2>2 DEF Answered
    <2>5. wire'[mine[v]] # "none"
      BY <1>m, <2>1, FetchDoes
    <2>6. CASE wire[mine[v]] = "none"
      <3>1. sentAt'[mine[v]] = now
        BY <1>m, <2>1, <2>6, FetchDoes
      <3>2. Asked(v)'
        BY <1>m, <2>1, <3>1 DEF Asked
      <3> QED  BY <2>1, <2>3, <2>4, <2>5, <3>2 DEF Fine, AnsweredTo
    <2>7. CASE wire[mine[v]] # "none"
      <3>1. sentAt'[mine[v]] = sentAt[mine[v]]
        BY <1>m, <2>1, <2>7, FetchDoes
      <3>2. Asked(v)'
        BY <2>1, <2>4, <2>7, <3>1 DEF AnsweredTo, Asked, Underway
      <3> QED  BY <2>1, <2>3, <2>4, <2>5, <3>2 DEF Fine, AnsweredTo
    <2> QED  BY <2>6, <2>7
  <1>4. ASSUME NEW v \in Verifies, Find(v) \/ ThrowKv(v) \/ GiveUp(v) \/ Import(v)
        PROVE  \A w \in Verifies : Fine(w)'
    <2>1. PICK to \in {"import", "threw", "null", "accepted"} : step' = [step EXCEPT ![v] = to]
      BY <1>4 DEF Find, ThrowKv, GiveUp, Import, Answer, GoOn
    <2>2. mine' = mine /\ UNCHANGED <<wire, sentAt>>
      BY <1>4 DEF Find, ThrowKv, GiveUp, Import
    <2>3. \A w \in Verifies : w # v => at'[w] = at[w] /\ joined'[w] = joined[w]
      BY <1>m, <1>4 DEF Find, ThrowKv, GiveUp, Import, Answer
    <2>4. \A w \in Verifies : w # v => Fine(w)'
      BY <1>m, <1>s, <2>1, <2>2, <2>3
    <2>5. step'[v] = to
      BY <1>m, <2>1
    <2> QED  BY <2>4, <2>5 DEF Fine, AnsweredTo, Underway
  <1>5. ASSUME NEW g \in Gens, NEW d \in 0..published, Resume(g, d), wire[g] # "none",
               UNCHANGED <<at, mine, joined, sentAt>>
        PROVE  \A w \in Verifies : Fine(w)'
    <2>1. ASSUME NEW w \in Waiting(g) PROVE Fine(w)'
      <3>1. /\ mine[w] = g /\ w \in Verifies /\ wire'[g] = "none"
            /\ step'[w] \in {"threw", "look", "look again"}
            /\ step'[w] = "look again" => step[w] = "wait again"
        BY <1>5, ResumeDoes DEF Waiting
      <3>2. step'[w] = "look again" => Asked(w)
        BY <1>5, <3>1 DEF Answered, AnsweredTo, Underway
      <3>3. Asked(w)' = Asked(w)
        BY <1>5 DEF Asked
      <3> QED  BY <1>5, <3>1, <3>2, <3>3 DEF Fine, AnsweredTo, Underway
    <2>r. /\ \A w \in Verifies \ Waiting(g) : step'[w] = step[w]
          /\ \A h \in Gens \ {g} : wire'[h] = wire[h]
      BY <1>5, ResumeDoes
    <2>2. ASSUME NEW w \in Verifies \ Waiting(g) PROVE Fine(w)'
      <3>1. step'[w] = step[w]
        BY <2>r
      <3>2. step[w] \in {"wait", "wait again"} => mine[w] # g
        BY <2>2 DEF Waiting
      <3>3. mine[w] # g => wire'[mine[w]] = wire[mine[w]]
        BY <1>m, <2>r
      <3>4. wire'[g] = "none"
        BY <1>5, ResumeDoes
      <3>5. step[w] \in {"wait", "wait again"} => wire'[mine[w]] # "none"
        BY <3>2, <3>3 DEF WaitersFetch
      <3>6. wire[mine[w]] = "none" => wire'[mine[w]] = "none"
        BY <3>3, <3>4
      <3> QED  BY <1>5, <3>1, <3>5, <3>6, StallsFrame DEF Fine
    <2> QED  BY <2>1, <2>2
  <1>6. ASSUME NEW g \in Gens, Reply(g) PROVE \A w \in Verifies : Fine(w)'
    <2>1. PICK d \in sent[g]..published :
            \/ wire' = [wire EXCEPT ![g] = "storing"] /\ UNCHANGED step
            \/ Resume(g, d)
      BY <1>6 DEF Reply
    <2>2. d \in 0..published
      BY <1>m
    <2>3. wire[g] = "out" /\ UNCHANGED <<at, mine, joined, sentAt>>
      BY <1>6 DEF Reply
    <2>4. CASE wire' = [wire EXCEPT ![g] = "storing"] /\ UNCHANGED step
      <3>1. \A h \in Gens : wire'[h] = "none" <=> wire[h] = "none"
        BY <1>m, <2>3, <2>4
      <3> QED  BY <1>m, <2>3, <2>4, <3>1, StallsFrame DEF Fine, WaitersFetch
    <2> QED  BY <1>5, <2>1, <2>2, <2>3, <2>4
  <1>7. ASSUME NEW g \in Gens, Store(g) \/ FailFetch(g) PROVE \A w \in Verifies : Fine(w)'
    <2>1. PICK d \in 0..published : Resume(g, d)
      BY <1>7, <1>m DEF Store, FailFetch
    <2>2. wire[g] # "none" /\ UNCHANGED <<at, mine, joined, sentAt>>
      BY <1>7 DEF Store, FailFetch
    <2> QED  BY <1>5, <2>1, <2>2
  <1>8. CASE ClearJwksCache \/ RotateKeys \/ Tick \/ UNCHANGED jwksVars
    <2>1. UNCHANGED <<wire, sentAt, at, mine, joined, step>>
      BY <1>8 DEF ClearJwksCache, RotateKeys, Tick, jwksVars
    <2> QED  BY <1>s, <2>1
  <1> QED
    BY <1>1, <1>2, <1>3, <1>4, <1>6, <1>7, <1>8, TimeOutFails DEF JwksNext, Resolve

-----------------------------------------------------------------------------
(* Without KV, what the current entry has is no older than the last clear.  *)

LEMMA UncachedFrame ==
    ASSUME JwksFields, Uncached, ~cached, UNCHANGED <<cached, gen, cleared, kid>>,
           published' \in {published, published + 1},
           \A g \in Gens : wire'[g] # "storing",
           \A v \in Verifies : step'[v] # "kv",
           entry'[gen].doc = entry[gen].doc \/ entry'[gen].doc >= cleared,
           \A k \in entry'[gen].imported : k \in entry[gen].imported \/ Published(cleared, k),
           wire'[gen] = "out" =>
               (wire[gen] = "out" /\ sent'[gen] = sent[gen]) \/ sent'[gen] >= cleared,
           \A v \in Verifies : mine'[v] = gen =>
               /\ got'[v] = 0 \/ got'[v] >= cleared \/ (mine[v] = gen /\ got'[v] = got[v])
               /\ step'[v] \in {"import", "accepted"} =>
                      \/ mine[v] = gen /\ step[v] \in {"import", "accepted"}
                      \/ Published(cleared, kid[v])
    PROVE  Uncached'
  <1>1. published \in Nat /\ published <= published'
    BY Documents DEF JwksFields
  <1>2. \A k : Published(cleared, k) => Published(cleared, k)'
    BY <1>1 DEF Published
  <1>3. \A v \in Verifies : mine[v] = gen => Recently(v)
    BY DEF Uncached
  <1>4. \A v \in Verifies : mine'[v] = gen => Recently(v)'
    BY <1>2, <1>3 DEF Recently
  <1>5. \A k \in entry'[gen].imported : Published(cleared, k)'
    BY <1>2 DEF Uncached
  <1> QED  BY <1>4, <1>5 DEF Uncached

LEMMA UncachedStep ==
    ASSUME JwksFields, Stamps, Uncached, [JwksNext]_jwksVars
    PROVE  Uncached'
  <1> USE DEF fetches, asked, jwksHistory
  <1>c. cached' = cached
    BY DEF JwksNext, Resolve, Begin, UseKv, FetchPastKv, ThrowKv, Find, Refetch, GiveUp, Import,
           Reply, Store, TimeOut, FailFetch, ClearJwksCache, RotateKeys, Tick, jwksVars
  <1> SUFFICES ASSUME ~cached PROVE Uncached'
    BY <1>c DEF Uncached
  <1>m. /\ \A v \in Verifies : mine[v] \in Gens /\ mine[v] <= gen
        /\ entry \in [Gens -> Entries] /\ step \in [Verifies -> Steps]
        /\ got \in [Verifies -> 0..published] /\ mine \in [Verifies -> 0..gen]
        /\ wire \in [Gens -> {"none", "out", "storing"}]
        /\ gen \in Gens /\ 0 \in 0..published /\ published \in Nat
        /\ cleared \in 1..published /\ published >= cleared
        /\ \A g \in Gens : sent[g] \in 0..published
    <2>1. cleared \in 1..published /\ published >= cleared
      BY Ranges DEF JwksFields
    <2> QED  BY <2>1, Ranges DEF JwksFields
  <1>u. /\ \A g \in Gens : wire[g] # "storing"
        /\ \A v \in Verifies : step[v] # "kv"
        /\ entry[gen].doc = 0 \/ entry[gen].doc >= cleared
        /\ \A k \in entry[gen].imported : Published(cleared, k)
        /\ wire[gen] = "out" => sent[gen] >= cleared
        /\ \A v \in Verifies : mine[v] = gen => Recently(v)
    BY DEF Uncached
  <1>f. ASSUME NEW u, NEW g \in Gens, Fetch(u, g)
        PROVE  /\ \A h \in Gens : wire'[h] # "storing"
               /\ entry'[gen].doc = entry[gen].doc /\ entry'[gen].imported = entry[gen].imported
               /\ wire'[gen] = "out" =>
                      (wire[gen] = "out" /\ sent'[gen] = sent[gen]) \/ sent'[gen] >= cleared
    BY <1>m, <1>u, <1>f, FetchDoes
  <1>1. ASSUME NEW v \in Verifies, Begin(v) PROVE Uncached'
    <2>1. PICK next \in {"accepted", "look", "kv", "wait"} :
              /\ step' = [step EXCEPT ![v] = next]
              /\ got' = [got EXCEPT ![v] = IF next = "look" THEN entry[gen].doc ELSE 0]
              /\ IF next = "wait" THEN Fetch(v, gen) ELSE UNCHANGED <<entry, wire, sent, sentAt>>
              /\ next = "accepted" => kid[v] \in entry[gen].imported
              /\ next = "kv" => cached
      BY <1>1, BeginGoes
    <2>2. mine' = [mine EXCEPT ![v] = gen] /\ UNCHANGED <<published, cached, gen, cleared, kid>>
      BY <1>1 DEF Begin
    <2>3. /\ \A h \in Gens : wire'[h] # "storing"
          /\ entry'[gen].doc = entry[gen].doc /\ entry'[gen].imported = entry[gen].imported
          /\ wire'[gen] = "out" =>
                 (wire[gen] = "out" /\ sent'[gen] = sent[gen]) \/ sent'[gen] >= cleared
      BY <1>m, <1>u, <1>f, <2>1
    <2>4. \A w \in Verifies : step'[w] # "kv"
      BY <1>m, <1>u, <2>1
    <2>5. got'[v] = 0 \/ got'[v] >= cleared
      BY <1>m, <1>u, <2>1
    <2>6. step'[v] \in {"import", "accepted"} => Published(cleared, kid[v])
      BY <1>m, <1>u, <2>1
    <2>7. \A w \in Verifies : w # v => mine'[w] = mine[w] /\ got'[w] = got[w] /\ step'[w] = step[w]
      BY <1>m, <2>1, <2>2
    <2> QED  BY <2>2, <2>3, <2>4, <2>5, <2>6, <2>7, UncachedFrame
  <1>2. ASSUME NEW v \in Verifies, UseKv(v) \/ FetchPastKv(v) \/ ThrowKv(v) PROVE FALSE
    BY <1>2, <1>u DEF UseKv, FetchPastKv, ThrowKv
  <1>3. ASSUME NEW v \in Verifies, Refetch(v) PROVE Uncached'
    <2>1. Fetch(v, mine[v]) /\ UNCHANGED <<published, cached, gen, cleared, kid, mine>>
      BY <1>3 DEF Refetch
    <2>2. step' = [step EXCEPT ![v] = "wait again"] /\ got' = [got EXCEPT ![v] = 0]
      BY <1>3 DEF Refetch, GoOn
    <2>3. \A w \in Verifies : step'[w] # "kv"
      BY <1>m, <1>u, <2>2
    <2>4. \A w \in Verifies : /\ got'[w] = 0 \/ got'[w] = got[w]
                              /\ step'[w] \in {"import", "accepted"} => step'[w] = step[w]
      BY <1>m, <2>2
    <2>5. /\ \A h \in Gens : wire'[h] # "storing"
          /\ entry'[gen].doc = entry[gen].doc /\ entry'[gen].imported = entry[gen].imported
          /\ wire'[gen] = "out" =>
                 (wire[gen] = "out" /\ sent'[gen] = sent[gen]) \/ sent'[gen] >= cleared
      BY <1>m, <1>f, <2>1
    <2> QED  BY <2>1, <2>3, <2>4, <2>5, UncachedFrame
  <1>4. ASSUME NEW v \in Verifies, Find(v) PROVE Uncached'
    <2>1. UNCHANGED <<published, cached, gen, entry, cleared, kid, mine, wire, sent>>
      BY <1>4 DEF Find
    <2>2. step' = [step EXCEPT ![v] = "import"] /\ got' = [got EXCEPT ![v] = 0]
      BY <1>4 DEF Find, GoOn
    <2>3. mine[v] = gen => Published(cleared, kid[v])
      <3>1. got[v] \in 0..published /\ got[v] # 0 /\ kid[v] \in Docs[got[v]]
        BY <1>4, <1>m DEF Find, Has
      <3>2. mine[v] = gen => got[v] \in cleared..published
        BY <1>m, <1>u, <3>1 DEF Recently
      <3> QED  BY <3>1, <3>2 DEF Published
    <2>4. \A w \in Verifies : /\ step'[w] # "kv" /\ (got'[w] = 0 \/ got'[w] = got[w])
                              /\ w # v => step'[w] = step[w]
      BY <1>m, <1>u, <2>2
    <2> QED  BY <1>u, <2>1, <2>3, <2>4, UncachedFrame
  <1>5. ASSUME NEW v \in Verifies, GiveUp(v) PROVE Uncached'
    <2>1. UNCHANGED <<published, cached, gen, entry, cleared, kid, mine, wire, sent>>
      BY <1>5 DEF GiveUp
    <2>2. step' = [step EXCEPT ![v] = "null"] /\ got' = [got EXCEPT ![v] = 0]
      BY <1>5 DEF GiveUp, Answer, GoOn
    <2>3. \A w \in Verifies : /\ step'[w] # "kv" /\ (got'[w] = 0 \/ got'[w] = got[w])
                              /\ step'[w] \in {"import", "accepted"} => step'[w] = step[w]
      BY <1>m, <1>u, <2>2
    <2> QED  BY <1>u, <2>1, <2>3, UncachedFrame
  <1>6. ASSUME NEW v \in Verifies, Import(v) PROVE Uncached'
    <2>1. UNCHANGED <<published, cached, gen, cleared, kid, mine, wire, sent>>
      BY <1>6 DEF Import
    <2>2. /\ step' = [step EXCEPT ![v] = "accepted"] /\ got' = [got EXCEPT ![v] = 0]
          /\ step[v] = "import"
      BY <1>6 DEF Import, Answer, GoOn
    <2>3. \A w \in Verifies :
              /\ step'[w] # "kv" /\ (got'[w] = 0 \/ got'[w] = got[w])
              /\ step'[w] \in {"import", "accepted"} => step[w] \in {"import", "accepted"}
      BY <1>m, <1>u, <2>2
    <2>4. entry' = [entry EXCEPT ![mine[v]] =
              [entry[mine[v]] EXCEPT !.imported = entry[mine[v]].imported \cup {kid[v]}]]
      BY <1>6, <1>m DEF Import
    <2>5. /\ entry'[gen].doc = entry[gen].doc
          /\ entry'[gen].imported \subseteq
                 IF mine[v] = gen THEN entry[gen].imported \cup {kid[v]} ELSE entry[gen].imported
      BY <1>m, <2>4 DEF Entries
    <2>6. mine[v] = gen => Published(cleared, kid[v])
      BY <1>u, <2>2 DEF Recently
    <2>7. \A k \in entry'[gen].imported : k \in entry[gen].imported \/ Published(cleared, k)
      BY <2>5, <2>6
    <2> QED  BY <1>u, <2>1, <2>3, <2>5, <2>7, UncachedFrame
  <1>r. ASSUME NEW g \in Gens, NEW d \in 0..published, Resume(g, d),
               g = gen => d = 0 \/ d >= cleared
        PROVE  /\ \A h \in Gens : wire'[h] # "storing"
               /\ wire'[gen] = "out" => wire[gen] = "out" /\ sent'[gen] = sent[gen]
               /\ \A w \in Verifies :
                      /\ step'[w] # "kv"
                      /\ mine[w] = gen => got'[w] = 0 \/ got'[w] >= cleared \/ got'[w] = got[w]
                      /\ step'[w] \in {"import", "accepted"} => step'[w] = step[w]
    <2>1. /\ wire'[g] = "none"
          /\ \A h \in Gens \ {g} : wire'[h] = wire[h] /\ sent'[h] = sent[h]
      BY <1>r, ResumeDoes
    <2>2. \A w \in Waiting(g) :
              mine[w] = g /\ got'[w] = d /\ step'[w] \in {"threw", "look", "look again"}
      BY <1>r DEF Resume, Waiting
    <2>3. \A w \in Verifies \ Waiting(g) : got'[w] = got[w] /\ step'[w] = step[w]
      BY <1>r, ResumeDoes
    <2>4. /\ \A h \in Gens : wire'[h] # "storing"
          /\ wire'[gen] = "out" => wire[gen] = "out" /\ sent'[gen] = sent[gen]
      BY <1>m, <1>u, <2>1
    <2>5. ASSUME NEW w \in Verifies
          PROVE  /\ step'[w] # "kv"
                 /\ mine[w] = gen => got'[w] = 0 \/ got'[w] >= cleared \/ got'[w] = got[w]
                 /\ step'[w] \in {"import", "accepted"} => step'[w] = step[w]
      BY <1>u, <1>r, <2>2, <2>3
    <2> QED  BY <2>4, <2>5
  <1>7. ASSUME NEW g \in Gens, Reply(g) PROVE Uncached'
    <2>1. PICK d \in sent[g]..published :
              entry' = [entry EXCEPT ![g] = Loaded(entry[g], d, now)] /\ Resume(g, d)
      BY <1>7 DEF Reply
    <2>2. wire[g] = "out" /\ UNCHANGED <<published, cached, gen, cleared, kid, mine>>
      BY <1>7 DEF Reply
    <2>3. d \in 0..published /\ (g = gen => d >= cleared)
      BY <1>m, <1>u, <2>2
    <2>4. Loaded(entry[g], d, now).doc = d /\ Loaded(entry[g], d, now).imported = {}
      BY <1>m DEF Entries, Loaded
    <2>5. /\ entry'[gen].doc = entry[gen].doc \/ entry'[gen].doc >= cleared
          /\ entry'[gen].imported \subseteq entry[gen].imported
      BY <1>m, <2>1, <2>3, <2>4
    <2>6. /\ \A h \in Gens : wire'[h] # "storing"
          /\ wire'[gen] = "out" => wire[gen] = "out" /\ sent'[gen] = sent[gen]
          /\ \A w \in Verifies :
                 /\ step'[w] # "kv"
                 /\ mine[w] = gen => got'[w] = 0 \/ got'[w] >= cleared \/ got'[w] = got[w]
                 /\ step'[w] \in {"import", "accepted"} => step'[w] = step[w]
      BY <1>r, <2>1, <2>3
    <2> QED  BY <2>2, <2>5, <2>6, UncachedFrame
  <1>8. ASSUME NEW g \in Gens, Store(g) PROVE FALSE
    BY <1>8, <1>u DEF Store
  <1>9. ASSUME NEW g \in Gens, FailFetch(g) PROVE Uncached'
    <2>1. Resume(g, 0) /\ UNCHANGED <<published, cached, gen, cleared, kid, mine, entry>>
      BY <1>9 DEF FailFetch
    <2>2. /\ \A h \in Gens : wire'[h] # "storing"
          /\ wire'[gen] = "out" => wire[gen] = "out" /\ sent'[gen] = sent[gen]
          /\ \A w \in Verifies :
                 /\ step'[w] # "kv"
                 /\ mine[w] = gen => got'[w] = 0 \/ got'[w] >= cleared \/ got'[w] = got[w]
                 /\ step'[w] \in {"import", "accepted"} => step'[w] = step[w]
      BY <1>m, <1>r, <2>1
    <2> QED  BY <2>1, <2>2, UncachedFrame
  <1>10. CASE ClearJwksCache
    <2>1. /\ gen < MaxClears /\ gen' = gen + 1
          /\ entry' = [entry EXCEPT ![gen + 1] = NewEntry(entry[gen])]
          /\ UNCHANGED <<published, wire, sent, kid, mine, got, step>>
      BY <1>10 DEF ClearJwksCache
    <2>2. gen + 1 \in Gens /\ gen + 1 > gen /\ \A v \in Verifies : mine[v] # gen + 1
      BY <1>m, <2>1, Documents
    <2>3. NewEntry(entry[gen]).doc = 0 /\ NewEntry(entry[gen]).imported = {}
      BY DEF NewEntry, Empty
    <2>4. entry'[gen'].doc = 0 /\ entry'[gen'].imported = {}
      BY <1>m, <2>1, <2>2, <2>3
    <2>5. wire[gen + 1] = "none"
      BY <2>2 DEF Stamps
    <2> QED  BY <1>u, <2>1, <2>2, <2>4, <2>5 DEF Uncached
  <1>11. CASE RotateKeys \/ Tick \/ UNCHANGED jwksVars
    <2>1. /\ UNCHANGED <<cached, gen, entry, wire, sent, kid, mine, got, step, cleared>>
          /\ published' \in {published, published + 1}
      BY <1>11 DEF RotateKeys, Tick, jwksVars
    <2> QED  BY <1>u, <2>1, UncachedFrame
  <1> QED
    BY <1>1, <1>2, <1>3, <1>4, <1>5, <1>6, <1>7, <1>8, <1>9, <1>10, <1>11, TimeOutFails
       DEF JwksNext, Resolve

-----------------------------------------------------------------------------
(* The theorems of Jwks.                                                    *)

LEMMA JwksInvStep ==
    ASSUME JwksInv, [JwksNext]_jwksVars
    PROVE  JwksInv'
  <1>1. JwksFields /\ Vouched /\ Stamps /\ WaitersFetch /\ Answered /\ Uncached
    BY DEF JwksInv
  <1> QED
    BY <1>1, FieldsStep, VouchedStep, StampsStep, StallsStep, UncachedStep DEF JwksInv

LEMMA JwksInvAlways == JwksSpec => []JwksInv
  <1>1. JwksInv /\ [JwksNext]_jwksVars => JwksInv'
    BY JwksInvStep
  <1> QED  BY JwksInitially, <1>1, PTL DEF JwksSpec

\* The types of the cache, and: nobody is let in by a key the issuer never
\* published, whatever fails, is late, is cleared or comes from KV.
THEOREM JwksTypes == JwksSpec => []JwksTypeOK
  <1>1. JwksInv => JwksTypeOK
    BY FieldsAreTypes DEF JwksInv
  <1> QED  BY <1>1, JwksInvAlways, PTL

\* Without KV, nobody who comes after clearJwksCache is let in by a key that
\* was withdrawn before it.
THEOREM JwksClearedIsGone == JwksSpec => []ClearedIsGone
  <1>1. JwksInv => ClearedIsGone
    BY DEF JwksInv, Uncached, Recently, Published, ClearedIsGone
  <1> QED  BY <1>1, JwksInvAlways, PTL

\* A verification is refused by GiveUp alone.
LEMMA GivesUp ==
    ASSUME JwksFields, [JwksNext]_jwksVars, NEW v \in Verifies,
           step[v] # "null", step'[v] = "null"
    PROVE  GiveUp(v)
  <1> USE DEF fetches, asked, jwksHistory
  <1>m. /\ step \in [Verifies -> Steps] /\ 0 \in 0..published /\ published \in Nat
        /\ \A g \in Gens : sent[g] \in 0..published /\ reply[g] \in 0..published
    BY Ranges DEF JwksFields
  <1>1. ASSUME NEW w \in Verifies, Begin(w) PROVE FALSE
    <2>1. PICK next \in {"accepted", "look", "kv", "wait"} : step' = [step EXCEPT ![w] = next]
      BY <1>1, BeginGoes
    <2> QED  BY <1>m, <2>1
  <1>2. ASSUME NEW w \in Verifies,
               \/ UseKv(w) \/ FetchPastKv(w) \/ ThrowKv(w)
               \/ Find(w) \/ Refetch(w) \/ Import(w)
        PROVE  FALSE
    <2>1. PICK to \in {"look", "wait", "wait again", "threw", "import", "accepted"} :
              step' = [step EXCEPT ![w] = to]
      BY <1>2 DEF UseKv, FetchPastKv, ThrowKv, Find, Refetch, Import, Answer, GoOn
    <2> QED  BY <1>m, <2>1
  <1>3. ASSUME NEW w \in Verifies, GiveUp(w), w # v PROVE FALSE
    BY <1>m, <1>3 DEF GiveUp, Answer, GoOn
  <1>4. ASSUME NEW g \in Gens, Reply(g) \/ Store(g) \/ FailFetch(g) PROVE FALSE
    <2>1. UNCHANGED step \/ \E d \in 0..published : Resume(g, d)
      BY <1>4, <1>m DEF Reply, Store, FailFetch
    <2>2. ASSUME NEW d \in 0..published, Resume(g, d) PROVE FALSE
      BY <2>2, ResumeDoes
    <2> QED  BY <2>1, <2>2
  <1>5. CASE ClearJwksCache \/ RotateKeys \/ Tick \/ UNCHANGED jwksVars
    <2>1. UNCHANGED step
      BY <1>5 DEF ClearJwksCache, RotateKeys, Tick, jwksVars
    <2> QED  BY <2>1
  <1> QED
    BY <1>1, <1>2, <1>3, <1>4, <1>5, TimeOutFails DEF JwksNext, Resolve

\* Who sends a request for an entry: one that begins and finds no keys there,
\* one that has found none in KV, or one whose kid is unknown.
Sends(v, g) ==
    \/ Begin(v) /\ gen = g /\ ~HasKeys(entry[g])
    \/ FetchPastKv(v) /\ mine[v] = g
    \/ Refetch(v) /\ mine[v] = g

LEMMA SomebodySends ==
    ASSUME JwksFields, [JwksNext]_jwksVars, NEW g \in Gens, wire[g] = "none", wire'[g] # "none"
    PROVE  \E v \in Verifies : Sends(v, g)
  <1> USE DEF fetches, asked, jwksHistory
  <1>m. /\ \A v \in Verifies : mine[v] \in Gens
        /\ wire \in [Gens -> {"none", "out", "storing"}]
        /\ gen \in Gens /\ 0 \in 0..published /\ published \in Nat
        /\ \A h \in Gens : sent[h] \in 0..published /\ reply[h] \in 0..published
    BY Ranges DEF JwksFields
  <1>f. ASSUME NEW v, NEW h \in Gens, Fetch(v, h) PROVE h = g
    BY <1>f, FetchDoes
  <1>1. ASSUME NEW v \in Verifies, Begin(v) PROVE Sends(v, g)
    <2>1. PICK next \in {"accepted", "look", "kv", "wait"} :
              /\ IF next = "wait" THEN Fetch(v, gen) ELSE UNCHANGED <<entry, wire, sent, sentAt>>
              /\ next = "wait" => ~HasKeys(entry[gen])
      BY <1>1, BeginGoes
    <2>2. next = "wait" /\ Fetch(v, gen)
      BY <2>1
    <2> QED  BY <1>1, <1>m, <1>f, <2>1, <2>2 DEF Sends
  <1>2. ASSUME NEW v \in Verifies, FetchPastKv(v) \/ Refetch(v) PROVE Sends(v, g)
    <2>1. Fetch(v, mine[v])
      BY <1>2 DEF FetchPastKv, Refetch
    <2> QED  BY <1>2, <1>m, <1>f, <2>1 DEF Sends
  <1>3. ASSUME NEW v \in Verifies, UseKv(v) \/ ThrowKv(v) \/ Find(v) \/ GiveUp(v) \/ Import(v)
        PROVE  FALSE
    BY <1>3 DEF UseKv, ThrowKv, Find, GiveUp, Import
  <1>4. ASSUME NEW h \in Gens, Reply(h) \/ Store(h) \/ FailFetch(h) PROVE FALSE
    <2>1. /\ wire[h] # "none"
          /\ \/ wire' = [wire EXCEPT ![h] = "storing"]
             \/ \E d \in 0..published : Resume(h, d)
      BY <1>4, <1>m DEF Reply, Store, FailFetch
    <2>2. ASSUME NEW d \in 0..published, Resume(h, d) PROVE FALSE
      BY <2>1, <2>2, ResumeDoes
    <2> QED  BY <1>m, <2>1, <2>2
  <1>5. CASE ClearJwksCache \/ RotateKeys \/ Tick \/ UNCHANGED jwksVars
    <2>1. UNCHANGED wire
      BY <1>5 DEF ClearJwksCache, RotateKeys, Tick, jwksVars
    <2> QED  BY <2>1
  <1> QED
    BY <1>1, <1>2, <1>3, <1>4, <1>5, TimeOutFails DEF JwksNext, Resolve

\* While an entry has fresh keys, two requests for it are an interval apart: but
\* for that of a verification that was reading KV when the keys came.
THEOREM JwksFreshKeysSpareIssuer == JwksSpec => FreshKeysSpareIssuer
  <1> DEFINE Spared(g) ==
          (wire[g] = "none" /\ wire'[g] # "none" /\ HasKeys(entry[g]))
              => \/ now - sentAt[g] >= MinRefetch
                 \/ \E v \in Verifies : mine[v] = g /\ step[v] = "kv" /\ step'[v] = "wait"
  <1>1. ASSUME JwksInv, [JwksNext]_jwksVars, NEW g \in Gens,
               wire[g] = "none", wire'[g] # "none", HasKeys(entry[g])
        PROVE  \/ now - sentAt[g] >= MinRefetch
               \/ \E v \in Verifies : mine[v] = g /\ step[v] = "kv" /\ step'[v] = "wait"
    <2>1. JwksFields /\ Stamps
      BY <1>1 DEF JwksInv
    <2>2. PICK v \in Verifies : Sends(v, g)
      BY <1>1, <2>1, SomebodySends
    <2>3. CASE FetchPastKv(v) /\ mine[v] = g
      <3>1. step[v] = "kv" /\ step'[v] = "wait"
        BY <2>1, <2>3 DEF FetchPastKv, GoOn, JwksFields
      <3> QED  BY <2>3, <3>1
    <2>4. CASE Refetch(v) /\ mine[v] = g
      <3>1. ~(now - sentAt[g] < MinRefetch)
        BY <2>1, <2>4 DEF Refetch, JustHit, Stamps
      <3>2. now \in Nat /\ MinRefetch \in Nat /\ sentAt[g] \in Int
        BY <2>1, Ranges, JwksAssumption
      <3> QED  BY <3>1, <3>2
    <2> QED  BY <1>1, <2>2, <2>3, <2>4 DEF Sends
  <1>2. JwksInv /\ [JwksNext]_jwksVars => [\A g \in Gens : Spared(g)]_jwksVars
    BY <1>1
  <1> QED  BY <1>2, JwksInvAlways, PTL DEF JwksSpec, FreshKeysSpareIssuer

\* A good token is refused only by an isolate that has asked the issuer for
\* its keys since it came, was asking when it came, or had just asked.
THEOREM JwksNullHasReason == JwksSpec => NullHasReason
  <1> DEFINE Reasoned(v) ==
          (step[v] # "null" /\ step'[v] = "null" /\ kid[v] \in Docs[published])
              => \/ joined[v]
                 \/ at[v] <= sentAt[mine[v]]
                 \/ at[v] - sentAt[mine[v]] < MinRefetch
  <1>1. ASSUME JwksInv, [JwksNext]_jwksVars, NEW v \in Verifies PROVE Reasoned(v)
    <2>1. JwksFields /\ Stamps /\ Answered
      BY <1>1 DEF JwksInv
    <2>2. /\ mine[v] \in Gens /\ now \in Nat /\ MinRefetch \in Nat
          /\ sentAt[mine[v]] \in Int /\ at[v] \in Nat /\ at[v] <= now
      BY <2>1, Ranges, JwksAssumption
    <2>3. entry[mine[v]].attempt = sentAt[mine[v]]
      BY <2>1, <2>2 DEF Stamps
    <2>4. step[v] = "look again" => joined[v] \/ at[v] <= sentAt[mine[v]]
      BY <2>1 DEF Answered, AnsweredTo, Asked
    <2>5. JustHit(mine[v]) => at[v] - sentAt[mine[v]] < MinRefetch
      <3>1. JustHit(mine[v]) <=> now - sentAt[mine[v]] < MinRefetch
        BY <2>3 DEF JustHit
      <3> QED  BY <2>2, <3>1
    <2>6. GiveUp(v) => step[v] = "look again" \/ JustHit(mine[v])
      BY DEF GiveUp
    <2> QED  BY <1>1, <2>1, <2>4, <2>5, <2>6, GivesUp
  <1>2. JwksInv /\ [JwksNext]_jwksVars => [\A v \in Verifies : Reasoned(v)]_jwksVars
    BY <1>1
  <1> QED  BY <1>2, JwksInvAlways, PTL DEF JwksSpec, NullHasReason

-----------------------------------------------------------------------------
(* ApiKeys: the inductive invariant.                                        *)

\* What was written last can be read; nothing is known of a secret that was
\* not put; a verification that has not begun was promised nothing; a last use
\* is recorded only with trackLastUsed, and by KV alone in two steps; and a
\* revocation that has returned is in the store.
Stored ==
    /\ record.now \in record.reads /\ revocation.now \in revocation.reads
    /\ \A u \in Uses : found[u].secret <= puts /\ promised[u].secret <= puts
    /\ \A u \in Uses : stage[u] \in {"touch", "write"} => track
    /\ \A u \in Uses : stage[u] = "write" => backend = "kv"
    /\ out => IF backend = "kv" THEN revocation.now ELSE record.now.revoked

\* The secret put last stays, and what a verification was promised.
SecretKept(u) ==
    /\ \A r \in record.reads : r.secret >= promised[u].secret
    /\ stage[u] \in {"has record", "found"} => found[u].secret >= promised[u].secret
    /\ stage[u] \in Past => presented[u] >= promised[u].secret

Renewed ==
    backend = "d1" \/ ~track =>
        record.now.secret = puts /\ \A u \in Uses : SecretKept(u)

\* On KV a revocation is a key of its own, which no write clears.
RevokedInKv ==
    backend = "kv" => \A u \in Uses : promised[u].out =>
        /\ revocation.reads = {TRUE}
        /\ stage[u] \in {"has revocation", "found"} => foundRevoked[u]
        /\ stage[u] \notin Past

\* On D1 the row is revoked until the key is put again.
Beyond(u, r) == r.secret > promised[u].secret \/ r.revoked

OutKept(u) ==
    promised[u].out =>
        /\ \A r \in record.reads : Beyond(u, r)
        /\ stage[u] = "found" => Beyond(u, found[u])
        /\ stage[u] \in Past => presented[u] > promised[u].secret

RevokedInD1 == backend = "d1" => \A u \in Uses : OutKept(u)

KeysInv == KeysTypeOK /\ Stored /\ Renewed /\ RevokedInKv /\ RevokedInD1

LEMMA KeysInitially == KeysInit => KeysInv
  <1> SUFFICES ASSUME KeysInit PROVE KeysInv
    OBVIOUS
  <1>1. NoRecord \in Records /\ NoRecord.secret = 0 /\ MaxPuts \in Nat
    BY KeysAssumption DEF NoRecord, Records
  <1>2. /\ record.now = NoRecord /\ record.reads = {NoRecord}
        /\ revocation.now = FALSE /\ revocation.reads = {FALSE}
    BY DEF KeysInit, Key
  <1>3. KeysTypeOK
    <2>1. /\ record \in [now : Records, reads : SUBSET Records]
          /\ revocation \in [now : BOOLEAN, reads : SUBSET BOOLEAN]
      BY <1>1 DEF KeysInit, Key
    <2>2. 0 \in 0..MaxPuts
      BY <1>1
    <2>s. Settled /\ puts = 0
      BY <1>2 DEF KeysInit, Settled, Converged
    <2>3. \A r \in record.reads : r.secret <= puts
      BY <1>1, <1>2, <2>s
    <2>4. found \in [Uses -> Records] /\ stage \in [Uses -> Stages]
      BY <1>1 DEF KeysInit, Stages
    <2>5. /\ foundRevoked \in [Uses -> BOOLEAN]
          /\ promised \in [Uses -> [out : BOOLEAN, secret : 0..MaxPuts]]
      BY <2>2 DEF KeysInit
    <2> QED
      BY <2>1, <2>2, <2>s, <2>3, <2>4, <2>5 DEF KeysInit, KeysTypeOK
  <1>4. \A u \in Uses : /\ stage[u] = "idle" /\ found[u].secret = 0
                        /\ promised[u].secret = 0 /\ promised[u].out = FALSE
    BY <1>1 DEF KeysInit
  <1>5. Stored /\ Renewed
    <2>1. puts = 0 /\ out = FALSE /\ record.now.secret = 0
      BY <1>1, <1>2 DEF KeysInit
    <2>2. Stored
      <3>1. \A u \in Uses : found[u].secret <= puts /\ promised[u].secret <= puts
        BY <1>4, <2>1
      <3>2. \A u \in Uses : stage[u] = "idle"
        BY <1>4
      <3> QED  BY <1>2, <2>1, <3>1, <3>2 DEF Stored
    <2>3. ASSUME NEW u \in Uses PROVE SecretKept(u)
      <3>1. \A r \in record.reads : r.secret >= promised[u].secret
        BY <1>1, <1>2, <1>4
      <3>2. stage[u] = "idle"
        BY <1>4
      <3> QED  BY <3>1, <3>2 DEF SecretKept, Past
    <2> QED  BY <2>1, <2>2, <2>3 DEF Renewed
  <1>6. RevokedInKv /\ RevokedInD1
    BY <1>4 DEF RevokedInKv, RevokedInD1, OutKept
  <1> QED  BY <1>3, <1>5, <1>6 DEF KeysInv

-----------------------------------------------------------------------------
(* What a step does to the store.                                           *)

\* The record that was written last is r now.
RecordGoes(r) ==
    /\ record'.now = r /\ r \in record'.reads
    /\ record'.reads \subseteq record.reads \cup {r}
    /\ record' \in [now : Records, reads : SUBSET Records]
    /\ backend = "d1" => record'.reads = {r}

\* Where r comes from: it was there, has been revoked or put, or is written
\* back by a verification on KV.
RecordFrom(r) ==
    \/ r = record.now /\ puts' = puts
    \/ r.secret = record.now.secret /\ r.revoked /\ puts' = puts
    \/ r.secret = puts + 1 /\ puts' = puts + 1 /\ (out' => backend = "kv")
    \/ track /\ backend = "kv" /\ puts' = puts /\ \E u \in Uses : r = found[u]

RevocationGoes ==
    /\ revocation' \in [now : BOOLEAN, reads : SUBSET BOOLEAN]
    /\ revocation'.now \in revocation'.reads
    /\ \/ revocation'.now = revocation.now /\ revocation'.reads \subseteq revocation.reads
       \/ revocation'.now /\ revocation'.reads \subseteq revocation.reads \cup {TRUE}
    /\ backend = "d1" => revocation'.reads = {revocation'.now}

StoreGoes ==
    /\ UNCHANGED <<backend, track, presented>>
    /\ \E r \in Records : RecordGoes(r) /\ RecordFrom(r)
    /\ RevocationGoes
    /\ out' \in BOOLEAN
    /\ out' => out \/ IF backend = "kv" THEN revocation'.now ELSE record'.now.revoked

LEMMA StoreRests ==
    ASSUME KeysTypeOK, Stored, UNCHANGED <<backend, track, presented, keys, puts, out>>
    PROVE  StoreGoes
  <1>1. record.now \in Records /\ RecordGoes(record.now) /\ RecordFrom(record.now)
    BY DEF KeysTypeOK, Stored, RecordGoes, RecordFrom, Settled, Converged, keys
  <1>2. RevocationGoes
    BY DEF KeysTypeOK, Stored, RevocationGoes, Settled, Converged, keys
  <1> QED  BY <1>1, <1>2 DEF StoreGoes, KeysTypeOK

LEMMA RecordWritten ==
    ASSUME KeysTypeOK, NEW r \in Records, record' = Written(record, r)
    PROVE  RecordGoes(r)
  <1>1. record.reads \in SUBSET Records /\ backend \in {"kv", "d1"}
    BY DEF KeysTypeOK
  <1>2. record' = [now |-> r, reads |-> IF backend = "kv" THEN record.reads \cup {r} ELSE {r}]
    BY DEF Written
  <1> QED  BY <1>1, <1>2 DEF RecordGoes

LEMMA StoreStep ==
    ASSUME KeysTypeOK, Stored, [KeysNext]_keysVars
    PROVE  StoreGoes
  <1> USE DEF keys, finds
  <1>t. /\ record.now \in Records /\ record.reads \subseteq Records
        /\ record.now \in record.reads /\ record \in [now : Records, reads : SUBSET Records]
        /\ puts \in 0..MaxPuts /\ MaxPuts \in Nat /\ out \in BOOLEAN
        /\ found \in [Uses -> Records]
    BY KeysAssumption DEF KeysTypeOK, Stored
  <1>r. revocation' = revocation => RevocationGoes
    BY DEF KeysTypeOK, Stored, RevocationGoes, Settled, Converged
  <1>1. CASE Put
    <2> DEFINE r == [secret |-> puts + 1, revoked |-> FALSE]
    <2>1. r \in Records /\ r.secret = puts + 1
      BY <1>1, <1>t DEF Put, Records
    <2>2. RecordGoes(r)
      BY <1>1, <2>1, RecordWritten DEF Put
    <2>3. RecordFrom(r)
      BY <1>1, <2>1 DEF Put, RecordFrom
    <2> HIDE DEF r
    <2> QED  BY <1>1, <1>r, <1>t, <2>1, <2>2, <2>3 DEF Put, StoreGoes
  <1>2. CASE Revoke
    <2>0. UNCHANGED <<backend, track, presented, puts>> /\ out' = TRUE
      BY <1>2 DEF Revoke, WriteRevocation, RevokeRow
    <2>1. CASE backend = "kv"
      <3>1. record' = record /\ revocation' = Written(revocation, TRUE)
        BY <1>2, <2>1 DEF Revoke, WriteRevocation, RevokeRow, InItsOwnKey
      <3>2. RecordGoes(record.now) /\ RecordFrom(record.now)
        BY <1>t, <2>0, <2>1, <3>1 DEF RecordGoes, RecordFrom
      <3>3. revocation' = [now |-> TRUE, reads |-> revocation.reads \cup {TRUE}]
        BY <2>1, <3>1 DEF Written
      <3>4. RevocationGoes /\ revocation'.now
        BY <2>1, <3>3 DEF RevocationGoes, KeysTypeOK
      <3> QED  BY <1>t, <2>0, <2>1, <3>2, <3>4 DEF StoreGoes
    <2>2. CASE backend # "kv"
      <3> DEFINE r == [record.now EXCEPT !.revoked = TRUE]
      <3>1. record' = Written(record, r) /\ revocation' = revocation
        BY <1>2, <2>2 DEF Revoke, WriteRevocation, RevokeRow, InItsOwnKey
      <3>2. r \in Records /\ r.secret = record.now.secret /\ r.revoked
        BY <1>t DEF Records
      <3> HIDE DEF r
      <3>3. RecordGoes(r) /\ RecordFrom(r)
        BY <2>0, <3>1, <3>2, RecordWritten DEF RecordFrom
      <3>4. record'.now.revoked
        BY <3>2, <3>3 DEF RecordGoes
      <3> QED  BY <1>r, <2>0, <2>2, <3>1, <3>2, <3>3, <3>4 DEF StoreGoes
    <2> QED  BY <2>1, <2>2
  <1>3. CASE PropagateRecord
    <2>1. record' = [now |-> record.now, reads |-> {record.now}]
      BY <1>3 DEF PropagateRecord, Key
    <2>2. RecordGoes(record.now)
      BY <1>t, <2>1 DEF RecordGoes
    <2> QED  BY <1>3, <1>r, <1>t, <2>2 DEF PropagateRecord, RecordFrom, StoreGoes
  <1>4. CASE PropagateRevocation
    <2>1. revocation' = [now |-> revocation.now, reads |-> {revocation.now}]
      BY <1>4 DEF PropagateRevocation, Key
    <2>2. RevocationGoes
      BY <2>1 DEF RevocationGoes, KeysTypeOK, Stored
    <2>3. RecordGoes(record.now)
      BY <1>4, <1>t DEF PropagateRevocation, RecordGoes, KeysTypeOK, Settled, Converged
    <2> QED  BY <1>4, <1>t, <2>2, <2>3 DEF PropagateRevocation, RecordFrom, StoreGoes
  <1>5. ASSUME NEW u \in Uses, TouchRow(u) PROVE StoreGoes
    <2>1. RecordGoes(record.now)
      BY <1>5, <1>t, RecordWritten DEF TouchRow, TouchedRow
    <2> QED  BY <1>5, <1>r, <1>t, <2>1 DEF TouchRow, RecordFrom, StoreGoes
  <1>6. ASSUME NEW u \in Uses, TouchWrite(u) PROVE StoreGoes
    <2>1. RecordGoes(found[u]) /\ found[u] \in Records
      BY <1>6, <1>t, RecordWritten DEF TouchWrite
    <2>2. RecordFrom(found[u])
      BY <1>6 DEF TouchWrite, RecordFrom, Stored
    <2> QED  BY <1>6, <1>r, <1>t, <2>1, <2>2 DEF TouchWrite, StoreGoes
  <1>7. ASSUME NEW u \in Uses,
               Ask(u) \/ ReadBoth(u) \/ ReadRecord(u) \/ ReadRevocation(u)
                   \/ Refuse(u) \/ Accept(u) \/ TouchRead(u) \/ StoreThrows(u)
        PROVE  StoreGoes
    <2>1. UNCHANGED <<backend, track, presented, keys, puts, out>>
      BY <1>7 DEF Ask, ReadBoth, ReadRecord, ReadRevocation, Refuse, Accept, TouchRead, StoreThrows
    <2> QED  BY <2>1, StoreRests
  <1>8. CASE UNCHANGED keysVars
    BY <1>8, StoreRests DEF keysVars
  <1> QED
    BY <1>1, <1>2, <1>3, <1>4, <1>5, <1>6, <1>7, <1>8 DEF KeysNext, Verify

-----------------------------------------------------------------------------
(* What a step does to the verifications.                                   *)

UseRests(u) == /\ stage'[u] = stage[u] /\ found'[u] = found[u]
               /\ foundRevoked'[u] = foundRevoked[u] /\ promised'[u] = promised[u]

LEMMA OthersRest ==
    ASSUME KeysTypeOK, [KeysNext]_keysVars, NEW u \in Uses
    PROVE  Verify(u) \/ UseRests(u)
  <1> USE DEF keys, finds
  <1>t. /\ found \in [Uses -> Records] /\ foundRevoked \in [Uses -> BOOLEAN]
        /\ stage \in [Uses -> Stages]
        /\ promised \in [Uses -> [out : BOOLEAN, secret : 0..MaxPuts]]
    BY DEF KeysTypeOK
  <1>1. CASE Put \/ Revoke \/ PropagateRecord \/ PropagateRevocation \/ UNCHANGED keysVars
    BY <1>1 DEF Put, Revoke, WriteRevocation, RevokeRow, PropagateRecord, PropagateRevocation,
           keysVars, UseRests
  <1>2. ASSUME NEW w \in Uses, Verify(w), w # u PROVE UseRests(u)
    <2>1. stage'[u] = stage[u]
      <3>1. \E s : stage' = [stage EXCEPT ![w] = s]
        BY <1>2, Zenon DEF Verify, Ask, ReadBoth, ReadRecord, ReadRevocation, Refuse, Accept,
                    TouchRow, TouchRead, TouchWrite, StoreThrows
      <3> QED  BY <1>2, <1>t, <3>1
    <2>2. found'[u] = found[u]
      <3>1. UNCHANGED found \/ \E r : found' = [found EXCEPT ![w] = r]
        BY <1>2 DEF Verify, Ask, ReadBoth, ReadRecord, ReadRevocation, Refuse, Accept,
                    TouchRow, TouchRead, TouchWrite, StoreThrows
      <3> QED  BY <1>2, <1>t, <3>1
    <2>3. foundRevoked'[u] = foundRevoked[u]
      <3>1. UNCHANGED foundRevoked \/ \E r : foundRevoked' = [foundRevoked EXCEPT ![w] = r]
        BY <1>2 DEF Verify, Ask, ReadBoth, ReadRecord, ReadRevocation, Refuse, Accept,
                    TouchRow, TouchRead, TouchWrite, StoreThrows
      <3> QED  BY <1>2, <1>t, <3>1
    <2>4. promised'[u] = promised[u]
      <3>1. UNCHANGED promised \/ \E r : promised' = [promised EXCEPT ![w] = r]
        BY <1>2 DEF Verify, Ask, ReadBoth, ReadRecord, ReadRevocation, Refuse, Accept,
                    TouchRow, TouchRead, TouchWrite, StoreThrows
      <3> QED  BY <1>2, <1>t, <3>1
    <2> QED  BY <2>1, <2>2, <2>3, <2>4 DEF UseRests
  <1> QED  BY <1>1, <1>2 DEF KeysNext

\* The fields of the verifications are functions on them.
UseFields ==
    /\ found = [u \in Uses |-> found[u]] /\ foundRevoked = [u \in Uses |-> foundRevoked[u]]
    /\ stage = [u \in Uses |-> stage[u]] /\ promised = [u \in Uses |-> promised[u]]

LEMMA UseFieldsStep ==
    ASSUME KeysTypeOK, [KeysNext]_keysVars
    PROVE  UseFields'
  <1> USE DEF keys, finds
  <1>t. UseFields
    BY DEF KeysTypeOK, UseFields
  <1>1. ASSUME NEW u \in Uses, Verify(u) PROVE UseFields'
    <2>1. stage' = [w \in Uses |-> stage'[w]]
      <3>1. \E s : stage' = [stage EXCEPT ![u] = s]
        BY <1>1, Zenon DEF Verify, Ask, ReadBoth, ReadRecord, ReadRevocation, Refuse, Accept,
                    TouchRow, TouchRead, TouchWrite, StoreThrows
      <3> QED  BY <1>t, <3>1 DEF UseFields
    <2>2. found' = [w \in Uses |-> found'[w]]
      <3>1. UNCHANGED found \/ \E r : found' = [found EXCEPT ![u] = r]
        BY <1>1 DEF Verify, Ask, ReadBoth, ReadRecord, ReadRevocation, Refuse, Accept,
                    TouchRow, TouchRead, TouchWrite, StoreThrows
      <3> QED  BY <1>t, <3>1 DEF UseFields
    <2>3. foundRevoked' = [w \in Uses |-> foundRevoked'[w]]
      <3>1. UNCHANGED foundRevoked \/ \E r : foundRevoked' = [foundRevoked EXCEPT ![u] = r]
        BY <1>1 DEF Verify, Ask, ReadBoth, ReadRecord, ReadRevocation, Refuse, Accept,
                    TouchRow, TouchRead, TouchWrite, StoreThrows
      <3> QED  BY <1>t, <3>1 DEF UseFields
    <2>4. promised' = [w \in Uses |-> promised'[w]]
      <3>1. UNCHANGED promised \/ \E r : promised' = [promised EXCEPT ![u] = r]
        BY <1>1 DEF Verify, Ask, ReadBoth, ReadRecord, ReadRevocation, Refuse, Accept,
                    TouchRow, TouchRead, TouchWrite, StoreThrows
      <3> QED  BY <1>t, <3>1 DEF UseFields
    <2> QED  BY <2>1, <2>2, <2>3, <2>4 DEF UseFields
  <1>2. CASE Put \/ Revoke \/ PropagateRecord \/ PropagateRevocation \/ UNCHANGED keysVars
    BY <1>t, <1>2 DEF Put, Revoke, WriteRevocation, RevokeRow, PropagateRecord, PropagateRevocation,
           keysVars, UseFields
  <1> QED  BY <1>1, <1>2 DEF KeysNext

\* What its own step does to a verification, field by field.
UseAsks(u) ==
    /\ stage[u] = "idle" /\ stage'[u] = "asked" /\ UNCHANGED <<record, revocation, puts, out>>
    /\ found'[u] = found[u] /\ foundRevoked'[u] = foundRevoked[u]
    /\ promised'[u].out = (out /\ Settled)
    /\ promised'[u].secret = IF Settled THEN puts ELSE 0
    /\ promised'[u] \in [out : BOOLEAN, secret : 0..MaxPuts]

UseReads(u) ==
    /\ promised'[u] = promised[u]
    /\ \/ /\ backend = "d1" /\ stage'[u] = "found"
          /\ found'[u] = record.now /\ foundRevoked'[u] = foundRevoked[u]
       \/ /\ backend = "kv" /\ found'[u] \in record.reads /\ foundRevoked'[u] = foundRevoked[u]
          /\ \/ stage[u] = "asked" /\ stage'[u] = "has record"
             \/ stage[u] = "has revocation" /\ stage'[u] = "found"
             \/ stage[u] = "touch" /\ stage'[u] \in {"accepted", "write"}
       \/ /\ backend = "kv" /\ found'[u] = found[u] /\ foundRevoked'[u] \in revocation.reads
          /\ \/ stage[u] = "asked" /\ stage'[u] = "has revocation"
             \/ stage[u] = "has record" /\ stage'[u] = "found"

UseEnds(u) ==
    /\ promised'[u] = promised[u]
    /\ found'[u] = found[u] /\ foundRevoked'[u] = foundRevoked[u]
    /\ \/ stage'[u] \in {"null", "threw"}
       \/ stage[u] = "found" /\ Valid(u) /\ stage'[u] = IF track THEN "touch" ELSE "accepted"
       \/ stage[u] \in {"touch", "write"} /\ stage'[u] = "accepted"

LEMMA UseGoes ==
    ASSUME KeysTypeOK, NEW u \in Uses, Verify(u)
    PROVE  UseAsks(u) \/ UseReads(u) \/ UseEnds(u)
  <1> USE DEF keys, finds
  <1>t. /\ found \in [Uses -> Records] /\ foundRevoked \in [Uses -> BOOLEAN]
        /\ stage \in [Uses -> Stages]
        /\ promised \in [Uses -> [out : BOOLEAN, secret : 0..MaxPuts]]
    BY DEF KeysTypeOK
  <1>1. ASSUME Ask(u) PROVE UseAsks(u)
    <2>1. [out |-> out /\ Settled, secret |-> IF Settled THEN puts ELSE 0]
              \in [out : BOOLEAN, secret : 0..MaxPuts]
      BY KeysAssumption DEF KeysTypeOK
    <2> QED  BY <1>t, <1>1, <2>1 DEF Ask, UseAsks
  <1>2. ASSUME ReadBoth(u) PROVE UseReads(u)
    BY <1>t, <1>2 DEF ReadBoth, UseReads
  <1>3. ASSUME ReadRecord(u) PROVE UseReads(u)
    BY <1>t, <1>3 DEF ReadRecord, UseReads
  <1>4. ASSUME ReadRevocation(u) PROVE UseReads(u)
    BY <1>t, <1>4 DEF ReadRevocation, UseReads
  <1>5. ASSUME TouchRead(u) PROVE UseReads(u)
    BY <1>t, <1>5 DEF TouchRead, UseReads
  <1>6. ASSUME Refuse(u) \/ Accept(u) PROVE UseEnds(u)
    BY <1>t, <1>6 DEF Refuse, Accept, UseEnds
  <1>7. ASSUME TouchRow(u) \/ TouchWrite(u) PROVE UseEnds(u)
    BY <1>t, <1>7 DEF TouchRow, TouchWrite, UseEnds
  <1>8. ASSUME StoreThrows(u) PROVE UseEnds(u)
    BY <1>t, <1>8 DEF StoreThrows, UseEnds
  <1> QED
    BY <1>1, <1>2, <1>3, <1>4, <1>5, <1>6, <1>7, <1>8 DEF Verify

-----------------------------------------------------------------------------
(* The invariant is kept.                                                   *)

\* Bounds of what is stored and read.
LEMMA RecordBounds ==
    ASSUME KeysTypeOK, Stored, NEW r \in Records, RecordFrom(r)
    PROVE  r.secret <= puts' /\ puts' \in Nat /\ puts <= puts' /\ r.secret \in Nat
  <1>1. /\ puts \in Nat /\ record.now \in Records /\ record.now.secret <= puts
        /\ \A u \in Uses : found[u].secret <= puts
    BY KeysAssumption DEF KeysTypeOK, Stored
  <1>2. r.secret \in Nat /\ record.now.secret \in Nat
    BY <1>1, KeysAssumption DEF Records
  <1> QED  BY <1>1, <1>2 DEF RecordFrom

LEMMA UseTypes ==
    ASSUME KeysTypeOK, Stored, [KeysNext]_keysVars, NEW u \in Uses,
           puts' \in Nat, puts <= puts'
    PROVE  /\ found'[u] \in Records /\ foundRevoked'[u] \in BOOLEAN /\ stage'[u] \in Stages
           /\ promised'[u] \in [out : BOOLEAN, secret : 0..MaxPuts]
           /\ found'[u].secret <= puts' /\ promised'[u].secret <= puts'
  <1>1. /\ found[u] \in Records /\ foundRevoked[u] \in BOOLEAN /\ stage[u] \in Stages
        /\ promised[u] \in [out : BOOLEAN, secret : 0..MaxPuts]
        /\ record.now \in Records /\ record.reads \subseteq Records
        /\ revocation.reads \subseteq BOOLEAN
        /\ puts \in Nat /\ MaxPuts \in Nat
    BY KeysAssumption DEF KeysTypeOK
  <1>2. /\ found[u].secret <= puts /\ promised[u].secret <= puts /\ record.now.secret <= puts
        /\ \A r \in record.reads : r.secret <= puts
    BY DEF KeysTypeOK, Stored
  <1>3. \A r \in Records : r.secret <= puts => r.secret <= puts'
    BY <1>1 DEF Records
  <1>4. promised[u].secret <= puts'
    BY <1>1, <1>2
  <1>5. CASE UseRests(u)
    BY <1>1, <1>2, <1>3, <1>4, <1>5 DEF UseRests
  <1>6. CASE UseAsks(u)
    BY <1>1, <1>2, <1>3, <1>6 DEF UseAsks, Stages
  <1>7. CASE UseReads(u)
    <2>1. found'[u] \in Records /\ found'[u].secret <= puts /\ foundRevoked'[u] \in BOOLEAN
      BY <1>1, <1>2, <1>7 DEF UseReads
    <2>2. stage'[u] \in Stages /\ promised'[u] = promised[u]
      BY <1>7 DEF UseReads, Stages
    <2> QED  BY <1>1, <1>3, <1>4, <2>1, <2>2
  <1>8. CASE UseEnds(u)
    BY <1>1, <1>2, <1>3, <1>4, <1>8 DEF UseEnds, Stages
  <1> QED  BY <1>5, <1>6, <1>7, <1>8, OthersRest, UseGoes

LEMMA KeysTypesStep ==
    ASSUME KeysTypeOK, Stored, [KeysNext]_keysVars
    PROVE  KeysTypeOK'
  <1>1. /\ UNCHANGED <<backend, track, presented>> /\ RevocationGoes /\ out' \in BOOLEAN
        /\ \E r \in Records : RecordGoes(r) /\ RecordFrom(r)
    BY StoreStep DEF StoreGoes
  <1>2. PICK r \in Records : RecordGoes(r) /\ RecordFrom(r)
    BY <1>1
  <1>3. /\ r.secret <= puts' /\ puts' \in Nat /\ puts <= puts' /\ r.secret \in Nat
        /\ puts \in Nat /\ record.reads \subseteq Records
    BY <1>2, RecordBounds, KeysAssumption DEF KeysTypeOK
  <1>4. \A x \in record'.reads : x.secret <= puts'
    <2>1. \A x \in record.reads : x.secret <= puts /\ x.secret \in Nat
      BY <1>3, KeysAssumption DEF KeysTypeOK, Records
    <2> QED  BY <1>2, <1>3, <2>1 DEF RecordGoes
  <1>5. record' \in [now : Records, reads : SUBSET Records]
    BY <1>2 DEF RecordGoes
  <1>6. revocation' \in [now : BOOLEAN, reads : SUBSET BOOLEAN]
    BY <1>1 DEF RevocationGoes
  <1>7. backend' = "d1" => Settled'
    BY <1>1, <1>2 DEF RecordGoes, RevocationGoes, Settled, Converged
  <1>8. puts' \in 0..MaxPuts
    <2>1. Put \/ UNCHANGED puts
      BY DEF KeysNext, Revoke, WriteRevocation, RevokeRow, PropagateRecord,
             PropagateRevocation, Verify, Ask, ReadBoth,
             ReadRecord, ReadRevocation, Refuse, Accept, TouchRow, TouchRead, TouchWrite,
             StoreThrows, keysVars
    <2>2. puts \in 0..MaxPuts /\ MaxPuts \in Nat
      BY KeysAssumption DEF KeysTypeOK
    <2> QED  BY <2>1, <2>2 DEF Put
  <1>9. /\ found' \in [Uses -> Records] /\ foundRevoked' \in [Uses -> BOOLEAN]
        /\ stage' \in [Uses -> Stages]
        /\ promised' \in [Uses -> [out : BOOLEAN, secret : 0..MaxPuts]]
    <2>1. UseFields'
      BY UseFieldsStep
    <2>2. \A u \in Uses :
              /\ found'[u] \in Records /\ foundRevoked'[u] \in BOOLEAN /\ stage'[u] \in Stages
              /\ promised'[u] \in [out : BOOLEAN, secret : 0..MaxPuts]
      BY <1>3, UseTypes
    <2> QED  BY <2>1, <2>2 DEF UseFields
  <1> QED
    BY <1>1, <1>4, <1>5, <1>6, <1>7, <1>8, <1>9 DEF KeysTypeOK

LEMMA StoredStep ==
    ASSUME KeysTypeOK, Stored, [KeysNext]_keysVars
    PROVE  Stored'
  <1>1. /\ UNCHANGED <<backend, track, presented>> /\ RevocationGoes
        /\ out' => out \/ IF backend = "kv" THEN revocation'.now ELSE record'.now.revoked
    BY StoreStep DEF StoreGoes
  <1>2. PICK r \in Records : RecordGoes(r) /\ RecordFrom(r)
    BY StoreStep DEF StoreGoes
  <1>3. puts' \in Nat /\ puts <= puts'
    BY <1>2, RecordBounds
  <1>4. record'.now \in record'.reads /\ revocation'.now \in revocation'.reads
    BY <1>1, <1>2 DEF RecordGoes, RevocationGoes
  <1>5. \A u \in Uses : found'[u].secret <= puts' /\ promised'[u].secret <= puts'
    BY <1>3, UseTypes
  <1>6. ASSUME NEW u \in Uses
        PROVE  /\ stage'[u] \in {"touch", "write"} => track
               /\ stage'[u] = "write" => backend = "kv"
    <2>1. /\ stage[u] \in {"touch", "write"} => track
          /\ stage[u] = "write" => backend = "kv"
      BY DEF Stored
    <2> QED
      BY <2>1, OthersRest, UseGoes DEF UseRests, UseAsks, UseReads, UseEnds
  <1>7. out' => IF backend = "kv" THEN revocation'.now ELSE record'.now.revoked
    <2>1. backend = "kv" /\ revocation.now => revocation'.now
      BY <1>1 DEF RevocationGoes
    <2>2. out' /\ out /\ backend # "kv" => record'.now.revoked
      BY <1>2, KeysAssumption DEF RecordGoes, RecordFrom, Stored, KeysTypeOK
    <2> QED  BY <1>1, <2>1, <2>2 DEF Stored
  <1> QED  BY <1>1, <1>4, <1>5, <1>6, <1>7 DEF Stored

LEMMA RenewedStep ==
    ASSUME KeysTypeOK, Stored, Renewed, [KeysNext]_keysVars
    PROVE  Renewed'
  <1>1. UNCHANGED <<backend, track, presented>>
    BY StoreStep DEF StoreGoes
  <1>2. PICK r \in Records : RecordGoes(r) /\ RecordFrom(r)
    BY StoreStep DEF StoreGoes
  <1> SUFFICES ASSUME backend = "d1" \/ ~track
               PROVE  record'.now.secret = puts' /\ \A u \in Uses : SecretKept(u)'
    BY <1>1 DEF Renewed
  <1>3. record.now.secret = puts /\ \A u \in Uses : SecretKept(u)
    BY DEF Renewed
  <1>4. record'.now = r /\ r.secret = puts' /\ puts \in Nat /\ puts <= puts' /\ puts' \in Nat
    BY <1>2, <1>3, RecordBounds, KeysAssumption DEF RecordGoes, RecordFrom, KeysTypeOK
  <1>5. ASSUME NEW u \in Uses PROVE SecretKept(u)'
    <2>1. /\ \A x \in record.reads : x.secret >= promised[u].secret
          /\ stage[u] \in {"has record", "found"} => found[u].secret >= promised[u].secret
          /\ stage[u] \in Past => presented[u] >= promised[u].secret
      BY <1>3 DEF SecretKept
    <2>p. promised[u].secret \in Nat /\ promised[u].secret <= puts
      BY KeysAssumption DEF KeysTypeOK, Stored
    <2>2. r.secret >= promised[u].secret
      BY <1>4, <2>p
    <2>3. promised'[u] = promised[u] =>
              \A x \in record'.reads : x.secret >= promised'[u].secret
      BY <1>2, <2>1, <2>2 DEF RecordGoes
    <2>4. CASE UseRests(u)
      BY <1>1, <2>1, <2>3, <2>4 DEF UseRests, SecretKept
    <2>5. CASE UseAsks(u)
      <3>1. record' = record /\ stage'[u] = "asked"
            /\ promised'[u].secret = IF Settled THEN puts ELSE 0
        BY <2>5 DEF UseAsks
      <3>2. \A x \in record.reads : x.secret >= promised'[u].secret
        <4>1. CASE Settled
          BY <1>3, <1>4, <3>1, <4>1 DEF Settled, Converged
        <4>2. CASE ~Settled
          BY <3>1, <4>2, KeysAssumption DEF KeysTypeOK, Records
        <4> QED  BY <4>1, <4>2
      <3> QED  BY <3>1, <3>2 DEF SecretKept, Past
    <2>6. CASE UseReads(u)
      <3>1. record.now \in record.reads
        BY DEF Stored
      <3>2. stage'[u] = "has record" => found'[u] \in record.reads
        BY <2>6 DEF UseReads
      <3>3. stage'[u] = "found" =>
                \/ found'[u] \in record.reads
                \/ stage[u] = "has record" /\ found'[u] = found[u]
        BY <2>6, <3>1 DEF UseReads
      <3>4. stage'[u] \in Past => stage[u] \in Past
        BY <2>6 DEF UseReads, Past
      <3>5. promised'[u] = promised[u]
        BY <2>6 DEF UseReads
      <3> QED  BY <1>1, <2>1, <2>3, <3>2, <3>3, <3>4, <3>5 DEF SecretKept
    <2>7. CASE UseEnds(u)
      <3>1. stage'[u] \notin {"has record", "found"} /\ promised'[u] = promised[u]
        BY <2>7 DEF UseEnds
      <3>2. stage'[u] \in Past => presented[u] >= promised[u].secret
        BY <2>1, <2>7 DEF UseEnds, Valid, Past
      <3> QED  BY <1>1, <2>3, <3>1, <3>2 DEF SecretKept
    <2> QED  BY <2>4, <2>5, <2>6, <2>7, OthersRest, UseGoes
  <1> QED  BY <1>4, <1>5

LEMMA RevokedInKvStep ==
    ASSUME KeysTypeOK, Stored, RevokedInKv, [KeysNext]_keysVars
    PROVE  RevokedInKv'
  <1>1. UNCHANGED <<backend, track, presented>> /\ RevocationGoes
    BY StoreStep DEF StoreGoes
  <1> SUFFICES ASSUME backend = "kv", NEW u \in Uses, promised'[u].out
               PROVE  /\ revocation'.reads = {TRUE}
                      /\ stage'[u] \in {"has revocation", "found"} => foundRevoked'[u]
                      /\ stage'[u] \notin Past
    BY <1>1 DEF RevokedInKv
  <1>2. promised[u].out => /\ revocation.reads = {TRUE}
                           /\ stage[u] \in {"has revocation", "found"} => foundRevoked[u]
                           /\ stage[u] \notin Past
    BY DEF RevokedInKv
  <1>3. promised[u].out => revocation'.reads = {TRUE}
    BY <1>1, <1>2 DEF RevocationGoes, Stored
  <1>4. CASE UseRests(u)
    BY <1>2, <1>3, <1>4 DEF UseRests
  <1>5. CASE UseAsks(u)
    <2>1. out /\ Settled /\ revocation' = revocation /\ stage'[u] = "asked"
      BY <1>5 DEF UseAsks
    <2>2. revocation.reads = {revocation.now} /\ revocation.now /\ revocation.now \in BOOLEAN
      BY <2>1 DEF Settled, Converged, Stored, KeysTypeOK
    <2> QED  BY <2>1, <2>2 DEF Past
  <1>6. CASE UseReads(u)
    <2>1. promised[u].out
      BY <1>6 DEF UseReads
    <2> QED  BY <1>2, <1>3, <1>6, <2>1 DEF UseReads, Past
  <1>7. CASE UseEnds(u)
    <2>1. promised[u].out
      BY <1>7 DEF UseEnds
    <2> QED  BY <1>2, <1>3, <1>7, <2>1 DEF UseEnds, Valid, Past
  <1> QED  BY <1>4, <1>5, <1>6, <1>7, OthersRest, UseGoes

LEMMA RevokedInD1Step ==
    ASSUME KeysTypeOK, Stored, RevokedInD1, [KeysNext]_keysVars
    PROVE  RevokedInD1'
  <1>1. UNCHANGED <<backend, track, presented>>
    BY StoreStep DEF StoreGoes
  <1>2. PICK r \in Records : RecordGoes(r) /\ RecordFrom(r)
    BY StoreStep DEF StoreGoes
  <1> SUFFICES ASSUME backend = "d1", NEW u \in Uses, promised'[u].out
               PROVE  /\ \A x \in record'.reads : Beyond(u, x)'
                      /\ stage'[u] = "found" => Beyond(u, found[u])'
                      /\ stage'[u] \in Past => presented[u] > promised'[u].secret
    BY <1>1 DEF RevokedInD1, OutKept
  <1>3. promised[u].out => /\ \A x \in record.reads : Beyond(u, x)
                           /\ stage[u] = "found" => Beyond(u, found[u])
                           /\ stage[u] \in Past => presented[u] > promised[u].secret
    BY DEF RevokedInD1, OutKept
  <1>4. /\ promised[u].secret \in Nat /\ promised[u].secret <= puts /\ puts \in Nat
        /\ record.reads = {record.now} /\ record'.reads = {r}
    BY <1>2, KeysAssumption DEF KeysTypeOK, Stored, Settled, Converged, RecordGoes
  <1>5. promised'[u] = promised[u] => \A x \in record'.reads : Beyond(u, x)'
    BY <1>2, <1>3, <1>4 DEF RecordFrom, Beyond
  <1>6. CASE UseRests(u)
    BY <1>3, <1>5, <1>6 DEF UseRests, Beyond
  <1>7. CASE UseAsks(u)
    <2>1. out /\ record' = record /\ stage'[u] = "asked"
      BY <1>7 DEF UseAsks
    <2>2. record.now.revoked
      BY <2>1 DEF Stored
    <2> QED  BY <1>4, <2>1, <2>2 DEF Beyond, Past
  <1>8. CASE UseReads(u)
    <2>1. promised'[u] = promised[u] /\ stage'[u] = "found" /\ found'[u] = record.now
      BY <1>8 DEF UseReads
    <2> QED  BY <1>3, <1>4, <1>5, <2>1 DEF Beyond, Past
  <1>9. CASE UseEnds(u)
    <2>1. promised'[u] = promised[u] /\ stage'[u] # "found"
      BY <1>9 DEF UseEnds
    <2>2. stage'[u] \in Past => presented[u] > promised[u].secret
      BY <1>3, <1>9, <2>1 DEF UseEnds, Valid, Beyond, Past
    <2> QED  BY <1>5, <2>1, <2>2
  <1> QED  BY <1>6, <1>7, <1>8, <1>9, OthersRest, UseGoes

LEMMA KeysInvAlways == KeysSpec => []KeysInv
  <1>1. ASSUME KeysInv, [KeysNext]_keysVars PROVE KeysInv'
    <2>1. KeysTypeOK /\ Stored /\ Renewed /\ RevokedInKv /\ RevokedInD1
      BY <1>1 DEF KeysInv
    <2> QED
      BY <1>1, <2>1, KeysTypesStep, StoredStep, RenewedStep, RevokedInKvStep, RevokedInD1Step
         DEF KeysInv
  <1>2. KeysInv /\ [KeysNext]_keysVars => KeysInv'
    BY <1>1
  <1> QED  BY KeysInitially, <1>2, PTL DEF KeysSpec

\* The types of the API-key provider, and: no secret is stored that was not
\* put, and D1 reads as it was written.
THEOREM KeysTypes == KeysSpec => []KeysTypeOK
  <1>1. KeysInv => KeysTypeOK
    BY DEF KeysInv
  <1> QED  BY <1>1, KeysInvAlways, PTL

\* A revocation that has returned and reads everywhere is final: on KV for the
\* key, on D1 for the secrets put before it.
THEOREM KeysRevokedIsRefused == KeysSpec => []RevokedIsRefused
  <1>1. ASSUME KeysInv PROVE RevokedIsRefused
    <2> SUFFICES ASSUME NEW u \in Uses, promised[u].out,
                        backend = "d1" => presented[u] <= promised[u].secret
                 PROVE  stage[u] \notin Past
      BY DEF RevokedIsRefused
    <2>1. backend \in {"kv", "d1"} /\ presented[u] \in Nat /\ promised[u].secret \in Nat
      BY <1>1, KeysAssumption DEF KeysInv, KeysTypeOK
    <2>2. CASE backend = "kv"
      BY <1>1, <2>2 DEF KeysInv, RevokedInKv
    <2>3. CASE backend = "d1"
      <3>1. stage[u] \in Past => presented[u] > promised[u].secret
        BY <1>1, <2>3 DEF KeysInv, RevokedInD1, OutKept
      <3> QED  BY <2>1, <2>3, <3>1
    <2> QED  BY <2>1, <2>2, <2>3
  <1>2. KeysInv => RevokedIsRefused
    BY <1>1
  <1> QED  BY <1>2, KeysInvAlways, PTL

\* An older secret is refused once a newer one reads everywhere, whoever
\* records a last use: on D1, and on KV without trackLastUsed.
THEOREM KeysNewSecretOnly == KeysSpec => []NewSecretOnly
  <1>1. KeysInv => NewSecretOnly
    BY DEF KeysInv, Renewed, SecretKept, NewSecretOnly
  <1> QED  BY <1>1, KeysInvAlways, PTL

-----------------------------------------------------------------------------
(* AuthClient: the inductive invariant.                                     *)

\* A caller has a GET from its call on; it is told of no session older than
\* its since by a GET that has been served; and who is answered was answered
\* by one that has settled.
Told(c) ==
    /\ phase[c] = "idle" => awaits[c] = NoGet
    /\ phase[c] # "idle" => awaits[c] \in Gets
    /\ since[c] <= changes
    /\ phase[c] # "idle" /\ onWire[awaits[c]] \in {"served", "settled"} =>
           seen[awaits[c]] >= since[c]
    /\ phase[c] \in {"session", "null"} => onWire[awaits[c]] = "settled"

ClientInv == ClientTypeOK /\ \A c \in Callers : Told(c)

LEMMA ClientInitially == ClientInit => ClientInv
  <1> SUFFICES ASSUME ClientInit PROVE ClientInv
    OBVIOUS
  <1>1. changes \in Nat /\ Unknown \in Int /\ Unknown <= changes
    BY DEF ClientInit, Unknown
  <1>2. ASSUME NEW c \in Callers PROVE Told(c)
    BY <1>1 DEF ClientInit, Told
  <1>3. \A g \in Gets : ~OnTheWire(g) /\ g # inflight
    BY ClientAssumption DEF ClientInit, OnTheWire
  <1>4. ClientTypeOK
    <2>1. changes \in Changes
      BY ClientAssumption DEF ClientInit, Changes
    <2> QED  BY <1>3, <2>1 DEF ClientInit, ClientTypeOK
  <1> QED  BY <1>2, <1>4 DEF ClientInv

\* What a step does to the GETs, and to the callers.
LEMMA ClientStep ==
    ASSUME ClientInv, [ClientNext]_clientVars
    PROVE  ClientInv'
  <1> USE DEF gets
  <1>t. /\ changes \in Nat /\ changes \in Changes /\ Unknown \in Int
        /\ onWire \in [Gets -> {"unsent", "out", "served", "settled", "failed"}]
        /\ seen \in [Gets -> Changes \cup {Unknown}]
        /\ inflight \in Gets \cup {NoGet} /\ read \subseteq Gets
        /\ \A g \in Gets : OnTheWire(g) <=> g = inflight
        /\ awaits \in [Callers -> Gets \cup {NoGet}]
        /\ phase \in [Callers -> {"idle", "waits", "session", "null", "rejected", "body used"}]
        /\ since \in [Callers -> Changes \cup {Unknown}]
        /\ Changes \subseteq Nat /\ NoGet \notin Gets
    <2>1. Changes \subseteq Nat /\ Unknown \in Int /\ NoGet \notin Gets
      BY ClientAssumption DEF Changes, Unknown
    <2>2. ClientTypeOK
      BY DEF ClientInv
    <2> QED  BY <2>1, <2>2 DEF ClientTypeOK
  <1>i. changes \in Nat /\ \A c \in Callers : since[c] \in Int
    <2>1. Changes \cup {Unknown} \subseteq Int /\ Changes \subseteq Nat
      BY DEF Changes, Unknown
    <2>2. since \in [Callers -> Changes \cup {Unknown}] /\ changes \in Changes
      BY DEF ClientInv, ClientTypeOK
    <2> QED  BY <2>1, <2>2
  <1>o. \A c \in Callers : Told(c)
    BY DEF ClientInv
  <1>1. ASSUME NEW c \in Callers, NEW g \in Gets, Send(c, g) PROVE ClientInv'
    <2>0. /\ phase[c] = "idle" /\ inflight = NoGet /\ onWire[g] = "unsent"
          /\ onWire' = [onWire EXCEPT ![g] = "out"] /\ inflight' = g
          /\ awaits' = [awaits EXCEPT ![c] = g] /\ phase' = [phase EXCEPT ![c] = "waits"]
          /\ since' = [since EXCEPT ![c] = changes] /\ UNCHANGED <<changes, seen, read>>
      BY <1>1 DEF Send
    <2>1. /\ onWire' \in [Gets -> {"unsent", "out", "served", "settled", "failed"}]
          /\ awaits' \in [Callers -> Gets \cup {NoGet}]
          /\ phase' \in [Callers -> {"idle", "waits", "session", "null", "rejected", "body used"}]
          /\ since' \in [Callers -> Changes \cup {Unknown}]
      BY <1>t, <2>0
    <2>2. \A h \in Gets : OnTheWire(h)' <=> h = inflight'
      BY <1>t, <2>0 DEF OnTheWire
    <2>3. ClientTypeOK'
      BY <1>t, <2>0, <2>1, <2>2 DEF ClientTypeOK
    <2>4. Told(c)'
      <3>1. /\ phase'[c] = "waits" /\ awaits'[c] = g /\ since'[c] = changes
            /\ onWire'[g] = "out"
        BY <1>t, <2>0
      <3> QED  BY <1>i, <2>0, <3>1 DEF Told
    <2>5. ASSUME NEW d \in Callers, d # c PROVE Told(d)'
      <3>1. phase'[d] = phase[d] /\ awaits'[d] = awaits[d] /\ since'[d] = since[d]
        BY <1>t, <2>0, <2>5
      <3>2. Told(d)
        BY <1>o
      <3> QED  BY <1>t, <2>0, <3>1, <3>2 DEF Told
    <2> QED  BY <2>3, <2>4, <2>5 DEF ClientInv
  <1>2. ASSUME NEW c \in Callers, Join(c) PROVE ClientInv'
    <2>0. /\ phase[c] = "idle" /\ inflight # NoGet /\ UNCHANGED <<changes, gets>>
          /\ awaits' = [awaits EXCEPT ![c] = inflight]
          /\ phase' = [phase EXCEPT ![c] = "waits"]
      BY <1>2 DEF Join
    <2>1. PICK d \in Callers :
            /\ awaits[d] = inflight
            /\ since' = [since EXCEPT ![c] = IF OnTheWire(inflight) THEN since[d] ELSE changes]
      BY <1>2 DEF Join
    <2>2. inflight \in Gets /\ OnTheWire(inflight) /\ since' = [since EXCEPT ![c] = since[d]]
      BY <1>t, <2>0, <2>1
    <2>3. /\ awaits' \in [Callers -> Gets \cup {NoGet}]
          /\ phase' \in [Callers -> {"idle", "waits", "session", "null", "rejected", "body used"}]
          /\ since' \in [Callers -> Changes \cup {Unknown}]
      BY <1>t, <2>0, <2>2
    <2>4. \A g \in Gets : OnTheWire(g)' <=> OnTheWire(g)
      BY <2>0 DEF OnTheWire
    <2>5. ClientTypeOK'
      BY <1>t, <2>0, <2>3, <2>4 DEF ClientTypeOK
    <2>6. Told(c)'
      <3>1. /\ phase'[c] = "waits" /\ awaits'[c] = inflight /\ since'[c] = since[d]
        BY <1>t, <2>0, <2>2
      <3>2. /\ since[d] <= changes
            /\ onWire[inflight] \in {"served", "settled"} => seen[inflight] >= since[d]
        BY <1>t, <1>o, <2>1, <2>2 DEF Told
      <3> QED  BY <2>0, <2>2, <3>1, <3>2 DEF Told
    <2>7. ASSUME NEW e \in Callers, e # c PROVE Told(e)'
      <3>1. phase'[e] = phase[e] /\ awaits'[e] = awaits[e] /\ since'[e] = since[e]
        BY <1>t, <2>0, <2>2, <2>7
      <3>2. Told(e)
        BY <1>o
      <3> QED  BY <2>0, <3>1, <3>2 DEF Told
    <2> QED  BY <2>5, <2>6, <2>7 DEF ClientInv
  <1>3. ASSUME NEW g \in Gets, Serve(g) PROVE ClientInv'
    <2>0. /\ onWire[g] = "out" /\ onWire' = [onWire EXCEPT ![g] = "served"]
          /\ seen' = [seen EXCEPT ![g] = changes]
          /\ UNCHANGED <<changes, inflight, read, awaits, phase, since>>
      BY <1>3 DEF Serve
    <2>1. \A h \in Gets : OnTheWire(h)' <=> OnTheWire(h)
      BY <1>t, <2>0 DEF OnTheWire
    <2>2. /\ onWire' \in [Gets -> {"unsent", "out", "served", "settled", "failed"}]
          /\ seen' \in [Gets -> Changes \cup {Unknown}]
      BY <1>t, <2>0
    <2>3. ClientTypeOK'
      BY <1>t, <2>0, <2>1, <2>2 DEF ClientTypeOK
    <2>4. ASSUME NEW c \in Callers PROVE Told(c)'
      <3>1. Told(c) /\ since[c] \in Int
        BY <1>i, <1>o
      <3>2. CASE awaits[c] = g
        BY <1>t, <2>0, <3>1, <3>2 DEF Told
      <3>3. CASE awaits[c] # g
        BY <1>t, <2>0, <3>1, <3>3 DEF Told
      <3> QED  BY <3>2, <3>3
    <2> QED  BY <2>3, <2>4 DEF ClientInv
  <1>4. ASSUME NEW g \in Gets, Settle(g) PROVE ClientInv'
    <2>0. PICK to \in {"settled", "failed"} :
            /\ onWire' = [onWire EXCEPT ![g] = to]
            /\ OnTheWire(g) /\ (to = "settled" => onWire[g] = "served")
      BY <1>4 DEF Settle, OnTheWire
    <2>1. inflight' = NoGet /\ UNCHANGED <<changes, seen, read, awaits, phase, since>>
      BY <1>4 DEF Settle, AfterSettling
    <2>2. /\ onWire' \in [Gets -> {"unsent", "out", "served", "settled", "failed"}]
          /\ \A h \in Gets : ~OnTheWire(h)' /\ h # NoGet
      BY <1>t, <2>0 DEF OnTheWire
    <2>3. ClientTypeOK'
      BY <1>t, <2>1, <2>2 DEF ClientTypeOK
    <2>4. ASSUME NEW c \in Callers PROVE Told(c)'
      <3>1. Told(c)
        BY <1>o
      <3>2. onWire[g] \in {"out", "served"}
        BY <2>0 DEF OnTheWire
      <3> QED  BY <1>t, <2>0, <2>1, <3>1, <3>2 DEF Told
    <2> QED  BY <2>3, <2>4 DEF ClientInv
  <1>5. ASSUME NEW c \in Callers, Reject(c) \/ ReturnNull(c) \/ ReadBody(c) PROVE ClientInv'
    <2>0. PICK to \in {"rejected", "null", "session", "body used"} :
            /\ phase' = [phase EXCEPT ![c] = to] /\ phase[c] = "waits"
            /\ to \in {"null", "session"} => onWire[awaits[c]] = "settled"
            /\ UNCHANGED <<changes, onWire, seen, inflight, awaits, since>>
      BY <1>5 DEF Reject, ReturnNull, ReadBody
    <2>1. read' \subseteq Gets
      <3>1. awaits[c] \in Gets
        BY <1>o, <2>0 DEF Told
      <3> QED  BY <1>5, <1>t, <3>1 DEF Reject, ReturnNull, ReadBody
    <2>2. /\ phase' \in [Callers -> {"idle", "waits", "session", "null", "rejected", "body used"}]
          /\ \A g \in Gets : OnTheWire(g)' <=> OnTheWire(g)
      BY <1>t, <2>0 DEF OnTheWire
    <2>3. ClientTypeOK'
      BY <1>t, <2>0, <2>1, <2>2 DEF ClientTypeOK
    <2>4. ASSUME NEW d \in Callers PROVE Told(d)'
      <3>1. Told(d) /\ phase'[d] = IF d = c THEN to ELSE phase[d]
        BY <1>t, <1>o, <2>0
      <3> QED  BY <2>0, <3>1 DEF Told
    <2> QED  BY <2>3, <2>4 DEF ClientInv
  <1>6. CASE Change \/ UNCHANGED clientVars
    <2>0. UNCHANGED <<onWire, seen, inflight, read, awaits, phase, since>>
      BY <1>6 DEF Change, clientVars
    <2>1. /\ changes' \in Changes /\ changes <= changes' /\ changes' \in Nat
          /\ UNCHANGED <<onWire, seen, inflight, read, awaits, phase, since>>
      <3>1. CASE Change
        BY <1>i, <2>0, <3>1, ClientAssumption DEF Change, Changes
      <3>2. CASE UNCHANGED clientVars
        <4>1. changes' = changes /\ changes \in Changes
          BY <1>t, <3>2 DEF clientVars
        <4> QED  BY <1>i, <2>0, <4>1
      <3> QED  BY <1>6, <3>1, <3>2
    <2>2. ClientTypeOK'
      BY <1>t, <2>1 DEF ClientTypeOK, OnTheWire
    <2>3. ASSUME NEW c \in Callers PROVE Told(c)'
      <3>1. Told(c) /\ since[c] \in Int
        BY <1>i, <1>o
      <3>2. since[c] <= changes'
        BY <1>i, <2>1, <3>1 DEF Told
      <3> QED  BY <2>0, <3>1, <3>2 DEF Told
    <2> QED  BY <2>2, <2>3 DEF ClientInv
  <1> QED
    BY <1>1, <1>2, <1>3, <1>4, <1>5, <1>6 DEF ClientNext, Session

LEMMA ClientInvAlways == ClientSpec => []ClientInv
  <1>1. ClientInv /\ [ClientNext]_clientVars => ClientInv'
    BY ClientStep
  <1> QED  BY ClientInitially, <1>1, PTL DEF ClientSpec

\* The types of the client, and: its map holds the GET on the wire and nothing
\* else.
THEOREM ClientTypes == ClientSpec => []ClientTypeOK
  <1>1. ClientInv => ClientTypeOK
    BY DEF ClientInv
  <1> QED  BY <1>1, ClientInvAlways, PTL

\* session() is told of no session older than its call, or than the request
\* that was on the wire when it called.
THEOREM ClientRemembersNothing == ClientSpec => []NothingRemembered
  <1>1. ASSUME ClientInv PROVE NothingRemembered
    <2> SUFFICES ASSUME NEW c \in Callers, phase[c] \in {"session", "null"}
                 PROVE  seen[awaits[c]] >= since[c]
      BY DEF NothingRemembered
    <2>1. Told(c)
      BY <1>1 DEF ClientInv
    <2> QED  BY <2>1 DEF Told
  <1>2. ClientInv => NothingRemembered
    BY <1>1
  <1> QED  BY <1>2, ClientInvAlways, PTL

-----------------------------------------------------------------------------
(* The four together.                                                       *)

\* A behaviour of MCRequests is one of each part: the parts share no state, and
\* the ones that are not under test rest.
THEOREM EachPartAlone == MCSpec => Spec /\ JwksSpec /\ KeysSpec /\ ClientSpec
  <1>1. MCInit => Init /\ JwksInit /\ KeysInit /\ ClientInit
    BY DEF MCInit
  <1>2. [MCNext]_allVars => [Next]_vars
    BY DEF MCNext, allVars
  <1>3. [MCNext]_allVars => [JwksNext]_jwksVars
    BY DEF MCNext, allVars
  <1>4. [MCNext]_allVars => [KeysNext]_keysVars
    BY DEF MCNext, allVars
  <1>5. [MCNext]_allVars => [ClientNext]_clientVars
    BY DEF MCNext, allVars
  <1> QED
    BY <1>1, <1>2, <1>3, <1>4, <1>5, PTL DEF MCSpec, Spec, JwksSpec, KeysSpec, ClientSpec

\* The four type invariants: among them that an unknown kid lets nobody in and
\* that the client's map is empty whenever nothing is on the wire.
THEOREM RequestsTypes == MCSpec => []TypesOK
  <1>1. TypeOK /\ JwksTypeOK /\ KeysTypeOK /\ ClientTypeOK => TypesOK
    BY DEF TypesOK
  <1> QED
    BY <1>1, EachPartAlone, SignInTypes, JwksTypes, KeysTypes, ClientTypes, PTL
=============================================================================
