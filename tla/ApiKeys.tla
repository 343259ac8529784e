-------------------------------- MODULE ApiKeys --------------------------------
(***************************************************************************)
(* One API key (src/src/providers/api-key.ts) in its KV or its D1 store:   *)
(* verifications that may record the key's last use, while the key is put  *)
(* again with another secret and revoked.                                  *)
(*                                                                         *)
(* KV is eventually consistent: a read may return any value a key has had  *)
(* since its replicas last agreed (as in KvSessions).  D1 is not.          *)
(***************************************************************************)
EXTENDS Integers

CONSTANTS
    Uses,    \* verifications
    MaxPuts  \* how often the key is put; each put brings a secret of its own

ASSUME KeysAssumption == MaxPuts \in Nat

VARIABLES
    backend,      \* "kv" or "d1"
    track,        \* trackLastUsed
    puts,         \* the last secret put
    record,       \* apikey:<id>, or the row: what was written last, what reads return
    revocation,   \* apikey:revoked:<id>, likewise
    presented,    \* the secret a verification presents
    found,        \* the record it has read
    foundRevoked, \* what it has read of the revocation
    stage,        \* where it is
    out,          \* history: has a revoke returned, and (D1) no put since?
    promised      \* history: what held when a verification began

keys == <<record, revocation>>
finds == <<found, foundRevoked>>
keysVars == <<backend, track, puts, keys, presented, finds, stage, out, promised>>

NoRecord == [secret |-> 0, revoked |-> FALSE]
Records == [secret : 0..MaxPuts, revoked : BOOLEAN]

Key(value) == [now |-> value, reads |-> {value}]
Written(key, value) ==
    [now |-> value, reads |-> IF backend = "kv" THEN key.reads \cup {value} ELSE {value}]
Converged(key) == key.reads = {key.now}

KeysInit ==
    /\ backend \in {"kv", "d1"}
    /\ track \in BOOLEAN
    /\ puts = 0
    /\ record = Key(NoRecord)
    /\ revocation = Key(FALSE)
    /\ presented \in [Uses -> 1..MaxPuts]
    /\ found = [u \in Uses |-> NoRecord]
    /\ foundRevoked = [u \in Uses |-> FALSE]
    /\ stage = [u \in Uses |-> "idle"]
    /\ out = FALSE
    /\ promised = [u \in Uses |-> [out |-> FALSE, secret |-> 0]]

---------------------------------------------------------------------------
\* The store's owner: issueApiKey and put, revoke.

\* On D1 a put overwrites revoked_at, on KV it leaves the revocation alone.
Put ==
    /\ puts < MaxPuts
    /\ puts' = puts + 1
    /\ record' = Written(record, [secret |-> puts + 1, revoked |-> FALSE])
    /\ out' = (out /\ backend = "kv")
    /\ UNCHANGED <<backend, track, revocation, presented, finds, stage, promised>>

\* KV writes a key of its own, blind: before there is a record, or again.  D1
\* sets revoked_at of a row that is there and has none.
InItsOwnKeyMutant == FALSE
InItsOwnKey == backend = "kv"

WriteRevocation ==
    /\ InItsOwnKey
    /\ revocation' = Written(revocation, TRUE)
    /\ UNCHANGED record

RevokeRow ==
    /\ ~InItsOwnKey
    /\ record.now # NoRecord /\ ~record.now.revoked
    /\ record' = Written(record, [record.now EXCEPT !.revoked = TRUE])
    /\ UNCHANGED revocation

Revoke ==
    /\ WriteRevocation \/ RevokeRow
    /\ out' = TRUE
    /\ UNCHANGED <<backend, track, puts, presented, finds, stage, promised>>

PropagateRecord ==
    /\ ~Converged(record)
    /\ record' = Key(record.now)
    /\ UNCHANGED <<backend, track, puts, revocation, presented, finds, stage, out, promised>>

PropagateRevocation ==
    /\ ~Converged(revocation)
    /\ revocation' = Key(revocation.now)
    /\ UNCHANGED <<backend, track, puts, record, presented, finds, stage, out, promised>>

---------------------------------------------------------------------------
\* verify

Settled == Converged(record) /\ Converged(revocation)

Ask(u) ==
    /\ stage[u] = "idle"
    /\ stage' = [stage EXCEPT ![u] = "asked"]
    /\ promised' = [promised EXCEPT ![u] =
           [out |-> out /\ Settled, secret |-> IF Settled THEN puts ELSE 0]]
    /\ UNCHANGED <<backend, track, puts, keys, presented, finds, out>>

\* findById: on KV two reads at once, which may be served in either order.
ReadBoth(u) ==
    /\ stage[u] = "asked"
    /\ backend = "d1"
    /\ found' = [found EXCEPT ![u] = record.now]
    /\ stage' = [stage EXCEPT ![u] = "found"]
    /\ UNCHANGED <<backend, track, puts, keys, presented, foundRevoked, out, promised>>

ReadRecord(u) ==
    /\ stage[u] \in {"asked", "has revocation"}
    /\ backend = "kv"
    /\ \E r \in record.reads : found' = [found EXCEPT ![u] = r]
    /\ stage' = [stage EXCEPT ![u] = IF @ = "asked" THEN "has record" ELSE "found"]
    /\ UNCHANGED <<backend, track, puts, keys, presented, foundRevoked, out, promised>>

ReadRevocation(u) ==
    /\ stage[u] \in {"asked", "has record"}
    /\ backend = "kv"
    /\ \E r \in revocation.reads : foundRevoked' = [foundRevoked EXCEPT ![u] = r]
    /\ stage' = [stage EXCEPT ![u] = IF @ = "asked" THEN "has revocation" ELSE "found"]
    /\ UNCHANGED <<backend, track, puts, keys, presented, found, out, promised>>

\* "A revocation of either kind": the record's own counts on KV too.
Valid(u) ==
    /\ found[u].secret = presented[u]
    /\ ~foundRevoked[u]
    /\ ~found[u].revoked

Refuse(u) ==
    /\ stage[u] = "found"
    /\ stage' = [stage EXCEPT ![u] = "null"]  \* also past its expiry, or of another env
    /\ UNCHANGED <<backend, track, puts, keys, presented, finds, out, promised>>

Accept(u) ==
    /\ stage[u] = "found"
    /\ Valid(u)
    /\ stage' = [stage EXCEPT ![u] = IF track THEN "touch" ELSE "accepted"]
    /\ UNCHANGED <<backend, track, puts, keys, presented, finds, out, promised>>

\* touch on D1: last_used_at alone.
TouchedRowMutant(u) == found[u]
TouchedRow(u) == record.now

TouchRow(u) ==
    /\ stage[u] = "touch"
    /\ backend = "d1"
    /\ record' = Written(record, TouchedRow(u))
    /\ stage' = [stage EXCEPT ![u] = "accepted"]
    /\ UNCHANGED <<backend, track, puts, revocation, presented, finds, out, promised>>

\* touch on KV: the record is read, and written back as it was read.
TouchRead(u) ==
    /\ stage[u] = "touch"
    /\ backend = "kv"
    /\ \E r \in record.reads :
           /\ found' = [found EXCEPT ![u] = r]
           /\ stage' = [stage EXCEPT ![u] = IF r = NoRecord THEN "accepted" ELSE "write"]
    /\ UNCHANGED <<backend, track, puts, keys, presented, foundRevoked, out, promised>>

TouchWrite(u) ==
    /\ stage[u] = "write"
    /\ record' = Written(record, found[u])
    /\ stage' = [stage EXCEPT ![u] = "accepted"]
    /\ UNCHANGED <<backend, track, puts, revocation, presented, finds, out, promised>>

\* "Usage tracking must never fail a valid request"; findById may.
StoreThrows(u) ==
    /\ \/ /\ stage[u] \in {"asked", "has record", "has revocation"}
          /\ stage' = [stage EXCEPT ![u] = "threw"]
       \/ /\ stage[u] \in {"touch", "write"}
          /\ stage' = [stage EXCEPT ![u] = "accepted"]
    /\ UNCHANGED <<backend, track, puts, keys, presented, finds, out, promised>>

Verify(u) ==
    \/ Ask(u) \/ ReadBoth(u) \/ ReadRecord(u) \/ ReadRevocation(u)
    \/ Refuse(u) \/ Accept(u) \/ TouchRow(u) \/ TouchRead(u) \/ TouchWrite(u) \/ StoreThrows(u)

KeysNext ==
    \/ Put \/ Revoke \/ PropagateRecord \/ PropagateRevocation
    \/ \E u \in Uses : Verify(u)

KeysSpec == KeysInit /\ [][KeysNext]_keysVars

---------------------------------------------------------------------------
Stages == {"idle", "asked", "has record", "has revocation", "found", "touch", "write",
           "accepted", "null", "threw"}
Past == {"touch", "write", "accepted"}

(* Types; nothing that was not put is ever stored, and D1 has one answer.    *)
KeysTypeOK ==
    /\ backend \in {"kv", "d1"}
    /\ track \in BOOLEAN
    /\ puts \in 0..MaxPuts
    /\ record \in [now : Records, reads : SUBSET Records]
    /\ \A r \in record.reads : r.secret <= puts
    /\ revocation \in [now : BOOLEAN, reads : SUBSET BOOLEAN]
    /\ backend = "d1" => Settled
    /\ presented \in [Uses -> 1..MaxPuts]
    /\ found \in [Uses -> Records]
    /\ foundRevoked \in [Uses -> BOOLEAN]
    /\ stage \in [Uses -> Stages]
    /\ out \in BOOLEAN
    /\ promised \in [Uses -> [out : BOOLEAN, secret : 0..MaxPuts]]

(* Once a revocation has returned and reads everywhere, what it revoked is   *)
(* refused, whatever writes of a last use were on their way; on KV whatever  *)
(* is put later is refused too ("Since revoke() never reads the record,      *)
(* there is nothing left for it to race", kvApiKeyStore).                    *)
RevokedIsRefused ==
    \A u \in Uses :
        (promised[u].out /\ (backend = "d1" => presented[u] <= promised[u].secret)) =>
            stage[u] \notin Past

(* Once a key has been put with a new secret, and reads so everywhere, an    *)
(* older secret is refused: recording the last use brings none back.  KV     *)
(* keeps this only without trackLastUsed: its touch writes the whole record. *)
NewSecretOnly ==
    \A u \in Uses :
        (stage[u] \in Past /\ (backend = "d1" \/ ~track)) =>
            presented[u] >= promised[u].secret
=============================================================================
