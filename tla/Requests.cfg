\* Two requests, or calls of the client; one earlier session of any kind and one
\* magic link; one rotation of the issuer's keys, one clear of the cache; two
\* puts of an API key; one sign-in or sign-out, and another.
SPECIFICATION MCSpec
CONSTANTS
    Requests = {r1, r2}
    Earlier = {s1}
    Links = {l1}
    None = None
    DeviceBound = FALSE
    Verifies = {v1, v2}
    Uses = {r1, r2}
    Callers = {r1, r2}
    k1 = k1
    k2 = k2
    v1 = v1
    v2 = v2
    Docs <- OneRotation
    Ttl = 1
    MinRefetch = 1
    MaxClears = 1
    MaxTime = 2
    MaxPuts = 2
    Gets = {g1, g2}
    NoGet = NoGet
    MaxChanges = 3
SYMMETRY Symmetry
INVARIANTS
    TypesOK
    LinkSignsInOnce
    OutIsOut
    RefusedChangesNothing
    ClearedIsGone
    RevokedIsRefused
    NewSecretOnly
    NothingRemembered
PROPERTIES
    TransportsApart
    NullHasReason
    FreshKeysSpareIssuer
    EveryoneIsAnswered
CHECK_DEADLOCK FALSE
