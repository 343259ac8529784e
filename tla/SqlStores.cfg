\* Session stores: one session, two requests for it and one revocation of
\* either kind, over a lifetime and beyond.  Devices: two PIN changes, a
\* revoke-all, one login and one reset on an account with two devices.
SPECIFICATION MCSpec
CONSTANTS
    Sids = {s1}
    Gets = {g1, g2}
    Revokers = {r1}
    AbsoluteTtl = 3
    IdleTtl = 2
    TouchInterval = 1
    MaxSessionLifetime = 3
    MaxTime = 5
    Changes = {c1, c2}
    RevokeAlls = {a1}
    Logins = {l1}
    Resets = {t1}
    Devices = {d1, d2}
    OldPin = OldPin
    Nobody = Nobody
    PinMaxAttempts = 1
    RevokeOthersOnChange = TRUE
INVARIANTS
    TypesOK
    NoChangeCollides
    OnePin
    RevokedOnce
    ChargedOnce
    ResetsTellAll
PROPERTIES
    Implements
    NoRevival
    DevicesGoWithThePin
CHECK_DEADLOCK FALSE
