\* One session, two requests for it and one revocation of either kind, over a
\* lifetime and beyond; with and without a revocation list.
SPECIFICATION FairSpec
CONSTANTS
    Sids = {s1}
    Gets = {g1, g2}
    Revokers = {r1}
    Isolates = {i1}
    AbsoluteTtl = 3
    IdleTtl = 2
    TouchInterval = 1
    TouchThrottle = 1
    TouchGuardMax = 1
    TombstoneFallback = 3
    MaxSessionLifetime = 3
    MaxTime = 5
INVARIANT TypeOK
PROPERTIES
    Implements
    NoResurrection
    LogoutSticks
CHECK_DEADLOCK FALSE
