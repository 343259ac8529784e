\* Three requests for one session around the end of its idle window.
SPECIFICATION Spec
CONSTANTS
    Sids = {s1}
    Gets = {g1, g2, g3}
    Revokers = {}
    Isolates = {i1}
    AbsoluteTtl = 3
    IdleTtl = 2
    TouchInterval = 1
    TouchThrottle = 1
    TouchGuardMax = 1
    TombstoneFallback = 3
    MaxSessionLifetime = 3
    MaxTime = 4
INVARIANT SecondGetsNull
CHECK_DEADLOCK FALSE
