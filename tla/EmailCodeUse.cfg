\* The code row: two starts write it, three verifies race for it with two
\* attempts per lifetime; the second start may come in or after the lifetime.
SPECIFICATION Spec
CONSTANTS
    Starts = {s1, s2}
    Verifies = {v1, v2, v3}
    Devices = {}
    Address = Address
    Codes = {c1, c2}
    NoCode = NoCode
    NoReq = NoReq
    Ips = {}
    RequireClientIp = FALSE
    MaxPerEmail = 3
    MaxPerDevice = 2
    FailureWindow = 2
    CodeMaxAttempts = 2
    CodeTtl = 2
    Cooldown = 1
    HourlyCodes = 2
    Hour = 2
    StartsPerIp = 1
    VerifiesPerIp = 1
    CircuitBreaker = FALSE
    MinFailures = 1
    RatioPercent = 50
    BreakerWindow = 1
    CleanupTimes = {2}
    Horizon = 3
    MaxLatency = 1
    MaxClock = 2
SYMMETRY Symmetry
INVARIANTS
    SingleUse
    VerifiedByItsCode
    AttemptsPerLifetime
CHECK_DEADLOCK FALSE
