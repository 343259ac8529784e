\* The circuit breaker and the per-IP limits: three verifies, one code.
SPECIFICATION Spec
CONSTANTS
    Starts = {s1}
    Verifies = {v1, v2, v3}
    Devices = {}
    Address = Address
    Codes = {c1, c2}
    NoCode = NoCode
    NoReq = NoReq
    Ips = {i1}
    RequireClientIp = FALSE
    MaxPerEmail = 3
    MaxPerDevice = 1
    FailureWindow = 2
    CodeMaxAttempts = 3
    CodeTtl = 2
    Cooldown = 1
    HourlyCodes = 1
    Hour = 2
    StartsPerIp = 2
    VerifiesPerIp = 2
    CircuitBreaker = TRUE
    MinFailures = 2
    RatioPercent = 50
    BreakerWindow = 2
    CleanupTimes = {2}
    Horizon = 2
    MaxLatency = 1
    MaxClock = 2
SYMMETRY Symmetry
INVARIANTS
    BreakerExact
CHECK_DEADLOCK FALSE
