\* Sending codes: three starts on the budgets of the address and of a device,
\* over one hourly window and its end.
SPECIFICATION Spec
CONSTANTS
    Starts = {s1, s2, s3}
    Verifies = {}
    Devices = {d1}
    Address = Address
    Codes = {c1}
    NoCode = NoCode
    NoReq = NoReq
    Ips = {}
    RequireClientIp = FALSE
    MaxPerEmail = 3
    MaxPerDevice = 2
    FailureWindow = 2
    CodeMaxAttempts = 2
    CodeTtl = 2
    Cooldown = 2
    HourlyCodes = 2
    Hour = 5
    StartsPerIp = 1
    VerifiesPerIp = 1
    CircuitBreaker = FALSE
    MinFailures = 1
    RatioPercent = 50
    BreakerWindow = 1
    CleanupTimes = {6}
    Horizon = 6
    MaxLatency = 1
    MaxClock = 6
SYMMETRY Symmetry
INVARIANTS
    CooldownSpacing
    HourlyCap
CHECK_DEADLOCK FALSE
