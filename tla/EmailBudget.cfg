\* The failure budgets of one address and one device: three verifies (more
\* than a budget of two), one code, the window ending while requests run.
SPECIFICATION Spec
CONSTANTS
    Starts = {s1}
    Verifies = {v1, v2, v3}
    Devices = {d1}
    Address = Address
    Codes = {c1, c2}
    NoCode = NoCode
    NoReq = NoReq
    Ips = {}
    RequireClientIp = FALSE
    MaxPerEmail = 2
    MaxPerDevice = 1
    FailureWindow = 3
    CodeMaxAttempts = 3
    CodeTtl = 2
    Cooldown = 1
    HourlyCodes = 1
    Hour = 1
    StartsPerIp = 1
    VerifiesPerIp = 1
    CircuitBreaker = FALSE
    MinFailures = 1
    RatioPercent = 50
    BreakerWindow = 1
    CleanupTimes = {3}
    Horizon = 3
    MaxLatency = 1
    MaxClock = 3
SYMMETRY Symmetry
INVARIANTS
    TypeOK
    BudgetExact
    GuessCap
    WindowsApart
    NoCodeCostsNothing
CHECK_DEADLOCK FALSE
