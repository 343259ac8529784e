\* A login on the kept device, under way while the PIN is changed.
SPECIFICATION Spec
CONSTANTS
    Emails = {e1}
    Logins = {l1}
    PinSets = {p1, p2}
    RevokeAlls = {}
    NoDevice = NoDevice
    NoCred = NoCred
    PinMaxAttempts = 2
    RevokeOthersOnChange = TRUE
INVARIANTS
    NewPinOnly
CHECK_DEADLOCK FALSE
