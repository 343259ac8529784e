\* A right PIN among concurrent logins that lock the account.
SPECIFICATION Spec
CONSTANTS
    Emails = {e1}
    Logins = {l1, l2, l3}
    PinSets = {p1}
    RevokeAlls = {}
    NoDevice = NoDevice
    NoCred = NoCred
    PinMaxAttempts = 2
    RevokeOthersOnChange = FALSE
PROPERTIES
    OnlyEmailUnlocks
CHECK_DEADLOCK FALSE
