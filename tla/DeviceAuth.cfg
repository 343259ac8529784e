\* Two email verifications (so two devices), two logins against one attempt,
\* two PIN changes that sign the other devices out, one revoke-all.
SPECIFICATION Spec
CONSTANTS
    Emails = {e1, e2}
    Logins = {l1, l2}
    PinSets = {p1, p2}
    RevokeAlls = {a1}
    NoDevice = NoDevice
    NoCred = NoCred
    PinMaxAttempts = 1
    RevokeOthersOnChange = TRUE
SYMMETRY Symmetry
INVARIANTS
    TypeOK
    PinGuessCap
    LockIsEarned
    PutOutStaysOut
CHECK_DEADLOCK FALSE
