\* Two calls of session() that may share one GET; the default fetch.
SPECIFICATION ClientSpec
CONSTANTS
    Callers = {c1, c2}
    Gets = {g1, g2}
    NoGet = NoGet
    MaxChanges = 3
INVARIANT AllAreTold
CHECK_DEADLOCK FALSE
