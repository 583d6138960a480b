SPECIFICATION Spec
CONSTANTS
    Requests = {r1}
    Keys = {k1}
    Providers = {"adyen"}
    Captured = 2
INVARIANT LateFailureStands
CHECK_DEADLOCK FALSE
