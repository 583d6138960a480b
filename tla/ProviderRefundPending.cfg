SPECIFICATION Spec
CONSTANTS
    Requests = {r1}
    Keys = {k1}
    Providers = {"stripe"}
    Captured = 2
INVARIANT SucceededWasPaid
CHECK_DEADLOCK FALSE
