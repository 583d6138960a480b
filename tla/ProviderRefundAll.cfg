SPECIFICATION Spec
CONSTANTS
    Requests = {r1, r2, r3}
    Keys = {k1, k2}
    Providers = {"stripe", "adyen"}
    Captured = 2
SYMMETRY RefundSymmetry
INVARIANTS
    TypeOK SucceededWasConfirmed PaidRefundStaysVisible AskedOncePerKey
CHECK_DEADLOCK FALSE
