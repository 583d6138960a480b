SPECIFICATION Spec
CONSTANTS
    Guests = {g1, g2}
    Calls = {c1, c2}
    Checks = {k1, k2}
    NoCheck = NoCheck
    Kinds <- StaffKinds
    Required = 2
    MaxAttempts = 2
SYMMETRY DepositSymmetry
INVARIANTS
    AllTillCreditWasPaid
CHECK_DEADLOCK FALSE
