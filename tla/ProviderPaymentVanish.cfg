SPECIFICATION Spec
CONSTANTS
    Keys = {k1, k2}
    Clients = {c1, c2}
    NoKey = NoKey
    Total = 2
    Amounts = {1}
    MaxVersion = 4
    Faults = {"refusal"}
SYMMETRY ProviderSymmetry
INVARIANTS
    NoCaptureDisappears
CHECK_DEADLOCK FALSE
