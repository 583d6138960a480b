SPECIFICATION Spec
CONSTANTS
    Keys = {k1, k2}
    Clients = {c1, c2}
    NoKey = NoKey
    Total = 2
    Amounts = {1}
    MaxVersion = 4
    Faults = {"crash", "otherTender", "supersede"}
SYMMETRY ProviderSymmetry
INVARIANTS
    TypeOK
    RecordedOnce
    RecordedIsCaptured
    ChargedOncePerKey
    NoCaptureDisappears
CHECK_DEADLOCK FALSE
