SPECIFICATION Spec
CONSTANTS
    Clients = {c1, c2}
    Nobody = nobody
    MaxSessions = 2
    MaxMoves = 2
    MaxCounts = 2
    Ops = {"sale", "movement", "count", "approve", "close", "policy"}
SYMMETRY ClientSymmetry
INVARIANT TypeOK
PROPERTIES CloseReconciles CountTellsExpectedCash
CHECK_DEADLOCK FALSE
