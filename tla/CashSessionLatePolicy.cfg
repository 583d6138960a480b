SPECIFICATION Spec
CONSTANTS
    Clients = {c1, c2}
    Nobody = nobody
    MaxSessions = 1
    MaxMoves = 2
    MaxCounts = 2
    Ops = {"sale", "movement", "count", "approve", "close", "policy"}
SYMMETRY ClientSymmetry
PROPERTY CloseWithinThreshold
CHECK_DEADLOCK FALSE
