SPECIFICATION Spec
CONSTANTS
    Callers = {c1, c2, c3}
    Procs = {p1, p2}
    Payloads = {h1, h2}
    Nobody = nobody
    Faults = {"expire", "crash"}
SYMMETRY IdempotencySymmetry
INVARIANT OneClaimantExecutes
CHECK_DEADLOCK FALSE
