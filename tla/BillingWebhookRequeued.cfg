SPECIFICATION Spec
CONSTANTS
    Events = {e1}
    Workers = {w1, w2}
    Operators = {o1, o2}
    Others = {}
    MaxAttempts = 1
    MaxRequeues = 2
    MaxDeaths = 0
INVARIANT
    OneWorkerPerEvent
CHECK_DEADLOCK FALSE
