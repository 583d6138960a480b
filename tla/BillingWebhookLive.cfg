SPECIFICATION LiveSpec
CONSTANTS
    Events = {e1}
    Workers = {w1, w2}
    Operators = {o1, o2}
    Others = {}
    MaxAttempts = 2
    MaxRequeues = 2
    MaxDeaths = 1
INVARIANT
    OneWorkerUnlessOverrun
PROPERTY
    EventsSettle
CHECK_DEADLOCK FALSE
