SPECIFICATION Spec
CONSTANTS
    Events = {e1, e2}
    Workers = {w1, w2}
    Operators = {o1}
    Others = {"cron", "owner"}
    MaxAttempts = 1
    MaxRequeues = 0
    MaxDeaths = 0
PROPERTIES
    EndedStaysEnded
CHECK_DEADLOCK FALSE
