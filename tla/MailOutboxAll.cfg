\* Two requests, two overlapping ticks; one crash or failing statement.
SPECIFICATION LiveSpec
CONSTANTS
    Mails = {m1}
    Senders = {s1, s2}
    Workers = {w1, w2}
    MaxAttempts = 2
    MaxFaults = 1
INVARIANTS
    TypeOK
    SentWasDelivered
    GivenUpAfterMaxAttempts
PROPERTIES
    EveryMailSettles
CHECK_DEADLOCK FALSE
