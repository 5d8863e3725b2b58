SPECIFICATION FairSpec
CONSTANTS
    Workers = {w1, w2}
    MaxEvents = 2
    MaxAttempts = 2
    BatchSize = 2
    MaxFaults = 2
    MaxSlow = 1
CHECK_DEADLOCK FALSE
INVARIANTS
    SingleOwner
PROPERTIES
    ImplementsEventLog
    Settles
