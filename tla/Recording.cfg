SPECIFICATION MCSpec
CONSTANTS
    r1 = r1
    r2 = r2
    r3 = r3
    w1 = w1
    w2 = w2
    Recordings = {r1, r2, r3}
    Legacy = {r3}
    Stoppable = {r1, r2}
    Workers = {w1, w2}
    None = None
    MaxAttempts = 1
    AttemptBound = 2
    ArtifactInsert = TRUE
    Expiring = {r1}
    Faults = {}
    Sides = {"egress", "kept", "stopped", "spool", "settle"}
INVARIANTS OneActivePerCall ReadyHasItsFile CapturedMediaKept AckedEgressIsReady
 
CHECK_DEADLOCK FALSE
