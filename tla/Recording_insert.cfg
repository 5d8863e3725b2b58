SPECIFICATION FairSpec
CONSTANTS
    r1 = r1
    r2 = r2
    Recordings = {r1, r2}
    Legacy = {}
    Stoppable = {}
    Workers = {}
    None = None
    MaxAttempts = 1
    AttemptBound = 2
    ArtifactInsert = FALSE
    Expiring = {r1}
    Faults = {}
PROPERTIES CompletedEgressBecomesReady
CHECK_DEADLOCK FALSE
