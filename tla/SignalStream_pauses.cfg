SPECIFICATION Spec
CONSTANTS
    q1 = q1
    States = {"active"}
    Reads = {q1}
    Heartbeat = 1
    Tolerance = 0
    MaxStales = {1}
    StatusTtl = 1
    ExpiresAt = 5
    MaxTime = 2
    MaxCommits = 3
    MaxRestores = 0
    MaxGenerations = 1
INVARIANTS
    TypeOK
    
    ResumedMeansAged
    LatchedAcrossStaleness
CONSTRAINT Pausing
CHECK_DEADLOCK FALSE
