SPECIFICATION ReceiverSpec
CONSTANTS
    q1 = q1
    States = {"active", "suspended"}
    Reads = {q1}
    Heartbeat = 1
    MaxStales = {1, 2}
    StatusTtl = 1
    ExpiresAt = 2
    MaxTime = 1
    MaxCommits = 2
    MaxRestores = 1
    MaxGenerations = 1
INVARIANTS
    LeaseIsMaterialized
    NeverBehindItself
CHECK_DEADLOCK FALSE
