SPECIFICATION FairSpec
CONSTANTS
    grants = grants
    families = families
    requestA = requestA
    requestB = requestB
    Boot = Boot
    Events <- TwoEvents
    Subscribers = {grants, families}
    Callers = {requestA, requestB}
    MayRollBack = TRUE
    MaxAttempts = 2
    MaxFaults = 1
    MaxCrashes = 1
INVARIANTS TypeOK NothingLost
PROPERTIES DispositionFinal DrainCoversCaller EventuallySettled
CHECK_DEADLOCK FALSE
