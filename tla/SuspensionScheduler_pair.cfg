SPECIFICATION FairSchedulerSpec
CONSTANTS
    top = top
    child = child
    Root = Root
    Missions <- PairMissions
    Parent <- PairParent
    Ancestors <- PairAncestors
    Predecessor <- PairPredecessor
    ExpiresAt <- PairExpiresAt
    Horizon = 2
    MaxVersion = 4
    DerivationLimit = 0
    MaxFailures = 1
    MaxCrashes = 1
INVARIANT NoScheduleLost
PROPERTIES
    
    ScheduleEventuallyApplied
CHECK_DEADLOCK FALSE
