SPECIFICATION Spec
CONSTANTS
    top = top
    child = child
    grandchild = grandchild
    next = next
    Root = Root
    Missions <- FamilyMissions
    Parent <- FamilyParent
    Ancestors <- FamilyAncestors
    Predecessor <- FamilyPredecessor
    ExpiresAt <- FamilyExpiresAt
    Horizon = 2
    MaxVersion = 4
    DerivationLimit = 1
INVARIANTS
    TypeOK
    OneLiveGeneration
    NoLiveUnderTerminated
    OriginIsRootCause
    HeldUnderSuspendedParent
PROPERTIES
    TerminationIsFinal
    NeverRevivedPastExpiry
