SPECIFICATION Spec
CONSTANTS
    top = top
    child = child
    grandchild = grandchild
    next = next
    Root = Root
    Missions <- PairMissions
    Parent <- PairParent
    Ancestors <- PairAncestors
    Predecessor <- PairPredecessor
    ExpiresAt <- PairExpiresAt
    Horizon = 2
    MaxVersion = 3
    DerivationLimit = 1
INVARIANT ChildNeverActiveUnderSuspendedParent
