SPECIFICATION Spec
CONSTANTS
    NoRequest = none
    r1 = r1
    r2 = r2
    r3 = r3
    k1 = k1
    k2 = k2
    op = op
    c1 = c1
    Requests <- MCPair
    Keys = {k1}
    Ops = {op}
    KeyOf <- MCPairKeyOf
    OpOf <- MCPairOpOf
    Counters = {c1}
    ChargedTo <- MCPairFree
    Amount <- MCPairAmount
    Limit <- MCLimit
    Validity = 1
    LeaseMax = 1
    Window = 1
    ReplayWindow = 1
    Horizon = 1
    LastRequest = 2
    MaxTime = 5
    MaxBoots = 2
    MaxEpochs = 2
INVARIANT
    UsableIsOpen
PROPERTIES
    LeavesAsIssued
    PermitsClose
CHECK_DEADLOCK FALSE
