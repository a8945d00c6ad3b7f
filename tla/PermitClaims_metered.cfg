SPECIFICATION Spec
CONSTANTS
    NoRequest = none
    r1 = r1
    r2 = r2
    r3 = r3
    k1 = k1
    k2 = k2
    op = op
    c1 = c1
    Requests <- MCRequests
    Keys = {k1, k2}
    Ops = {op}
    KeyOf <- MCKeyOf
    OpOf <- MCOpOf
    Counters = {c1}
    ChargedTo <- MCMetered
    Amount <- MCAmount
    Limit <- MCLimit
    Validity = 1
    LeaseMax = 1
    Window = 1
    ReplayWindow = 1
    Horizon = 1
    LastRequest = 0
    MaxTime = 3
    MaxBoots = 2
    MaxEpochs = 2
INVARIANTS
    EffectIsCharged
    VerdictIsTrue
    NeverConflicting
    WithinLimit
CHECK_DEADLOCK FALSE
