SPECIFICATION Spec
CONSTANTS
    x1 = x1
    x2 = x2
    x3 = x3
    suspend = suspend
    resume = resume
    revoke = revoke
    contain = contain
    None = None
    Same = Same
    Exchanges = {x1, x2, x3}
    Requests = {suspend, resume, revoke, contain}
    Operation <- MCOperation
    Expected <- MCExpected
    Retention = 1
    Validity = 2
    Horizon = 3
    MaxMoves = 2
    MaxCrashes = 1
SYMMETRY Interchangeable
INVARIANT OneDecision OneAnswer
CHECK_DEADLOCK FALSE
