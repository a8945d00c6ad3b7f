SPECIFICATION FairSpec
CONSTANTS
    root = root
    grant = grant
    requestA = requestA
    requestB = requestB
    requestC = requestC
    NoCaller = NoCaller
    Operations = {root, grant}
    Anonymous = {}
    Refunding = {grant}
    Callers = {requestA, requestB, requestC}
    Limit = 2
    MaxSigned = 2
    MaxSpent = 1
    MaxCrashes = 1
INVARIANTS TypeOK CountConservation OneArtifactPerOperation DeliveredIsPaidFor
PROPERTIES CallersAnswered ImplementsBudget
CHECK_DEADLOCK FALSE
