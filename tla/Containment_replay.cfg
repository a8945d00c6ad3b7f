SPECIFICATION Spec
CONSTANTS
    top = top
    left = left
    right = right
    grandchild = grandchild
    taint = taint
    anomaly = anomaly
    order = order
    withdrawn = withdrawn
    first = first
    second = second
    read = read
    pay = pay
    Root = Root
    NoEvent = NoEvent
    Actions = {read, pay}
    Trees <- FamilyTrees
    Missions <- FamilyMissions
    Parent <- FamilyParent
    Ancestors <- FamilyAncestors
    Approved <- FamilyApproved
    Events <- FamilyEvents
    Manual <- FamilyManual
    Subject <- FamilySubject
    Remove <- FamilyRemove
INVARIANT AnsweredIsPropagated
