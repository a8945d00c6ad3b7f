--------------------------- MODULE MCContainment ---------------------------
(* A parent, two children and a grandchild over two invoices. The parent   *)
(* holds both invoices under one prefix, its children less of them.        *)
EXTENDS Containment, TLC

CONSTANTS top, left, right, grandchild, taint, anomaly, order, withdrawn,
          first, second, read, pay

FamilyMissions == {top, left, right, grandchild}
FamilyParent ==
    (top :> Root) @@ (left :> top) @@ (right :> top) @@ (grandchild :> left)
FamilyAncestors ==
    (top :> {}) @@ (left :> {top}) @@ (right :> {top}) @@ (grandchild :> {top, left})

FamilyTrees == {{first}, {second}, {first, second}}

FamilyApproved ==
    (top :> {[over |-> {first, second}, actions |-> {read, pay}]}) @@
    (left :> {[over |-> {first, second}, actions |-> {pay}],
              [over |-> {first}, actions |-> {read}]}) @@
    (right :> {[over |-> {second}, actions |-> {read, pay}]}) @@
    (grandchild :> {[over |-> {first}, actions |-> {pay}]})

\* Two protected events, and two removals by hand.
FamilyEvents == {taint, anomaly, order, withdrawn}
FamilyManual == {order, withdrawn}
FamilySubject ==
    (taint :> top) @@ (anomaly :> left) @@ (order :> top) @@ (withdrawn :> left)
FamilyRemove ==
    (taint :> {[over |-> {second}, actions |-> {pay}]}) @@
    (anomaly :> {[over |-> {first}, actions |-> {read}]}) @@
    (order :> {[over |-> {first, second}, actions |-> {read}],
               [over |-> {first}, actions |-> {read}]}) @@
    (withdrawn :> {[over |-> {first}, actions |-> {read, pay}]})

=============================================================================
