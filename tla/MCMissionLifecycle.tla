------------------------- MODULE MCMissionLifecycle -------------------------
(* Small families of Missions for TLC.                                     *)
EXTENDS MissionLifecycle, TLC

CONSTANTS top, child, grandchild, next

\* Three generations, and the successor of the first.
FamilyMissions == {top, child, grandchild, next}
FamilyParent == (top :> Root) @@ (child :> top) @@ (grandchild :> child) @@ (next :> Root)
FamilyAncestors == (top :> {}) @@ (child :> {top}) @@ (grandchild :> {top, child}) @@ (next :> {})
FamilyPredecessor == (top :> Root) @@ (child :> Root) @@ (grandchild :> Root) @@ (next :> top)
FamilyExpiresAt == (top :> 2) @@ (child :> 2) @@ (grandchild :> 1) @@ (next :> 2)

\* A parent and its child.
PairMissions == {top, child}
PairParent == (top :> Root) @@ (child :> top)
PairAncestors == (top :> {}) @@ (child :> {top})
PairPredecessor == [m \in PairMissions |-> Root]
PairExpiresAt == [m \in PairMissions |-> 3]

=============================================================================
