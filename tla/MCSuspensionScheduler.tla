----------------------- MODULE MCSuspensionScheduler -----------------------
(* A parent and its child under the scheduler.                             *)
EXTENDS SuspensionScheduler, TLC

CONSTANTS top, child

PairMissions == {top, child}
PairParent == (top :> Root) @@ (child :> top)
PairAncestors == (top :> {}) @@ (child :> {top})
PairPredecessor == [m \in PairMissions |-> Root]
PairExpiresAt == (top :> 3) @@ (child :> 2)

=============================================================================
