----------------------- MODULE MissionLifecycle_proofs -----------------------
(* Proofs that the Mission records keep their types, that no live Mission   *)
(* ever stands under a terminated ancestor, that a cascade names a root     *)
(* cause, that no held child is stranded, that of two generations at most   *)
(* one is live, and that neither an end nor an expiry is ever undone: for   *)
(* every tree of Missions, every expiry and every bound.                    *)
EXTENDS MissionLifecycle, TLAPS

\* The three facts about a table of records the proof carries, stated of any
\* table rw: the in-transaction tables between row and row' have them too.
Typed(rw) == rw \in [Missions -> MissionRecord]

\* A child is created under an existing parent.
Rooted(rw) ==
    \A m \in Missions : rw[m].state # "absent" =>
        \A a \in Ancestors[m] : rw[a].state # "absent"

CascadeComplete(rw) ==
    \A m \in Missions : rw[m].state \in Live =>
        \A a \in Ancestors[m] : rw[a].state # "terminated"

Good(rw) == Typed(rw) /\ Rooted(rw) /\ CascadeComplete(rw)

\* The inductive invariant. CascadeComplete alone is not inductive: a cascade
\* walks only through live missions, and it is Rooted that excludes an absent
\* mission between an ancestor and its live descendant.
IInv == Good(row) /\ now \in 0..Horizon

CauseType == [reason : Reason, origin : Missions \cup {Root}]

-----------------------------------------------------------------------------
(* Facts about the tree                                                     *)

\* Ancestors are Missions, the relation is transitive, and nothing is above
\* itself.
LEMMA TreeFacts ==
    ASSUME NEW m \in Missions, NEW a \in Ancestors[m]
    PROVE  /\ a \in Missions
           /\ Ancestors[a] \subseteq Ancestors[m]
           /\ a # m
           /\ m \notin Ancestors[a]
  BY TreeAssumption

\* A set of missions on one way up has a lowest, which Nearest picks.
LEMMA NearestIn ==
    ASSUME NEW m \in Missions, NEW S \in SUBSET Lineage(m), S # {}
    PROVE  Nearest(S) \in S
<1>1. \E a \in S : \A b \in S : b = a \/ b \in Ancestors[a]
  BY TreeAssumption DEF Lineage
<1> QED BY <1>1 DEF Nearest

-----------------------------------------------------------------------------
(* The cascade                                                              *)

\* The cause a cascade gives is a cause.
LEMMA CascadeCauseType ==
    ASSUME NEW rw, NEW m \in Missions, NEW cause \in CauseType, NEW d \in Missions
    PROVE  CascadeCause(rw, m, cause, d) \in CauseType
<1> DEFINE lapsed == {b \in Path(m, d) : Expired(rw, b)}
<1>1. lapsed \subseteq Lineage(d)
  BY DEF Path
<1>2. Lineage(d) \subseteq Missions
  BY TreeFacts DEF Lineage
<1>3. lapsed # {} => Nearest(lapsed) \in Missions
  BY <1>1, <1>2, NearestIn
<1> HIDE DEF lapsed
<1>4. CascadeCause(rw, m, cause, d) =
        IF d \in lapsed THEN Cause("expired", d)
        ELSE Cause("parent_terminated",
                   IF lapsed = {} THEN cause.origin ELSE Nearest(lapsed))
  BY DEF CascadeCause, lapsed
<1> QED BY <1>3, <1>4 DEF Cause, CauseType, Reason

\* Terminating a live record keeps its type.
LEMMA TerminatedType ==
    ASSUME NEW r \in MissionRecord, NEW cause \in CauseType
    PROVE  /\ Terminated(r, cause) \in MissionRecord
           /\ Terminated(r, cause).state = "terminated"
<1>1. cause.reason \in Reason /\ cause.origin \in Missions \cup {Root}
  BY DEF CauseType
<1>2. r.version + 1 \in Nat
  BY DEF MissionRecord
<1>3. \A v \in Nat :
        LET t == [r EXCEPT !.state = "terminated", !.reason = cause.reason,
                           !.origin = cause.origin, !.schedule = NoSchedule,
                           !.version = v]
        IN t \in MissionRecord /\ t.state = "terminated"
  BY <1>1 DEF MissionRecord, MissionState
<1> QED BY <1>2, <1>3 DEF Terminated

\* What TerminateAll does to a record: it is terminated, or unchanged and
\* then neither a root nor reached through live records from one.
LEMMA TerminateAllEffect ==
    ASSUME NEW rw, Typed(rw), NEW roots \in SUBSET Missions,
           NEW cause \in [roots -> CauseType], NEW d \in Missions
    PROVE  LET after == TerminateAll(rw, roots, cause) IN
           \/ /\ after[d] \in MissionRecord
              /\ after[d].state = "terminated"
              /\ \/ d \in roots
                 \/ \E m \in roots : d \in Reach(LiveIn(rw), m)
           \/ /\ after[d] = rw[d]
              /\ d \notin roots
              /\ \A m \in roots : d \notin Reach(LiveIn(rw), m)
<1>1. rw[d] \in MissionRecord
  BY DEF Typed
<1>2. CASE d \in roots
  <2>1. cause[d] \in CauseType
    BY <1>2
  <2>2. TerminateAll(rw, roots, cause)[d] = Terminated(rw[d], cause[d])
    BY <1>2 DEF TerminateAll
  <2> QED BY <1>1, <1>2, <2>1, <2>2, TerminatedType
<1>3. CASE d \notin roots /\ \E m \in roots : d \in Reach(LiveIn(rw), m)
  <2> DEFINE m == CHOOSE m \in roots : d \in Reach(LiveIn(rw), m)
  <2>1. m \in roots /\ m \in Missions /\ cause[m] \in CauseType
    BY <1>3
  <2>2. TerminateAll(rw, roots, cause)[d] =
          Terminated(rw[d], CascadeCause(rw, m, cause[m], d))
    BY <1>3 DEF TerminateAll
  <2>3. CascadeCause(rw, m, cause[m], d) \in CauseType
    BY <2>1, CascadeCauseType
  <2> HIDE DEF m
  <2> QED BY <1>1, <1>3, <2>2, <2>3, TerminatedType
<1>4. CASE d \notin roots /\ ~ \E m \in roots : d \in Reach(LiveIn(rw), m)
  BY <1>4 DEF TerminateAll
<1> QED BY <1>2, <1>3, <1>4

\* A live record below a live root is reached: with every cascade so far
\* complete, everything between the two is live.
LEMMA LiveBelowIsReached ==
    ASSUME NEW rw, Good(rw), NEW m \in Missions, NEW d \in Missions,
           rw[d].state \in Live, m \in Ancestors[d]
    PROVE  d \in Reach(LiveIn(rw), m)
<1>1. \A b \in Path(m, d) : b \in Missions /\ rw[b].state \in Live
  <2> SUFFICES ASSUME NEW b \in Path(m, d)
               PROVE  b \in Missions /\ rw[b].state \in Live
    OBVIOUS
  <2>1. CASE b = d
    BY <2>1
  <2>2. CASE b \in Ancestors[d]
    <3>1. b \in Missions
      BY <2>2, TreeFacts
    <3>2. rw[b].state \in MissionState
      BY <3>1 DEF Good, Typed, MissionRecord
    <3>3. rw[b].state # "terminated"
      BY <2>2 DEF Good, CascadeComplete
    <3>4. rw[b].state # "absent"
      BY <2>2 DEF Good, Rooted, Live
    <3> QED BY <3>1, <3>2, <3>3, <3>4 DEF MissionState, Live
  <2> QED BY <2>1, <2>2 DEF Path, Lineage
<1> QED BY <1>1 DEF Reach, Descendants, LiveIn

\* A cascade leaves a good table good.
LEMMA TerminateAllGood ==
    ASSUME NEW rw, Good(rw), NEW roots \in SUBSET Missions,
           NEW cause \in [roots -> CauseType],
           \A m \in roots : rw[m].state # "absent"
    PROVE  Good(TerminateAll(rw, roots, cause))
<1> DEFINE after == TerminateAll(rw, roots, cause)
<1>0. Typed(rw)
  BY DEF Good
<1>1. Typed(after)
  <2>1. \A d \in Missions : rw[d] \in MissionRecord
    BY <1>0 DEF Typed
  <2>2. \A d \in Missions : after[d] \in MissionRecord
    BY ONLY <1>0, <2>1, roots \in SUBSET Missions, cause \in [roots -> CauseType],
            TerminateAllEffect
  <2> QED BY <2>2 DEF Typed, TerminateAll
<1>2. \A d \in Missions : after[d].state = "absent" <=> rw[d].state = "absent"
  <2> SUFFICES ASSUME NEW d \in Missions
               PROVE  after[d].state = "absent" <=> rw[d].state = "absent"
    OBVIOUS
  <2>1. \A m \in roots : d \in Reach(LiveIn(rw), m) => rw[d].state # "absent"
    BY DEF Reach, Path, Descendants, Lineage, LiveIn, Live
  <2> QED BY <1>0, <2>1, TerminateAllEffect
<1>3. Rooted(after)
  BY <1>2, TreeFacts DEF Good, Rooted
<1>4. CascadeComplete(after)
  <2> SUFFICES ASSUME NEW d \in Missions, after[d].state \in Live,
                      NEW a \in Ancestors[d], after[a].state = "terminated"
               PROVE  FALSE
    BY DEF CascadeComplete
  <2>1. a \in Missions /\ Ancestors[a] \subseteq Ancestors[d]
    BY TreeFacts
  <2>2. after[d] = rw[d] /\ \A m \in roots : d \notin Reach(LiveIn(rw), m)
    BY <1>0, TerminateAllEffect DEF Live
  <2>3. rw[d].state \in Live
    BY <2>2
  <2>4. rw[a].state # "terminated"
    BY <2>3 DEF Good, CascadeComplete
  <2>5. \/ a \in roots
        \/ \E m \in roots : a \in Reach(LiveIn(rw), m)
    BY <1>0, <2>1, <2>4, TerminateAllEffect
  <2>6. \E m \in roots : m \in Ancestors[d]
    BY <2>1, <2>5 DEF Reach, Descendants
  <2> QED BY <2>2, <2>3, <2>6, LiveBelowIsReached
<1> QED BY <1>1, <1>3, <1>4 DEF Good

LEMMA TerminateGood ==
    ASSUME NEW rw, Good(rw), NEW m \in Missions, NEW cause \in CauseType,
           rw[m].state # "absent"
    PROVE  Good(Terminate(rw, m, cause))
  BY TerminateAllGood DEF Terminate

-----------------------------------------------------------------------------
(* Suspending and restoring                                                 *)

\* A schedule in a committed record has a type, and so has a request's.
LEMMA ArmedType ==
    ASSUME NEW r \in MissionRecord,
           NEW request \in ScheduleRequest \cup {NoRequest}
    PROVE  Armed(request, r) \in Schedule \cup {NoSchedule}
<1>1. r.version + 1 \in Nat \ {0}
  BY DEF MissionRecord
<1>2. \A g \in Nat \ {0} : request \in ScheduleRequest =>
        [until |-> request.until, on |-> request.on, generation |-> g] \in Schedule
  BY DEF ScheduleRequest, Schedule
<1> QED BY <1>1, <1>2 DEF Armed

\* The three writes of setState that end nothing keep a record's type.
LEMMA WrittenType ==
    ASSUME NEW r \in MissionRecord,
           NEW schedule \in Schedule \cup {NoSchedule}
    PROVE  /\ Suspended(r, schedule) \in MissionRecord
           /\ Suspended(r, schedule).state = "suspended"
           /\ SuspendedByParent(r) \in MissionRecord
           /\ SuspendedByParent(r).state = "suspended"
           /\ Activated(r) \in MissionRecord
           /\ Activated(r).state = "active"
<1>1. r.version + 1 \in Nat
  BY DEF MissionRecord
<1>2. \A v \in Nat :
        LET t == [r EXCEPT !.state = "suspended", !.schedule = schedule,
                           !.version = v]
        IN t \in MissionRecord /\ t.state = "suspended"
  BY DEF MissionRecord, MissionState
<1>3. \A v \in Nat :
        LET t == [r EXCEPT !.state = "suspended", !.projected = TRUE,
                           !.schedule = NoSchedule, !.version = v]
        IN t \in MissionRecord /\ t.state = "suspended"
  BY DEF MissionRecord, MissionState
<1>4. \A v \in Nat :
        LET t == [r EXCEPT !.state = "active", !.projected = FALSE,
                           !.schedule = NoSchedule, !.version = v]
        IN t \in MissionRecord /\ t.state = "active"
  BY DEF MissionRecord, MissionState
<1> QED BY <1>1, <1>2, <1>3, <1>4 DEF Suspended, SuspendedByParent, Activated

\* A write that leaves every record's being live or absent as it was leaves a
\* good table good.
LEMMA SameLivenessGood ==
    ASSUME NEW rw, Good(rw), NEW after, Typed(after),
           \A d \in Missions : /\ after[d].state \in Live <=> rw[d].state \in Live
                               /\ after[d].state = "absent" <=> rw[d].state = "absent"
    PROVE  Good(after)
<1>1. \A d \in Missions : after[d].state = "terminated" => rw[d].state = "terminated"
  <2> SUFFICES ASSUME NEW d \in Missions, after[d].state = "terminated"
               PROVE  rw[d].state = "terminated"
    OBVIOUS
  <2>1. rw[d].state \in MissionState
    BY DEF Good, Typed, MissionRecord
  <2> QED BY <2>1 DEF MissionState, Live
<1>2. Rooted(after)
  BY TreeFacts DEF Good, Rooted
<1>3. CascadeComplete(after)
  BY <1>1, TreeFacts DEF Good, CascadeComplete
<1> QED BY <1>2, <1>3 DEF Good

\* Suspending an active Mission, with the projection.
LEMMA SuspendTreeGood ==
    ASSUME NEW rw, Good(rw), NEW m \in Missions, rw[m].state = "active",
           NEW schedule \in Schedule \cup {NoSchedule}
    PROVE  Good(SuspendTree(rw, m, schedule))
<1> DEFINE after == SuspendTree(rw, m, schedule)
           held == Reach({d \in Missions :
                            rw[d].state = "active" /\ ~Expired(rw, d)}, m)
<1>1. \A d \in Missions : rw[d] \in MissionRecord
  BY DEF Good, Typed
<1>2. \A d \in held : d \in Missions /\ rw[d].state = "active"
  BY DEF Reach, Path, Lineage, Descendants
<1>3. \A d \in Missions :
        after[d] = IF d = m THEN Suspended(rw[d], schedule)
                   ELSE IF d \in held THEN SuspendedByParent(rw[d])
                   ELSE rw[d]
  BY DEF SuspendTree
<1>4. \A d \in Missions :
        /\ after[d] \in MissionRecord
        /\ after[d].state \in Live <=> rw[d].state \in Live
        /\ after[d].state = "absent" <=> rw[d].state = "absent"
  <2> HIDE DEF after, held
  <2> SUFFICES ASSUME NEW d \in Missions
               PROVE  /\ after[d] \in MissionRecord
                      /\ after[d].state \in Live <=> rw[d].state \in Live
                      /\ after[d].state = "absent" <=> rw[d].state = "absent"
    OBVIOUS
  <2>1. CASE d = m
    BY <1>1, <1>3, <2>1, WrittenType DEF Live
  <2>2. CASE d # m /\ d \in held
    BY <1>1, <1>2, <1>3, <2>2, WrittenType DEF Live
  <2>3. CASE d # m /\ d \notin held
    BY <1>1, <1>3, <2>3
  <2> QED BY <2>1, <2>2, <2>3
<1>5. Typed(after)
  BY <1>4 DEF Typed, SuspendTree
<1> HIDE DEF after
<1>6. Good(after)
  BY <1>4, <1>5, SameLivenessGood
<1> QED BY <1>6 DEF after

\* Restoring a suspended Mission, with everything it held. A restored mission
\* never has an ended one above it: the missions that lapse are themselves
\* held, and the restore does not go on below them.
LEMMA ActivateTreeGood ==
    ASSUME NEW rw, Good(rw), NEW m \in Missions, rw[m].state = "suspended"
    PROVE  /\ Good(ActivateTree(rw, m))
           /\ \A d \in Missions : rw[d].state = "absent" =>
                                  ActivateTree(rw, m)[d].state = "absent"
<1> DEFINE after    == ActivateTree(rw, m)
           restored == Reach({d \in Held(rw) : ~LapsesOnRestore(rw, d)}, m)
           lapsed   == {d \in Held(rw) : LapsesOnRestore(rw, d)
                                         /\ Parent[d] \in restored \cup {m}}
           cause    == [d \in lapsed |->
                          Cause(IF Expired(rw, d) THEN "expired" ELSE "revoked", d)]
           ended    == TerminateAll(rw, lapsed, cause)
<1>0. Typed(rw)
  BY DEF Good
<1>1. lapsed \subseteq Missions /\ cause \in [lapsed -> CauseType]
  <2>1. lapsed \subseteq Missions
    BY DEF Held
  <2> QED BY <2>1 DEF Cause, CauseType, Reason
<1>2. \A d \in lapsed : rw[d].state # "absent"
  BY DEF Held
<1>3. Good(ended)
  BY <1>1, <1>2, TerminateAllGood
<1>4. \A d \in restored : /\ d \in Missions /\ rw[d].state = "suspended"
                          /\ m \in Ancestors[d]
                          /\ \A b \in Path(m, d) : ~LapsesOnRestore(rw, b)
  BY DEF Reach, Path, Lineage, Descendants, Held
<1>5. \A l \in lapsed : /\ LapsesOnRestore(rw, l)
                        /\ m \in Ancestors[l]
  <2> SUFFICES ASSUME NEW l \in lapsed
               PROVE  m \in Ancestors[l]
    OBVIOUS
  <2>1. l \in Missions /\ Parent[l] \in Missions
    BY <1>4 DEF Held
  <2>2. Parent[l] # Root /\ Ancestors[l] = {Parent[l]} \cup Ancestors[Parent[l]]
    BY <2>1, TreeAssumption, RootAssumption
  <2>3. Parent[l] = m \/ m \in Ancestors[Parent[l]]
    BY <1>4
  <2> QED BY <2>2, <2>3
<1>6. \A d \in Missions : after[d] = IF d \in restored \cup {m}
                                     THEN Activated(rw[d]) ELSE ended[d]
  BY DEF ActivateTree
<1>7. \A d \in restored \cup {m} : /\ after[d] \in MissionRecord
                                   /\ after[d].state = "active"
                                   /\ rw[d].state = "suspended"
                                   /\ d \in Missions
  <2> HIDE DEF after, restored
  <2> SUFFICES ASSUME NEW d \in restored \cup {m}
               PROVE  /\ after[d] \in MissionRecord
                      /\ after[d].state = "active"
                      /\ rw[d].state = "suspended"
                      /\ d \in Missions
    OBVIOUS
  <2>1. d \in Missions /\ rw[d].state = "suspended" /\ rw[d] \in MissionRecord
    BY <1>0, <1>4 DEF Typed
  <2>2. after[d] = Activated(rw[d])
    BY <1>6, <2>1
  <2> QED BY <2>1, <2>2, WrittenType
<1>8. \A d \in Missions : \/ ended[d].state = "terminated" /\ rw[d].state # "absent"
                          \/ ended[d] = rw[d]
  <2> SUFFICES ASSUME NEW d \in Missions
               PROVE  \/ ended[d].state = "terminated" /\ rw[d].state # "absent"
                      \/ ended[d] = rw[d]
    OBVIOUS
  <2>1. \A l \in lapsed : d \in Reach(LiveIn(rw), l) => rw[d].state # "absent"
    BY DEF Reach, Path, Descendants, Lineage, LiveIn, Live
  <2> HIDE DEF lapsed, cause
  <2> QED BY <1>0, <1>1, <1>2, <2>1, TerminateAllEffect DEF ended
<1> HIDE DEF after, restored, ended, lapsed, cause
<1>9. Typed(after)
  <2>1. \A d \in Missions : after[d] \in MissionRecord
    BY <1>3, <1>6, <1>7 DEF Good, Typed
  <2> QED BY <2>1 DEF Typed, after, ActivateTree
<1>10. \A d \in Missions : after[d].state = "absent" <=> rw[d].state = "absent"
  BY <1>6, <1>7, <1>8
<1>11. Rooted(after)
  BY <1>10, TreeFacts DEF Good, Rooted
<1>12. CascadeComplete(after)
  <2> SUFFICES ASSUME NEW d \in Missions, after[d].state \in Live,
                      NEW a \in Ancestors[d], after[a].state = "terminated"
               PROVE  FALSE
    BY DEF CascadeComplete
  <2>1. a \in Missions /\ Ancestors[a] \subseteq Ancestors[d]
    BY TreeFacts
  <2>2. a \notin restored \cup {m} /\ ended[a].state = "terminated"
    BY <1>6, <1>7, <2>1
  <2>3. CASE d \notin restored \cup {m}
    BY <1>3, <1>6, <2>2, <2>3 DEF Good, CascadeComplete
  <2>4. CASE d \in restored \cup {m}
    <3>1. rw[a].state # "terminated"
      BY <1>7, <2>4 DEF Good, CascadeComplete, Live
    <3>2. \/ a \in lapsed
          \/ \E l \in lapsed : a \in Reach(LiveIn(rw), l)
      BY <1>0, <1>1, <2>1, <2>2, <3>1, TerminateAllEffect DEF ended
    <3>3. PICK l \in lapsed : l = a \/ l \in Ancestors[a]
      BY <3>2 DEF Reach, Descendants
    <3>4. l \in Ancestors[d] /\ l \in Missions /\ m \in Ancestors[l]
      BY <1>1, <1>5, <2>1, <3>3
    <3>5. d # m
      BY <3>4, TreeFacts
    <3>6. l \in Path(m, d)
      BY <3>4 DEF Path, Lineage
    <3> QED BY <1>4, <1>5, <2>4, <3>5, <3>6
  <2> QED BY <2>3, <2>4
<1> QED BY <1>9, <1>10, <1>11, <1>12 DEF Good, after

-----------------------------------------------------------------------------
(* The expiry clock                                                         *)

\* The cause an observation gives is a cause.
LEMMA ObservedCauseType ==
    ASSUME NEW rw, Typed(rw), NEW m \in Missions, ObservedTerminated(rw, m)
    PROVE  ObservedCause(rw, m) \in CauseType
<1> DEFINE a == Nearest(EndedInLineage(rw, m))
<1>1. a \in Missions
  <2>1. EndedInLineage(rw, m) \subseteq Lineage(m) /\ Lineage(m) \subseteq Missions
    BY TreeFacts DEF EndedInLineage, Lineage
  <2> QED BY <2>1, NearestIn DEF ObservedTerminated
<1>2. rw[a].origin \in Missions \cup {Root}
  BY <1>1 DEF Typed, MissionRecord
<1>3. ObservedCause(rw, m) =
        IF a = m THEN Cause("expired", m)
        ELSE Cause("parent_terminated",
                   IF rw[a].state = "terminated" THEN rw[a].origin ELSE a)
  BY DEF ObservedCause
<1> HIDE DEF a
<1> QED BY <1>1, <1>2, <1>3 DEF Cause, CauseType, Reason

\* A cascade creates nothing.
LEMMA TerminateAbsent ==
    ASSUME NEW rw, Good(rw), NEW m \in Missions, NEW cause \in CauseType,
           rw[m].state # "absent", NEW d \in Missions, rw[d].state = "absent"
    PROVE  Terminate(rw, m, cause)[d].state = "absent"
<1>1. d # m /\ d \notin Reach(LiveIn(rw), m)
  BY DEF Reach, Path, Descendants, Lineage, LiveIn, Live
<1> QED BY <1>1 DEF Terminate, TerminateAll

\* The expiry clock keeps a good table good, and creates nothing.
LEMMA ApplyExpiryGood ==
    ASSUME NEW rw, Good(rw), NEW m \in Missions
    PROVE  /\ Good(ApplyExpiry(rw, m))
           /\ \A d \in Missions : rw[d].state = "absent" =>
                                  ApplyExpiry(rw, m)[d].state = "absent"
<1>1. CASE rw[m].state \notin Live
  BY <1>1 DEF ApplyExpiry
<1>2. CASE rw[m].state \in Live /\ ObservedTerminated(rw, m)
  <2>1. ApplyExpiry(rw, m) = Terminate(rw, m, ObservedCause(rw, m))
    BY <1>2 DEF ApplyExpiry
  <2>2. ObservedCause(rw, m) \in CauseType /\ rw[m].state # "absent"
    BY <1>2, ObservedCauseType DEF Good, Live
  <2> QED BY <2>1, <2>2, TerminateGood, TerminateAbsent
<1>3. CASE rw[m].state \in Live /\ ~ObservedTerminated(rw, m) /\ DueSchedule(rw, m)
  <2>1. rw[m].state = "suspended"
    BY <1>3 DEF DueSchedule
  <2>2. Cause("revoked", m) \in CauseType
    BY DEF Cause, CauseType, Reason
  <2>3. CASE DueRevoke(rw, m)
    <3>1. ApplyExpiry(rw, m) = Terminate(rw, m, Cause("revoked", m))
      BY <1>3, <2>3 DEF ApplyExpiry
    <3> QED BY <2>1, <2>2, <3>1, TerminateGood, TerminateAbsent
  <2>4. CASE ~DueRevoke(rw, m)
    <3>1. ApplyExpiry(rw, m) = ActivateTree(rw, m)
      BY <1>3, <2>4 DEF ApplyExpiry
    <3> QED BY <2>1, <3>1, ActivateTreeGood
  <2> QED BY <2>3, <2>4
<1>4. CASE rw[m].state \in Live /\ ~ObservedTerminated(rw, m) /\ ~DueSchedule(rw, m)
  BY <1>4 DEF ApplyExpiry
<1> QED BY <1>1, <1>2, <1>3, <1>4

-----------------------------------------------------------------------------
(* The operations                                                           *)

\* A Mission inserted under nothing, or under an active parent, of which no
\* descendant exists yet.
LEMMA InsertGood ==
    ASSUME NEW rw, Good(rw), NEW m \in Missions, rw[m].state = "absent",
           Parent[m] # Root => rw[Parent[m]].state = "active"
    PROVE  Good([rw EXCEPT ![m] = Created])
<1> DEFINE after == [rw EXCEPT ![m] = Created]
<1>1. Created \in MissionRecord /\ Created.state = "active"
  <2>1. 0 \in 0..DerivationLimit
    BY BoundAssumption
  <2>2. Absent \in MissionRecord
    BY <2>1 DEF Absent, MissionRecord, MissionState, Reason
  <2> HIDE DEF after
  <2> QED BY <2>2 DEF Created, MissionRecord, MissionState
<1>2. Typed(after) /\ after[m] = Created
      /\ \A d \in Missions : d # m => after[d] = rw[d]
  BY <1>1 DEF Good, Typed
<1>3. \A a \in Ancestors[m] : /\ a \in Missions /\ a # m
                              /\ rw[a].state # "absent"
                              /\ rw[a].state # "terminated"
  <2> SUFFICES ASSUME NEW a \in Ancestors[m]
               PROVE  rw[a].state # "absent" /\ rw[a].state # "terminated"
    BY TreeFacts
  <2>1. Parent[m] # Root /\ Parent[m] \in Missions
        /\ (a = Parent[m] \/ a \in Ancestors[Parent[m]])
    BY TreeAssumption
  <2> QED BY <2>1 DEF Good, Rooted, CascadeComplete, Live
<1>4. \A d \in Missions : m \in Ancestors[d] => rw[d].state = "absent"
  BY DEF Good, Rooted
<1> HIDE DEF after
<1>5. Rooted(after)
  BY <1>1, <1>2, <1>3, TreeFacts DEF Good, Rooted
<1>6. CascadeComplete(after)
  <2> SUFFICES ASSUME NEW d \in Missions, after[d].state \in Live,
                      NEW a \in Ancestors[d], after[a].state = "terminated"
               PROVE  FALSE
    BY DEF CascadeComplete
  <2>1. a \in Missions /\ a # m
    BY <1>1, <1>2, TreeFacts
  <2> QED BY <1>2, <1>3, <2>1 DEF Good, CascadeComplete
<1> QED BY <1>2, <1>5, <1>6 DEF Good, after

LEMMA CreateGood ==
    ASSUME NEW m \in Missions, Good(row), Create(m)
    PROVE  Good(row')
<1>1. CASE Parent[m] = Root
  <2>1. row' = [row EXCEPT ![m] = Created]
    BY <1>1 DEF Create
  <2> QED BY <1>1, <2>1, InsertGood DEF Create
<1>2. CASE Parent[m] # Root
  <2> DEFINE rw == ApplyExpiry(row, Parent[m])
  <2>1. Parent[m] \in Missions
    BY <1>2, TreeAssumption
  <2>2. Good(rw) /\ rw[m].state = "absent"
    BY <2>1, ApplyExpiryGood DEF Create
  <2>3. row' = IF rw[Parent[m]].state = "active"
               THEN [rw EXCEPT ![m] = Created] ELSE rw
    BY <1>2 DEF Create
  <2> HIDE DEF rw
  <2> QED BY <2>2, <2>3, InsertGood
<1> QED BY <1>1, <1>2

LEMMA SupersedeGood ==
    ASSUME NEW m \in Missions, Good(row), Supersede(m)
    PROVE  Good(row')
<1> DEFINE p  == Predecessor[m]
           rw == Terminate(row, p, Cause("superseded", p))
<1>1. p \in Missions /\ Parent[m] = Root
  BY SuccessorAssumption DEF Supersede
<1>2. Cause("superseded", p) \in CauseType
  BY <1>1 DEF Cause, CauseType, Reason
<1>3. row[p].state # "absent" /\ row[m].state = "absent"
  BY DEF Supersede
<1>4. Good(rw) /\ rw[m].state = "absent"
  BY <1>1, <1>2, <1>3, TerminateGood, TerminateAbsent
<1>5. row' = [rw EXCEPT ![m] = Created]
  BY DEF Supersede
<1> HIDE DEF rw
<1> QED BY <1>1, <1>4, <1>5, InsertGood

LEMMA SuspendGood ==
    ASSUME NEW m \in Missions, NEW request \in ScheduleRequest \cup {NoRequest},
           Good(row), Suspend(m, request)
    PROVE  Good(row')
<1> DEFINE rw == ApplyExpiry(row, m)
           schedule == Armed(request, rw[m])
<1>1. Good(rw)
  BY ApplyExpiryGood
<1>2. row' = SuspendOp(rw, m, request)
  BY DEF Suspend
<1> HIDE DEF rw
<1>3. rw[m] \in MissionRecord
  BY <1>1 DEF Good, Typed
<1>4. schedule \in Schedule \cup {NoSchedule}
  BY <1>3, ArmedType
<1>5. CASE rw[m].state = "active"
  <2>1. row' = SuspendTree(rw, m, schedule)
    BY <1>2, <1>5 DEF SuspendOp
  <2> QED BY <1>1, <1>4, <1>5, <2>1, SuspendTreeGood
<1>6. CASE rw[m].state = "suspended" /\ request # NoRequest
           /\ ~SameSchedule(rw[m], request)
  <2>1. row' = [rw EXCEPT ![m] = Suspended(@, schedule)]
    BY <1>2, <1>6 DEF SuspendOp
  <2>2. Suspended(rw[m], schedule) \in MissionRecord
        /\ Suspended(rw[m], schedule).state = "suspended"
    BY <1>3, <1>4, WrittenType
  <2>3. \A d \in Missions : /\ row'[d] \in MissionRecord
                            /\ row'[d].state = rw[d].state
    <3> HIDE DEF schedule
    <3> QED BY <1>1, <1>6, <2>1, <2>2 DEF Good, Typed
  <2>4. Typed(row')
    BY <1>1, <2>1, <2>3 DEF Good, Typed
  <2> QED BY <1>1, <2>3, <2>4, SameLivenessGood
<1>7. CASE /\ rw[m].state # "active"
           /\ ~(rw[m].state = "suspended" /\ request # NoRequest
                /\ ~SameSchedule(rw[m], request))
  BY <1>1, <1>2, <1>7 DEF SuspendOp
<1> QED BY <1>5, <1>6, <1>7

LEMMA ResumeGood ==
    ASSUME NEW m \in Missions, Good(row), Resume(m)
    PROVE  Good(row')
<1> DEFINE rw == ApplyExpiry(row, m)
<1>1. Good(rw)
  BY ApplyExpiryGood
<1>2. row' = IF rw[m].state = "suspended" THEN ActivateTree(rw, m) ELSE rw
  BY DEF Resume
<1> HIDE DEF rw
<1> QED BY <1>1, <1>2, ActivateTreeGood

LEMMA EndGood ==
    ASSUME NEW m \in Missions, NEW reason \in {"revoked", "completed"},
           Good(row), End(m, reason)
    PROVE  Good(row')
<1> DEFINE rw == ApplyExpiry(row, m)
<1>1. Good(rw)
  BY ApplyExpiryGood
<1>2. row' = IF rw[m].state \in Live THEN Terminate(rw, m, Cause(reason, m)) ELSE rw
  BY DEF End
<1>3. Cause(reason, m) \in CauseType
  BY DEF Cause, CauseType, Reason
<1> HIDE DEF rw
<1> QED BY <1>1, <1>2, <1>3, TerminateGood DEF Live

LEMMA DeriveGood ==
    ASSUME NEW m \in Missions, Good(row), Derive(m)
    PROVE  Good(row')
<1>1. row[m] \in MissionRecord /\ row[m].derivations < DerivationLimit
  BY DEF Good, Typed, Derive
<1>2. row[m].derivations + 1 \in 0..DerivationLimit
  BY <1>1, BoundAssumption DEF MissionRecord
<1>3. \A n \in 0..DerivationLimit :
        LET t == [row[m] EXCEPT !.derivations = n]
        IN t \in MissionRecord /\ t.state = row[m].state
  BY <1>1 DEF MissionRecord
<1>4. \A d \in Missions : row'[d] \in MissionRecord /\ row'[d].state = row[d].state
  BY <1>2, <1>3 DEF Derive, Good, Typed
<1>5. Typed(row')
  BY <1>4 DEF Good, Typed, Derive
<1> QED BY <1>4, <1>5, SameLivenessGood

-----------------------------------------------------------------------------
(* Causes, holds and generations                                            *)

\* Ended, by a cause of its own.
RootCause(rw, o) == Ended(rw, o) /\ rw[o].reason # "parent_terminated"

\* Only a terminated record has a cause; its own names itself, and a cascaded
\* one an ancestor that is a root cause.
Caused(rw) ==
    \A m \in Missions :
        IF rw[m].state # "terminated" THEN rw[m].reason = "none"
        ELSE /\ rw[m].reason # "none"
             /\ IF rw[m].reason = "parent_terminated"
                THEN rw[m].origin \in Ancestors[m] /\ RootCause(rw, rw[m].origin)
                ELSE rw[m].origin = m

\* The hold of a suspend projection is released with the suspension, and the
\* parent of a held child is suspended.
HeldRight(rw) ==
    \A m \in Missions :
        /\ rw[m].state = "active" => ~rw[m].projected
        /\ rw[m].state = "suspended" /\ rw[m].projected =>
                Parent[m] # Root /\ rw[Parent[m]].state = "suspended"

\* A successor exists only once its predecessor has ended.
Succeeded(rw) ==
    \A m \in Missions : Predecessor[m] # Root /\ rw[m].state # "absent" =>
        rw[Predecessor[m]].state = "terminated"

Whole(rw) == Good(rw) /\ Caused(rw) /\ HeldRight(rw)

\* What no write but an insertion does to any record: end it again, create or
\* remove it, or activate it at or after its expiry.
Keeps(rw, after) ==
    \A d \in Missions :
        /\ rw[d].state = "terminated" => after[d] = rw[d]
        /\ rw[d].state = "absent" <=> after[d].state = "absent"
        /\ rw[d].state = "suspended" /\ after[d].state = "active" => now < ExpiresAt[d]

\* A cause that a termination of m in rw may be given.
Founded(rw, m, c) ==
    /\ c \in CauseType /\ c.reason # "none"
    /\ IF c.reason = "parent_terminated"
       THEN ~Expired(rw, m) /\ c.origin \in Ancestors[m] /\ RootCause(rw, c.origin)
       ELSE c.origin = m

\* Two writes of one transaction.
LEMMA KeepsTwice ==
    ASSUME NEW rw, NEW mid, NEW after, Typed(rw), Typed(mid), Typed(after),
           Keeps(rw, mid), Keeps(mid, after)
    PROVE  Keeps(rw, after)
<1> SUFFICES ASSUME NEW d \in Missions
             PROVE  /\ rw[d].state = "terminated" => after[d] = rw[d]
                    /\ rw[d].state = "absent" <=> after[d].state = "absent"
                    /\ rw[d].state = "suspended" /\ after[d].state = "active" => now < ExpiresAt[d]
  BY DEF Keeps
<1>1. mid[d].state \in MissionState
  BY DEF Typed, MissionRecord
<1>2. /\ rw[d].state = "terminated" => mid[d] = rw[d]
      /\ rw[d].state = "absent" <=> mid[d].state = "absent"
      /\ rw[d].state = "suspended" /\ mid[d].state = "active" => now < ExpiresAt[d]
      /\ mid[d].state = "terminated" => after[d] = mid[d]
      /\ mid[d].state = "absent" <=> after[d].state = "absent"
      /\ mid[d].state = "suspended" /\ after[d].state = "active" => now < ExpiresAt[d]
  BY DEF Keeps
<1> QED BY ONLY <1>1, <1>2 DEF MissionState

\* A successor's predecessor stays ended.
LEMMA SucceededKeeps ==
    ASSUME NEW rw, NEW after, Succeeded(rw), Keeps(rw, after)
    PROVE  Succeeded(after)
<1> SUFFICES ASSUME NEW m \in Missions, Predecessor[m] # Root, after[m].state # "absent"
             PROVE  after[Predecessor[m]].state = "terminated"
  BY DEF Succeeded
<1>1. Predecessor[m] \in Missions
  BY SuccessorAssumption
<1>2. rw[Predecessor[m]].state = "terminated"
  BY DEF Succeeded, Keeps
<1> QED BY <1>1, <1>2 DEF Keeps

\* Nearest picks the lowest: the others are above it.
LEMMA NearestIsLowest ==
    ASSUME NEW m \in Missions, NEW S \in SUBSET Lineage(m), S # {}
    PROVE  /\ Nearest(S) \in S
           /\ \A b \in S : b = Nearest(S) \/ b \in Ancestors[Nearest(S)]
<1>1. \E a \in S : \A b \in S : b = a \/ b \in Ancestors[a]
  BY TreeAssumption DEF Lineage
<1> QED BY <1>1 DEF Nearest

LEMMA TerminatedRecord ==
    ASSUME NEW r \in MissionRecord, NEW c \in CauseType
    PROVE  /\ Terminated(r, c).state = "terminated"
           /\ Terminated(r, c).reason = c.reason
           /\ Terminated(r, c).origin = c.origin
  BY DEF Terminated, MissionRecord

\* TerminateAll with the causes it gives.
LEMMA TerminateAllCauses ==
    ASSUME NEW rw, Typed(rw), NEW roots \in SUBSET Missions,
           NEW cause \in [roots -> CauseType], NEW d \in Missions
    PROVE  LET after == TerminateAll(rw, roots, cause) IN
           \/ after[d] = rw[d] /\ d \notin roots
           \/ /\ d \in roots
              /\ after[d].state = "terminated"
              /\ after[d].reason = cause[d].reason /\ after[d].origin = cause[d].origin
           \/ \E m \in roots :
                /\ d \in Reach(LiveIn(rw), m)
                /\ after[d].state = "terminated"
                /\ after[d].reason = CascadeCause(rw, m, cause[m], d).reason
                /\ after[d].origin = CascadeCause(rw, m, cause[m], d).origin
<1>1. rw[d] \in MissionRecord
  BY DEF Typed
<1>2. CASE d \in roots
  <2>1. cause[d] \in CauseType
    BY <1>2
  <2>2. TerminateAll(rw, roots, cause)[d] = Terminated(rw[d], cause[d])
    BY <1>2 DEF TerminateAll
  <2> QED BY <1>1, <1>2, <2>1, <2>2, TerminatedRecord
<1>3. CASE d \notin roots /\ \E m \in roots : d \in Reach(LiveIn(rw), m)
  <2> DEFINE m == CHOOSE m \in roots : d \in Reach(LiveIn(rw), m)
  <2>1. m \in roots /\ m \in Missions /\ cause[m] \in CauseType /\ d \in Reach(LiveIn(rw), m)
    BY <1>3
  <2>2. TerminateAll(rw, roots, cause)[d] =
          Terminated(rw[d], CascadeCause(rw, m, cause[m], d))
    BY <1>3 DEF TerminateAll
  <2>3. CascadeCause(rw, m, cause[m], d) \in CauseType
    BY <2>1, CascadeCauseType
  <2> HIDE DEF m
  <2> QED BY <1>1, <2>1, <2>2, <2>3, TerminatedRecord
<1>4. CASE d \notin roots /\ ~ \E m \in roots : d \in Reach(LiveIn(rw), m)
  BY <1>4 DEF TerminateAll
<1> QED BY <1>2, <1>3, <1>4

\* What a walk visits below m is below m and in S.
LEMMA ReachIsBelow ==
    ASSUME NEW S, NEW m \in Missions, NEW d \in Reach(S, m)
    PROVE  d \in Missions /\ m \in Ancestors[d] /\ d \in S
  BY DEF Reach, Descendants, Path, Lineage

\* The cause a cascade hands on: the record's own expiry, an expired mission on
\* the way, or the cause of the root.
LEMMA CascadeCauseFounded ==
    ASSUME NEW rw, NEW m \in Missions, NEW c, NEW d \in Missions, m \in Ancestors[d]
    PROVE  LET given == CascadeCause(rw, m, c, d) IN
           \/ given = Cause("expired", d)
           \/ /\ ~Expired(rw, d)
              /\ \/ given = Cause("parent_terminated", c.origin)
                 \/ \E b \in Ancestors[d] :
                        given = Cause("parent_terminated", b) /\ Expired(rw, b)
<1> DEFINE lapsed == {b \in Path(m, d) : Expired(rw, b)}
<1>1. d \in Path(m, d) /\ lapsed \subseteq Lineage(d)
  BY DEF Path, Lineage
<1>2. lapsed # {} => Nearest(lapsed) \in lapsed
  BY <1>1, NearestIn
<1>3. CascadeCause(rw, m, c, d) =
        IF d \in lapsed THEN Cause("expired", d)
        ELSE Cause("parent_terminated",
                   IF lapsed = {} THEN c.origin ELSE Nearest(lapsed))
  BY DEF CascadeCause
<1>4. Expired(rw, d) => d \in lapsed
  BY <1>1
<1>5. \A b \in lapsed : Expired(rw, b) /\ (b = d \/ b \in Ancestors[d])
  BY DEF Path, Lineage
<1> HIDE DEF lapsed
<1> QED BY <1>2, <1>3, <1>4, <1>5

\* A cascade writes only what was live.
LEMMA TerminateAllKeeps ==
    ASSUME NEW rw, Typed(rw), NEW roots \in SUBSET Missions,
           NEW cause \in [roots -> CauseType],
           \A m \in roots : rw[m].state \in Live
    PROVE  /\ Keeps(rw, TerminateAll(rw, roots, cause))
           /\ \A d \in Missions : TerminateAll(rw, roots, cause)[d] # rw[d] => rw[d].state \in Live
<1> DEFINE after == TerminateAll(rw, roots, cause)
<1>1. \A d \in Missions :
        \/ after[d] = rw[d]
        \/ after[d].state = "terminated" /\ rw[d].state \in Live
  <2> SUFFICES ASSUME NEW d \in Missions
               PROVE  \/ after[d] = rw[d]
                      \/ after[d].state = "terminated" /\ rw[d].state \in Live
    OBVIOUS
  <2>1. \A m \in roots : d \in Reach(LiveIn(rw), m) => rw[d].state \in Live
    BY ReachIsBelow DEF LiveIn
  <2> HIDE DEF after
  <2>2. \/ after[d] = rw[d] /\ d \notin roots
        \/ d \in roots /\ after[d].state = "terminated"
        \/ \E m \in roots : d \in Reach(LiveIn(rw), m) /\ after[d].state = "terminated"
    BY TerminateAllCauses DEF after
  <2> QED BY <2>1, <2>2
<1> HIDE DEF after
<1>2. Keeps(rw, after)
  BY <1>1 DEF Keeps, Live
<1> QED BY <1>1, <1>2 DEF after

\* Every cause a cascade writes is founded, and none it relied on is lost: what
\* had ended by a cause of its own is never given a cascaded one.
LEMMA TerminateAllCaused ==
    ASSUME NEW rw, Typed(rw), Caused(rw), NEW roots \in SUBSET Missions,
           NEW cause \in [roots -> CauseType],
           \A m \in roots : rw[m].state \in Live /\ Founded(rw, m, cause[m])
    PROVE  Caused(TerminateAll(rw, roots, cause))
<1> DEFINE after == TerminateAll(rw, roots, cause)
<1>1. \A d \in Missions :
           \/ after[d] = rw[d] /\ d \notin roots
           \/ /\ d \in roots
              /\ after[d].state = "terminated"
              /\ after[d].reason = cause[d].reason /\ after[d].origin = cause[d].origin
           \/ \E m \in roots :
                /\ d \in Reach(LiveIn(rw), m)
                /\ after[d].state = "terminated"
                /\ after[d].reason = CascadeCause(rw, m, cause[m], d).reason
                /\ after[d].origin = CascadeCause(rw, m, cause[m], d).origin
  BY TerminateAllCauses
<1>2. \A d \in Missions : rw[d].state = "terminated" => after[d] = rw[d]
  BY TerminateAllKeeps DEF Keeps
<1> HIDE DEF after
\* A record written by the walk: what CascadeCauseFounded says of its cause.
<1>3. ASSUME NEW d \in Missions, NEW m \in roots, d \in Reach(LiveIn(rw), m),
             after[d].reason = CascadeCause(rw, m, cause[m], d).reason,
             after[d].origin = CascadeCause(rw, m, cause[m], d).origin
      PROVE  \/ after[d].reason = "expired" /\ after[d].origin = d
             \/ /\ ~Expired(rw, d) /\ after[d].reason = "parent_terminated"
                /\ \/ after[d].origin = cause[m].origin
                   \/ after[d].origin \in Ancestors[d] /\ Expired(rw, after[d].origin)
  <2>1. m \in Missions /\ m \in Ancestors[d]
    BY <1>3, ReachIsBelow
  <2> QED BY <1>3, <2>1, CascadeCauseFounded DEF Cause
<1>4. ASSUME NEW o \in Missions, RootCause(rw, o)
      PROVE  RootCause(after, o)
  <2>1. CASE rw[o].state = "terminated"
    BY <1>2, <1>4, <2>1 DEF RootCause, Ended
  <2>2. CASE Expired(rw, o)
    <3>1. rw[o].reason # "parent_terminated"
      BY <1>4 DEF RootCause
    <3>2. CASE after[o] = rw[o]
      BY <2>2, <3>1, <3>2 DEF RootCause, Ended, Expired
    <3>3. CASE /\ o \in roots /\ after[o].state = "terminated"
               /\ after[o].reason = cause[o].reason
      BY <2>2, <3>3 DEF RootCause, Ended, Founded
    <3>4. ASSUME NEW m \in roots, o \in Reach(LiveIn(rw), m),
                 after[o].state = "terminated",
                 after[o].reason = CascadeCause(rw, m, cause[m], o).reason,
                 after[o].origin = CascadeCause(rw, m, cause[m], o).origin
          PROVE  RootCause(after, o)
      BY <1>3, <2>2, <3>4 DEF RootCause, Ended
    <3> QED BY <1>1, <3>2, <3>3, <3>4
  <2> QED BY <1>4, <2>1, <2>2 DEF RootCause, Ended
\* The cause of a root, seen from the root or from below it.
<1>5. ASSUME NEW m \in roots
      PROVE  \/ cause[m].reason = "parent_terminated" /\ cause[m].origin \in Ancestors[m]
                /\ RootCause(after, cause[m].origin)
             \/ cause[m].reason # "parent_terminated" /\ cause[m].origin = m
                /\ RootCause(after, m)
  <2>1. m \in Missions /\ Founded(rw, m, cause[m]) /\ m \in roots
    OBVIOUS
  <2>2. CASE cause[m].reason = "parent_terminated"
    BY <1>4, <2>1, <2>2, TreeFacts DEF Founded
  <2>3. CASE cause[m].reason # "parent_terminated"
    <3>1. after[m].state = "terminated" /\ after[m].reason = cause[m].reason
      <4>1. TerminateAll(rw, roots, cause)[m] = Terminated(rw[m], cause[m])
        BY DEF TerminateAll
      <4>2. rw[m] \in MissionRecord /\ cause[m] \in CauseType
        BY DEF Typed
      <4> QED BY <4>1, <4>2, TerminatedRecord DEF after
    <3> QED BY <2>1, <2>3, <3>1 DEF RootCause, Ended, Founded
  <2> QED BY <2>2, <2>3
<1>6. ASSUME NEW d \in Missions
      PROVE  IF after[d].state # "terminated" THEN after[d].reason = "none"
             ELSE /\ after[d].reason # "none"
                  /\ IF after[d].reason = "parent_terminated"
                     THEN after[d].origin \in Ancestors[d] /\ RootCause(after, after[d].origin)
                     ELSE after[d].origin = d
  <2>1. CASE after[d] = rw[d]
    <3>1. \A o \in Ancestors[d] : o \in Missions
      BY TreeFacts
    <3> QED BY <1>4, <2>1, <3>1 DEF Caused
  <2>2. CASE /\ d \in roots /\ after[d].state = "terminated"
             /\ after[d].reason = cause[d].reason /\ after[d].origin = cause[d].origin
    BY <1>5, <2>2 DEF Founded
  <2>3. ASSUME NEW m \in roots, d \in Reach(LiveIn(rw), m), after[d].state = "terminated",
               after[d].reason = CascadeCause(rw, m, cause[m], d).reason,
               after[d].origin = CascadeCause(rw, m, cause[m], d).origin
        PROVE  /\ after[d].reason # "none"
               /\ IF after[d].reason = "parent_terminated"
                  THEN after[d].origin \in Ancestors[d] /\ RootCause(after, after[d].origin)
                  ELSE after[d].origin = d
    <3>1. m \in Missions /\ m \in Ancestors[d]
      BY <2>3, ReachIsBelow
    <3>2. CASE after[d].reason = "expired" /\ after[d].origin = d
      BY <3>2
    <3>3. CASE after[d].reason = "parent_terminated" /\ after[d].origin = cause[m].origin
      BY <1>5, <3>1, <3>3, TreeFacts
    <3>4. CASE /\ after[d].reason = "parent_terminated"
               /\ after[d].origin \in Ancestors[d] /\ Expired(rw, after[d].origin)
      <4>1. after[d].origin \in Missions
        BY <3>4, TreeFacts
      <4>2. RootCause(rw, after[d].origin)
        BY <3>4, <4>1 DEF RootCause, Ended, Caused, Expired, Live
      <4> QED BY <1>4, <3>4, <4>1, <4>2
    <3> QED BY <1>3, <2>3, <3>2, <3>3, <3>4
  <2> QED BY <1>1, <2>1, <2>2, <2>3
<1> QED BY <1>6 DEF Caused, after

\* A cascade that ends the parent of a held child ends the child.
LEMMA TerminateAllHeld ==
    ASSUME NEW rw, Good(rw), HeldRight(rw), NEW roots \in SUBSET Missions,
           NEW cause \in [roots -> CauseType],
           \A m \in roots : rw[m].state \in Live
    PROVE  HeldRight(TerminateAll(rw, roots, cause))
<1> DEFINE after == TerminateAll(rw, roots, cause)
<1>1. Good(after)
  BY TerminateAllGood DEF Live
<1>2. \A d \in Missions : after[d] = rw[d] \/ after[d].state = "terminated"
  BY TerminateAllEffect DEF Good
<1> HIDE DEF after
<1> SUFFICES ASSUME NEW m \in Missions
             PROVE  /\ after[m].state = "active" => ~after[m].projected
                    /\ after[m].state = "suspended" /\ after[m].projected =>
                            Parent[m] # Root /\ after[Parent[m]].state = "suspended"
  BY DEF HeldRight, after
<1>3. CASE after[m].state = "terminated"
  BY <1>3
<1>4. CASE after[m] = rw[m]
  <2>1. CASE after[m].state = "suspended" /\ after[m].projected
    <3>1. Parent[m] # Root /\ rw[Parent[m]].state = "suspended"
      BY <1>4, <2>1 DEF HeldRight
    <3>2. Parent[m] \in Missions /\ Parent[m] \in Ancestors[m]
      BY <3>1, TreeAssumption
    <3>3. after[Parent[m]].state # "terminated"
      BY <1>1, <2>1, <3>2 DEF Good, CascadeComplete, Live
    <3> QED BY <1>2, <2>1, <3>1, <3>2, <3>3
  <2> QED BY <1>4, <2>1 DEF HeldRight
<1> QED BY <1>2, <1>3, <1>4

LEMMA TerminateAllWhole ==
    ASSUME NEW rw, Whole(rw), NEW roots \in SUBSET Missions,
           NEW cause \in [roots -> CauseType],
           \A m \in roots : rw[m].state \in Live /\ Founded(rw, m, cause[m])
    PROVE  /\ Whole(TerminateAll(rw, roots, cause))
           /\ Keeps(rw, TerminateAll(rw, roots, cause))
<1>1. /\ Typed(rw) /\ Good(rw) /\ Caused(rw) /\ HeldRight(rw)
      /\ \A m \in roots : rw[m].state # "absent"
  BY DEF Whole, Good, Live
<1>2. Good(TerminateAll(rw, roots, cause))
  BY <1>1, TerminateAllGood
<1>3. Caused(TerminateAll(rw, roots, cause))
  BY <1>1, TerminateAllCaused
<1>4. HeldRight(TerminateAll(rw, roots, cause))
  BY <1>1, TerminateAllHeld
<1>5. Keeps(rw, TerminateAll(rw, roots, cause))
  BY <1>1, TerminateAllKeeps
<1> QED BY <1>2, <1>3, <1>4, <1>5 DEF Whole

LEMMA TerminateWhole ==
    ASSUME NEW rw, Whole(rw), NEW m \in Missions, NEW c,
           rw[m].state \in Live, Founded(rw, m, c)
    PROVE  /\ Whole(Terminate(rw, m, c)) /\ Keeps(rw, Terminate(rw, m, c))
           /\ Terminate(rw, m, c)[m].state = "terminated"
<1> DEFINE cause == [r \in {m} |-> c]
<1>1. {m} \in SUBSET Missions /\ cause \in [{m} -> CauseType]
  BY DEF Founded
<1>2. \A r \in {m} : rw[r].state \in Live /\ Founded(rw, r, cause[r])
  OBVIOUS
<1>3. Terminate(rw, m, c) = TerminateAll(rw, {m}, cause)
  BY DEF Terminate
<1>4. TerminateAll(rw, {m}, cause)[m].state = "terminated"
  <2>1. TerminateAll(rw, {m}, cause)[m] = Terminated(rw[m], c)
    BY DEF TerminateAll
  <2>2. rw[m] \in MissionRecord /\ c \in CauseType
    BY DEF Whole, Good, Typed, Founded
  <2> QED BY <2>1, <2>2, TerminatedRecord
<1> HIDE DEF cause
<1> QED BY <1>1, <1>2, <1>3, <1>4, TerminateAllWhole

\* An own cause is founded.
LEMMA OwnCauseFounded ==
    ASSUME NEW rw, NEW m \in Missions,
           NEW reason \in {"revoked", "completed", "expired", "superseded"}
    PROVE  Founded(rw, m, Cause(reason, m))
  BY DEF Founded, Cause, CauseType, Reason

\* The cause an observation gives is founded: the origin of an ancestor that
\* was itself cascaded is a root cause above both.
LEMMA ObservedCauseFounded ==
    ASSUME NEW rw, Good(rw), Caused(rw), NEW m \in Missions,
           rw[m].state \in Live, ObservedTerminated(rw, m)
    PROVE  Founded(rw, m, ObservedCause(rw, m))
<1> DEFINE S == EndedInLineage(rw, m)
           a == Nearest(S)
<1>1. S \in SUBSET Lineage(m) /\ S # {}
  BY DEF EndedInLineage, ObservedTerminated
<1>2. a \in S /\ \A b \in S : b = a \/ b \in Ancestors[a]
  BY <1>1, NearestIsLowest
<1>3. Ended(rw, a) /\ (a = m \/ a \in Ancestors[m])
  BY <1>2 DEF EndedInLineage, Lineage
<1>4. ObservedCause(rw, m) \in CauseType
  BY ObservedCauseType DEF Good
<1>5. ObservedCause(rw, m) =
        IF a = m THEN Cause("expired", m)
        ELSE Cause("parent_terminated",
                   IF rw[a].state = "terminated" THEN rw[a].origin ELSE a)
  BY DEF ObservedCause
<1>6. CASE a = m
  BY <1>5, <1>6, OwnCauseFounded
<1>7. CASE a # m
  <2>1. a \in Missions /\ a \in Ancestors[m] /\ m \notin Ancestors[a] /\ Ancestors[a] \subseteq Ancestors[m]
    BY <1>3, <1>7, TreeFacts
  <2>2. ~Expired(rw, m)
    <3>1. Expired(rw, m) => m \in S
      BY DEF EndedInLineage, Ended, Lineage
    <3> QED BY <1>2, <1>7, <2>1, <3>1
  <2>3. CASE rw[a].state = "terminated"
    <3>1. \/ rw[a].reason = "parent_terminated" /\ rw[a].origin \in Ancestors[a]
             /\ RootCause(rw, rw[a].origin)
          \/ rw[a].reason # "parent_terminated" /\ rw[a].origin = a
      BY <2>1, <2>3 DEF Caused
    <3>2. rw[a].origin \in Ancestors[m] /\ RootCause(rw, rw[a].origin)
      BY <1>3, <2>1, <3>1 DEF RootCause
    <3> QED BY <1>4, <1>5, <1>7, <2>2, <2>3, <3>2 DEF Founded, Cause
  <2>4. CASE rw[a].state # "terminated"
    <3>1. rw[a].reason = "none"
      BY <2>1, <2>4 DEF Caused
    <3>2. RootCause(rw, a)
      BY <1>3, <3>1 DEF RootCause
    <3> QED BY <1>4, <1>5, <1>7, <2>1, <2>2, <2>4, <3>2 DEF Founded, Cause
  <2> QED BY <2>3, <2>4
<1> QED BY <1>6, <1>7

\* A write that ends nothing and moves no cause.
LEMMA SameCauses ==
    ASSUME NEW rw, Caused(rw), NEW after,
           \A d \in Missions : /\ after[d].state = "terminated" <=> rw[d].state = "terminated"
                               /\ rw[d].state \in Live => after[d].state \in Live
                               /\ after[d].reason = rw[d].reason
                               /\ after[d].origin = rw[d].origin
    PROVE  Caused(after)
<1>1. \A o \in Missions : RootCause(rw, o) => RootCause(after, o)
  BY DEF RootCause, Ended, Expired
<1>2. \A d \in Missions : \A o \in Ancestors[d] : o \in Missions
  BY TreeFacts
<1> QED BY <1>1, <1>2 DEF Caused

\* The fields the three writes of setState leave alone, and the hold they write.
LEMMA WrittenFields ==
    ASSUME NEW r \in MissionRecord, NEW schedule
    PROVE  /\ Suspended(r, schedule).reason = r.reason
           /\ Suspended(r, schedule).origin = r.origin
           /\ Suspended(r, schedule).projected = r.projected
           /\ SuspendedByParent(r).reason = r.reason
           /\ SuspendedByParent(r).origin = r.origin
           /\ SuspendedByParent(r).projected = TRUE
           /\ Activated(r).reason = r.reason
           /\ Activated(r).origin = r.origin
           /\ Activated(r).projected = FALSE
  BY DEF Suspended, SuspendedByParent, Activated, MissionRecord

\* A write of one record that leaves its standing alone.
LEMMA SameStandingWhole ==
    ASSUME NEW rw, Whole(rw), NEW after, Typed(after),
           \A d \in Missions : /\ after[d].state = rw[d].state
                               /\ after[d].reason = rw[d].reason
                               /\ after[d].origin = rw[d].origin
                               /\ after[d].projected = rw[d].projected
                               /\ rw[d].state = "terminated" => after[d] = rw[d]
    PROVE  Whole(after) /\ Keeps(rw, after)
<1>1. Good(after)
  BY SameLivenessGood DEF Whole
<1>2. Caused(after)
  BY SameCauses DEF Whole
<1>3. HeldRight(after)
  <2>1. \A d \in Missions : Parent[d] # Root => Parent[d] \in Missions
    BY TreeAssumption
  <2> QED BY <2>1 DEF Whole, HeldRight
<1> QED BY <1>1, <1>2, <1>3 DEF Whole, Keeps

\* Between a held descendant and m stand only held ones: its parent is m or held.
LEMMA ParentOnTheWay ==
    ASSUME NEW S, NEW m \in Missions, NEW d \in Reach(S, m), Parent[d] # m
    PROVE  Parent[d] \in Reach(S, m) /\ Parent[d] \in Missions
<1>1. d \in Missions /\ m \in Ancestors[d] /\ Path(m, d) \subseteq S
  BY DEF Reach, Descendants
<1>2. Parent[d] # Root /\ Parent[d] \in Missions
      /\ Ancestors[d] = {Parent[d]} \cup Ancestors[Parent[d]]
  BY <1>1, TreeAssumption
<1>3. m \in Ancestors[Parent[d]]
  BY <1>1, <1>2
<1>4. Path(m, Parent[d]) \subseteq Path(m, d)
  BY <1>2 DEF Path, Lineage
<1> QED BY <1>1, <1>2, <1>3, <1>4 DEF Reach, Descendants

LEMMA SuspendTreeWhole ==
    ASSUME NEW rw, Whole(rw), NEW m \in Missions, rw[m].state = "active",
           NEW schedule \in Schedule \cup {NoSchedule}
    PROVE  Whole(SuspendTree(rw, m, schedule)) /\ Keeps(rw, SuspendTree(rw, m, schedule))
<1> DEFINE after == SuspendTree(rw, m, schedule)
           S == {d \in Missions : rw[d].state = "active" /\ ~Expired(rw, d)}
           held == Reach(S, m)
<1>1. Good(after)
  BY SuspendTreeGood DEF Whole
<1>2. /\ \A d \in Missions :
            after[d] = IF d = m THEN Suspended(rw[d], schedule)
                       ELSE IF d \in held THEN SuspendedByParent(rw[d])
                       ELSE rw[d]
      /\ \A d \in Missions : rw[d] \in MissionRecord
      /\ \A d \in held : d \in Missions /\ rw[d].state = "active"
  BY ReachIsBelow DEF SuspendTree, Whole, Good, Typed
<1>3. \A d \in held : Parent[d] = m \/ (Parent[d] \in held /\ Parent[d] \in Missions)
  BY ParentOnTheWay
<1> HIDE DEF after, held
<1>4. \A d \in Missions :
        \/ /\ d = m \/ d \in held
           /\ rw[d].state = "active" /\ after[d].state = "suspended"
           /\ after[d].reason = rw[d].reason /\ after[d].origin = rw[d].origin
           /\ d = m => after[d].projected = rw[d].projected
        \/ d # m /\ d \notin held /\ after[d] = rw[d]
  <2> SUFFICES ASSUME NEW d \in Missions
               PROVE  \/ /\ d = m \/ d \in held
                         /\ rw[d].state = "active" /\ after[d].state = "suspended"
                         /\ after[d].reason = rw[d].reason /\ after[d].origin = rw[d].origin
                         /\ d = m => after[d].projected = rw[d].projected
                      \/ d # m /\ d \notin held /\ after[d] = rw[d]
    OBVIOUS
  <2>1. rw[d] \in MissionRecord
    BY <1>2
  <2>2. CASE d = m
    <3>1. after[d] = Suspended(rw[d], schedule)
      BY <1>2, <2>2
    <3>2. Suspended(rw[d], schedule).state = "suspended"
      BY ONLY <2>1, schedule \in Schedule \cup {NoSchedule}, WrittenType
    <3>3. /\ Suspended(rw[d], schedule).reason = rw[d].reason
          /\ Suspended(rw[d], schedule).origin = rw[d].origin
          /\ Suspended(rw[d], schedule).projected = rw[d].projected
      BY ONLY <2>1, WrittenFields
    <3> QED BY <2>2, <3>1, <3>2, <3>3
  <2>3. CASE d # m /\ d \in held
    <3>1. after[d] = SuspendedByParent(rw[d]) /\ rw[d].state = "active"
      BY <1>2, <2>3
    <3>2. SuspendedByParent(rw[d]).state = "suspended"
      BY ONLY <2>1, schedule \in Schedule \cup {NoSchedule}, WrittenType
    <3>3. /\ SuspendedByParent(rw[d]).reason = rw[d].reason
          /\ SuspendedByParent(rw[d]).origin = rw[d].origin
      BY ONLY <2>1, WrittenFields
    <3> QED BY <2>3, <3>1, <3>2, <3>3
  <2>4. CASE d # m /\ d \notin held
    BY <1>2, <2>4
  <2> QED BY <2>2, <2>3, <2>4
<1>5. Caused(after)
  BY <1>4, SameCauses DEF Whole, Live
<1>6. HeldRight(after)
  <2> SUFFICES ASSUME NEW d \in Missions
               PROVE  /\ after[d].state = "active" => ~after[d].projected
                      /\ after[d].state = "suspended" /\ after[d].projected =>
                            Parent[d] # Root /\ after[Parent[d]].state = "suspended"
    BY DEF HeldRight
  <2>1. HeldRight(rw)
    BY DEF Whole
  <2>2. CASE d = m
    BY <1>4, <2>1, <2>2 DEF HeldRight
  <2>3. CASE d \in held
    BY <1>3, <1>4, <2>3, RootAssumption
  <2>4. CASE d # m /\ d \notin held
    <3>1. after[d] = rw[d]
      BY <1>4, <2>4
    <3>2. CASE rw[d].state = "suspended" /\ rw[d].projected
      <4>1. Parent[d] # Root /\ rw[Parent[d]].state = "suspended" /\ Parent[d] \in Missions
        BY <2>1, <3>2, TreeAssumption DEF HeldRight
      <4>2. after[Parent[d]] = rw[Parent[d]]
        BY <1>4, <4>1
      <4> QED BY <3>1, <3>2, <4>1, <4>2
    <3> QED BY <2>1, <3>1, <3>2 DEF HeldRight
  <2> QED BY <2>2, <2>3, <2>4
<1>7. Keeps(rw, after)
  BY <1>4 DEF Keeps
<1> QED BY <1>1, <1>5, <1>6, <1>7 DEF Whole, after

\* A member of S right below m, or below what the walk visits, is visited.
LEMMA ChildOnTheWay ==
    ASSUME NEW S \in SUBSET Missions, NEW m \in Missions, NEW d \in S,
           Parent[d] \in Reach(S, m) \cup {m}
    PROVE  d \in Reach(S, m)
<1> DEFINE p == Parent[d]
<1>1. p \in Missions /\ (p = m \/ (m \in Ancestors[p] /\ Path(m, p) \subseteq S))
  BY ReachIsBelow DEF Reach
<1>2. Ancestors[d] = {p} \cup Ancestors[p]
  BY <1>1, TreeAssumption, RootAssumption
<1>3. m \in Ancestors[d]
  BY <1>1, <1>2
<1>4. ASSUME NEW b \in Path(m, d) PROVE b \in S
  <2>1. m \in Ancestors[b] /\ (b = d \/ b = p \/ b \in Ancestors[p])
    BY <1>2, <1>4 DEF Path, Lineage
  <2>2. p = m => b = d
    BY <1>1, <2>1, TreeFacts
  <2>3. p # m => b = d \/ b \in Path(m, p)
    BY <2>1 DEF Path, Lineage
  <2> QED BY <1>1, <2>2, <2>3
<1> QED BY <1>3, <1>4 DEF Reach, Descendants

\* Restoring m with what it held: a child that does not lapse and whose parent is
\* restored is restored with it, and one that lapses ends.
LEMMA ActivateTreeWhole ==
    ASSUME NEW rw, Whole(rw), NEW m \in Missions, rw[m].state = "suspended",
           ~Expired(rw, m), now \in Nat
    PROVE  Whole(ActivateTree(rw, m)) /\ Keeps(rw, ActivateTree(rw, m))
<1> DEFINE after    == ActivateTree(rw, m)
           S        == {d \in Held(rw) : ~LapsesOnRestore(rw, d)}
           restored == Reach(S, m)
           lapsed   == {d \in Held(rw) : LapsesOnRestore(rw, d)
                                         /\ Parent[d] \in restored \cup {m}}
           cause    == [d \in lapsed |->
                          Cause(IF Expired(rw, d) THEN "expired" ELSE "revoked", d)]
           ended    == TerminateAll(rw, lapsed, cause)
<1>1. Good(after)
  BY ActivateTreeGood DEF Whole
<1>2. /\ lapsed \in SUBSET Missions /\ cause \in [lapsed -> CauseType]
      /\ \A d \in lapsed : rw[d].state \in Live /\ Founded(rw, d, cause[d])
  <2>1. \A d \in lapsed : d \in Missions /\ rw[d].state \in Live
    BY DEF Held, Live
  <2>2. \A d \in lapsed : Founded(rw, d, cause[d])
    BY <2>1, OwnCauseFounded
  <2>3. cause \in [lapsed -> CauseType]
    BY <2>2 DEF Founded
  <2> QED BY <2>1, <2>2, <2>3
<1>3. /\ \A d \in restored : /\ d \in Missions /\ m \in Ancestors[d]
                             /\ d \in Held(rw)
                             /\ \A b \in Path(m, d) : b \in S
      /\ \A d \in restored : Parent[d] = m \/ (Parent[d] \in restored /\ Parent[d] \in Missions)
  BY ReachIsBelow, ParentOnTheWay DEF Reach
<1>4. \A d \in Missions : after[d] = IF d \in restored \cup {m}
                                     THEN Activated(rw[d]) ELSE ended[d]
  BY DEF ActivateTree
<1>5. Whole(ended) /\ Keeps(rw, ended)
  <2> HIDE DEF lapsed, cause
  <2> QED BY <1>2, TerminateAllWhole
<1>6. \A l \in lapsed : /\ l \in Missions /\ l \in Held(rw) /\ LapsesOnRestore(rw, l)
                        /\ l \notin S /\ m \in Ancestors[l] /\ l # m
  <2> SUFFICES ASSUME NEW l \in lapsed
               PROVE  l \in Missions /\ m \in Ancestors[l]
    BY TreeFacts
  <2>1. l \in Missions /\ Parent[l] \in Missions
    BY <1>3 DEF Held
  <2>2. Ancestors[l] = {Parent[l]} \cup Ancestors[Parent[l]]
    BY <2>1, TreeAssumption, RootAssumption
  <2> QED BY <1>3, <2>1, <2>2
\* Nothing restored was ended, being below no mission that lapsed.
<1>7. \A d \in restored \cup {m} :
            /\ d \in Missions /\ rw[d] \in MissionRecord
            /\ rw[d].state = "suspended" /\ ended[d] = rw[d]
  <2> SUFFICES ASSUME NEW d \in restored \cup {m}
               PROVE  /\ d \in Missions /\ rw[d] \in MissionRecord
                      /\ rw[d].state = "suspended" /\ ended[d] = rw[d]
    OBVIOUS
  <2>1. d \in Missions /\ rw[d].state = "suspended" /\ rw[d] \in MissionRecord
    BY <1>3 DEF Held, Whole, Good, Typed
  <2>2. ASSUME NEW l \in lapsed, l = d \/ l \in Ancestors[d]
        PROVE  FALSE
    <3>1. l \in Missions /\ m \in Ancestors[l] /\ l \notin S /\ l # m
      BY <1>6
    <3>2. m \in Ancestors[d]
      BY <2>1, <2>2, <3>1, TreeFacts
    <3>3. d # m
      BY <3>2, TreeFacts
    <3>4. l \in Path(m, d)
      BY <2>2, <3>1 DEF Path, Lineage
    <3> QED BY <1>3, <3>1, <3>3, <3>4
  <2>3. d \notin lapsed /\ \A l \in lapsed : d \notin Reach(LiveIn(rw), l)
    BY <1>2, <2>2, ReachIsBelow
  <2>4. Typed(rw)
    BY DEF Whole, Good
  <2> HIDE DEF lapsed, cause, restored
  <2>5. \/ ended[d] = rw[d] /\ d \notin lapsed
        \/ d \in lapsed
        \/ \E l \in lapsed : d \in Reach(LiveIn(rw), l)
    BY <1>2, <2>1, <2>4, TerminateAllCauses
  <2> QED BY <2>1, <2>3, <2>5
<1>8. \A l \in lapsed : ended[l].state = "terminated"
  <2> SUFFICES ASSUME NEW l \in lapsed
               PROVE  ended[l].state = "terminated"
    OBVIOUS
  <2>1. ended[l] = Terminated(rw[l], cause[l])
    BY <1>2 DEF TerminateAll
  <2>2. rw[l] \in MissionRecord /\ cause[l] \in CauseType
    BY <1>2, <1>6 DEF Whole, Good, Typed
  <2> HIDE DEF ended, cause
  <2> QED BY <2>1, <2>2, TerminatedRecord
<1>9. \A d \in Missions : ended[d] = rw[d] \/ ended[d].state = "terminated"
  <2>1. Typed(rw)
    BY DEF Whole, Good
  <2> HIDE DEF lapsed, cause
  <2> QED BY <1>2, <2>1, TerminateAllEffect
<1> HIDE DEF after, restored, ended
<1>10. \A d \in Missions :
        \/ /\ d \in restored \cup {m}
           /\ ended[d].state = "suspended" /\ after[d].state = "active"
           /\ after[d].reason = ended[d].reason /\ after[d].origin = ended[d].origin
           /\ after[d].projected = FALSE
        \/ d \notin restored \cup {m} /\ after[d] = ended[d]
  <2> SUFFICES ASSUME NEW d \in Missions, d \in restored \cup {m}
               PROVE  /\ ended[d].state = "suspended" /\ after[d].state = "active"
                      /\ after[d].reason = ended[d].reason /\ after[d].origin = ended[d].origin
                      /\ after[d].projected = FALSE
    BY <1>4
  <2>1. /\ rw[d] \in MissionRecord /\ rw[d].state = "suspended" /\ ended[d] = rw[d]
        /\ after[d] = Activated(rw[d])
    BY <1>4, <1>7
  <2>2. Activated(rw[d]).state = "active"
    BY ONLY <2>1, WrittenType
  <2>3. /\ Activated(rw[d]).reason = rw[d].reason /\ Activated(rw[d]).origin = rw[d].origin
        /\ Activated(rw[d]).projected = FALSE
    BY ONLY <2>1, WrittenFields
  <2> QED BY ONLY <2>1, <2>2, <2>3
<1>11. Caused(after)
  BY <1>5, <1>10, SameCauses DEF Whole, Live
<1>12. HeldRight(after)
  <2> SUFFICES ASSUME NEW d \in Missions
               PROVE  /\ after[d].state = "active" => ~after[d].projected
                      /\ after[d].state = "suspended" /\ after[d].projected =>
                            Parent[d] # Root /\ after[Parent[d]].state = "suspended"
    BY DEF HeldRight
  <2>1. HeldRight(ended) /\ HeldRight(rw) /\ Keeps(rw, ended)
    BY <1>5 DEF Whole
  <2>2. CASE d \in restored \cup {m}
    BY <1>10, <2>2
  <2>3. CASE d \notin restored \cup {m} /\ ~(after[d].state = "suspended" /\ after[d].projected)
    BY <1>10, <2>1, <2>3 DEF HeldRight
  <2>4. CASE d \notin restored \cup {m} /\ after[d].state = "suspended" /\ after[d].projected
    <3>1. after[d] = ended[d] /\ ended[d].state = "suspended" /\ ended[d].projected
      BY <1>10, <2>4
    <3>2. Parent[d] # Root /\ ended[Parent[d]].state = "suspended" /\ Parent[d] \in Missions
      BY <2>1, <3>1, TreeAssumption DEF HeldRight
    <3>3. ended[d] = rw[d] /\ d \in Held(rw)
      BY <1>9, <3>1 DEF Held
    <3>4. ASSUME Parent[d] \in restored \cup {m}
          PROVE  FALSE
      <4>1. CASE LapsesOnRestore(rw, d)
        BY <1>8, <3>1, <3>3, <3>4, <4>1
      <4>2. CASE ~LapsesOnRestore(rw, d)
        <5>1. d \in S /\ S \subseteq Missions
          BY <3>3, <4>2 DEF Held
        <5>2. Parent[d] \in Reach(S, m) \cup {m}
          BY <3>4 DEF restored
        <5> HIDE DEF S
        <5>3. d \in Reach(S, m)
          BY ONLY m \in Missions, <5>1, <5>2, ChildOnTheWay
        <5> QED BY <2>4, <5>3 DEF restored
      <4> QED BY <4>1, <4>2
    <3>5. after[Parent[d]] = ended[Parent[d]]
      BY <1>10, <3>2, <3>4
    <3> QED BY <3>1, <3>2, <3>5
  <2> QED BY <2>2, <2>3, <2>4
<1>13. Keeps(rw, after)
  <2> SUFFICES ASSUME NEW d \in Missions
               PROVE  /\ rw[d].state = "terminated" => after[d] = rw[d]
                      /\ rw[d].state = "absent" <=> after[d].state = "absent"
                      /\ rw[d].state = "suspended" /\ after[d].state = "active" => now < ExpiresAt[d]
    BY DEF Keeps
  <2>1. CASE d \in restored \cup {m}
    <3>1. ~Expired(rw, d)
      BY <2>1, ReachIsBelow DEF restored, LapsesOnRestore
    <3>2. rw[d].state = "suspended" /\ after[d].state = "active"
      BY <1>7, <1>10, <2>1
    <3>3. ExpiresAt[d] \in Nat
      BY ExpiryAssumption
    <3> QED BY <3>1, <3>2, <3>3 DEF Expired, Live
  <2>2. CASE d \notin restored \cup {m}
    BY <1>5, <1>10, <2>2 DEF Keeps
  <2> QED BY <2>1, <2>2
<1> QED BY <1>1, <1>11, <1>12, <1>13 DEF Whole, after

\* The expiry clock keeps a whole table whole, and restores nothing expired.
LEMMA ApplyExpiryWhole ==
    ASSUME NEW rw, Whole(rw), NEW m \in Missions, now \in Nat
    PROVE  LET after == ApplyExpiry(rw, m) IN
           /\ Whole(after) /\ Keeps(rw, after)
           /\ after[m].state = "suspended" => ~Expired(after, m)
<1>1. \A d \in Missions : rw[d] \in MissionRecord
  BY DEF Whole, Good, Typed
<1>2. Keeps(rw, rw)
  BY <1>1 DEF Keeps
<1>3. ~ObservedTerminated(rw, m) => ~Expired(rw, m)
  BY DEF ObservedTerminated, EndedInLineage, Ended, Lineage
<1>4. CASE rw[m].state \notin Live
  BY <1>2, <1>4 DEF ApplyExpiry, Live
<1>5. CASE rw[m].state \in Live /\ ObservedTerminated(rw, m)
  <2>1. ApplyExpiry(rw, m) = Terminate(rw, m, ObservedCause(rw, m))
    BY <1>5 DEF ApplyExpiry
  <2>2. Founded(rw, m, ObservedCause(rw, m))
    BY <1>5, ObservedCauseFounded DEF Whole
  <2> QED BY <1>5, <2>1, <2>2, TerminateWhole
<1>6. CASE rw[m].state \in Live /\ ~ObservedTerminated(rw, m) /\ DueSchedule(rw, m)
  <2>1. rw[m].state = "suspended"
    BY <1>6 DEF DueSchedule
  <2>2. CASE DueRevoke(rw, m)
    <3>1. ApplyExpiry(rw, m) = Terminate(rw, m, Cause("revoked", m))
      BY <1>6, <2>2 DEF ApplyExpiry
    <3>2. Founded(rw, m, Cause("revoked", m))
      BY OwnCauseFounded
    <3> QED BY <1>6, <3>1, <3>2, TerminateWhole
  <2>3. CASE ~DueRevoke(rw, m)
    <3>1. ApplyExpiry(rw, m) = ActivateTree(rw, m)
      BY <1>6, <2>3 DEF ApplyExpiry
    <3>2. ActivateTree(rw, m)[m].state = "active"
      <4>1. ActivateTree(rw, m)[m] = Activated(rw[m])
        BY DEF ActivateTree
      <4> QED BY <1>1, <4>1, WrittenType
    <3> QED BY <1>3, <1>6, <2>1, <3>1, <3>2, ActivateTreeWhole
  <2> QED BY <2>2, <2>3
<1>7. CASE rw[m].state \in Live /\ ~ObservedTerminated(rw, m) /\ ~DueSchedule(rw, m)
  BY <1>2, <1>3, <1>7 DEF ApplyExpiry
<1> QED BY <1>4, <1>5, <1>6, <1>7

\* A Mission inserted under nothing, or under an active parent.
LEMMA InsertWhole ==
    ASSUME NEW rw, Whole(rw), NEW m \in Missions, rw[m].state = "absent",
           Parent[m] # Root => rw[Parent[m]].state = "active"
    PROVE  Whole([rw EXCEPT ![m] = Created])
<1> DEFINE after == [rw EXCEPT ![m] = Created]
<1>1. Good(after)
  BY InsertGood DEF Whole
<1>2. /\ after[m].state = "active" /\ after[m].reason = "none" /\ ~after[m].projected
      /\ \A d \in Missions : d # m => after[d] = rw[d]
  BY DEF Whole, Good, Typed, Created, Absent
<1> HIDE DEF after
<1>3. Caused(after)
  <2>1. \A o \in Missions : RootCause(rw, o) => RootCause(after, o)
    BY <1>2 DEF RootCause, Ended, Expired, Live
  <2>2. \A d \in Missions : \A o \in Ancestors[d] : o \in Missions
    BY TreeFacts
  <2> QED BY <1>2, <2>1, <2>2 DEF Caused, Whole
<1>4. HeldRight(after)
  <2>1. \A d \in Missions : Parent[d] # Root => Parent[d] \in Missions
    BY TreeAssumption
  <2>2. HeldRight(rw)
    BY DEF Whole
  <2> QED BY <1>2, <2>1, <2>2 DEF HeldRight
<1> QED BY <1>1, <1>3, <1>4 DEF Whole, after

\* A successor inserted once its predecessor has ended.
LEMMA InsertSucceeded ==
    ASSUME NEW rw, Typed(rw), Succeeded(rw), NEW m \in Missions, rw[m].state = "absent",
           Predecessor[m] # Root => rw[Predecessor[m]].state = "terminated"
    PROVE  Succeeded([rw EXCEPT ![m] = Created])
<1>1. \A d \in Missions : Predecessor[d] # Root => Predecessor[d] \in Missions
  BY SuccessorAssumption
<1> QED BY <1>1 DEF Succeeded, Typed

\* What no step does to a record.
Steps(rw, after) ==
    \A d \in Missions :
        /\ rw[d].state = "terminated" => after[d] = rw[d]
        /\ rw[d].state = "suspended" /\ after[d].state = "active" => now < ExpiresAt[d]

\* The inductive invariant of the three facts above: a cascade's causes rest on
\* the observed ones, a child's hold on its parent's suspension, and neither is
\* inductive without the completeness of the cascade.
WholeInv == Whole(row) /\ Succeeded(row) /\ now \in 0..Horizon

LEMMA SameClock ==
    ASSUME Whole(row'), Succeeded(row'), now' = now, now \in 0..Horizon
    PROVE  WholeInv'
  BY DEF WholeInv, Whole, Succeeded, Good, Typed, Rooted, CascadeComplete,
         Caused, RootCause, Ended, Expired, HeldRight

\* A transaction that inserts nothing.
LEMMA KeepsStep ==
    ASSUME WholeInv, Whole(row'), Keeps(row, row'), now' = now
    PROVE  WholeInv' /\ Steps(row, row')
<1>1. Succeeded(row')
  BY SucceededKeeps DEF WholeInv
<1> QED BY <1>1, SameClock DEF WholeInv, Keeps, Steps

\* One that inserts m into what its earlier writes left.
LEMMA InsertStep ==
    ASSUME WholeInv, NEW rw, Whole(rw), Keeps(row, rw), NEW m \in Missions,
           row[m].state = "absent", Parent[m] # Root => rw[Parent[m]].state = "active",
           Predecessor[m] # Root => rw[Predecessor[m]].state = "terminated",
           row' = [rw EXCEPT ![m] = Created], now' = now
    PROVE  WholeInv' /\ Steps(row, row')
<1>1. rw[m].state = "absent" /\ Typed(rw)
  BY DEF Keeps, Whole, Good
<1>2. Whole(row')
  BY <1>1, InsertWhole
<1>3. Succeeded(rw)
  BY SucceededKeeps DEF WholeInv
<1>4. Succeeded(row')
  BY <1>1, <1>3, InsertSucceeded
<1>5. \A d \in Missions : d # m => row'[d] = rw[d]
  BY <1>1 DEF Typed
<1>6. Steps(row, row')
  BY <1>5 DEF Keeps, Steps
<1> QED BY <1>2, <1>4, <1>6, SameClock DEF WholeInv

\* The expiry clock, then one write of the table it left.
LEMMA ClockThenWrite ==
    ASSUME WholeInv, NEW m \in Missions, NEW rw, rw = ApplyExpiry(row, m),
           Whole(row'), Keeps(rw, row'), now' = now
    PROVE  WholeInv' /\ Steps(row, row')
<1>1. now \in Nat
  BY BoundAssumption DEF WholeInv
<1>2. Whole(rw) /\ Keeps(row, rw)
  BY <1>1, ApplyExpiryWhole DEF WholeInv
<1>3. Keeps(row, row')
  BY <1>2, KeepsTwice DEF WholeInv, Whole, Good
<1> QED BY <1>3, KeepsStep

LEMMA CreateWhole ==
    ASSUME NEW m \in Missions, WholeInv, Create(m)
    PROVE  WholeInv' /\ Steps(row, row')
<1>1. now \in Nat /\ Whole(row) /\ Keeps(row, row)
  BY BoundAssumption DEF WholeInv, Whole, Good, Typed, Keeps, MissionRecord
<1>2. now' = now /\ row[m].state = "absent" /\ Predecessor[m] = Root
  BY DEF Create
<1>3. CASE Parent[m] = Root
  <2>1. row' = [row EXCEPT ![m] = Created]
    BY <1>3 DEF Create
  <2> QED BY <1>1, <1>2, <1>3, <2>1, InsertStep
<1>4. CASE Parent[m] # Root
  <2> DEFINE rw == ApplyExpiry(row, Parent[m])
  <2>1. Parent[m] \in Missions
    BY <1>4, TreeAssumption
  <2>2. Whole(rw) /\ Keeps(row, rw)
    BY <1>1, <2>1, ApplyExpiryWhole
  <2>3. row' = IF rw[Parent[m]].state = "active"
               THEN [rw EXCEPT ![m] = Created] ELSE rw
    BY <1>4 DEF Create
  <2> HIDE DEF rw
  <2>4. CASE rw[Parent[m]].state = "active"
    BY <1>2, <2>2, <2>3, <2>4, InsertStep
  <2>5. CASE rw[Parent[m]].state # "active"
    BY <1>2, <2>2, <2>3, <2>5, KeepsStep
  <2> QED BY <2>4, <2>5
<1> QED BY <1>3, <1>4

LEMMA SupersedeWhole ==
    ASSUME NEW m \in Missions, WholeInv, Supersede(m)
    PROVE  WholeInv' /\ Steps(row, row')
<1> DEFINE p  == Predecessor[m]
           rw == Terminate(row, p, Cause("superseded", p))
<1>1. p \in Missions /\ Parent[m] = Root /\ row[p].state \in Live
  BY SuccessorAssumption DEF Supersede, Live
<1>2. Founded(row, p, Cause("superseded", p))
  BY <1>1, OwnCauseFounded
<1>3. Whole(rw) /\ Keeps(row, rw) /\ rw[p].state = "terminated"
  BY <1>1, <1>2, TerminateWhole DEF WholeInv
<1>4. row' = [rw EXCEPT ![m] = Created] /\ now' = now /\ row[m].state = "absent"
  BY DEF Supersede
<1> HIDE DEF rw
<1> QED BY <1>1, <1>3, <1>4, InsertStep

LEMMA ObserveWhole ==
    ASSUME NEW m \in Missions, WholeInv, Observe(m)
    PROVE  WholeInv' /\ Steps(row, row')
<1>1. now \in Nat
  BY BoundAssumption DEF WholeInv
<1>2. row' = ApplyExpiry(row, m) /\ now' = now
  BY DEF Observe
<1>3. Whole(row') /\ Keeps(row, row')
  BY <1>1, <1>2, ApplyExpiryWhole DEF WholeInv
<1> QED BY <1>2, <1>3, KeepsStep

\* A schedule re-armed on a suspended Mission.
LEMMA RearmedWhole ==
    ASSUME NEW rw, Whole(rw), NEW m \in Missions, rw[m].state = "suspended",
           NEW schedule \in Schedule \cup {NoSchedule}, NEW after,
           after = [rw EXCEPT ![m] = Suspended(rw[m], schedule)]
    PROVE  Whole(after) /\ Keeps(rw, after)
<1> DEFINE r == Suspended(rw[m], schedule)
<1>1. rw[m] \in MissionRecord
  BY DEF Whole, Good, Typed
<1>2. r \in MissionRecord /\ r.state = "suspended"
  BY ONLY <1>1, schedule \in Schedule \cup {NoSchedule}, WrittenType
<1>3. r.reason = rw[m].reason /\ r.origin = rw[m].origin /\ r.projected = rw[m].projected
  BY ONLY <1>1, WrittenFields
<1>4. after = [rw EXCEPT ![m] = r]
  OBVIOUS
<1> HIDE DEF r
<1>5. Typed(after)
  BY <1>2, <1>4 DEF Whole, Good, Typed
<1>6. after[m] = r /\ \A d \in Missions : d # m => after[d] = rw[d]
  BY <1>4 DEF Whole, Good, Typed
<1>7. \A d \in Missions : /\ after[d].state = rw[d].state
                          /\ after[d].reason = rw[d].reason
                          /\ after[d].origin = rw[d].origin
                          /\ after[d].projected = rw[d].projected
                          /\ rw[d].state = "terminated" => after[d] = rw[d]
  BY <1>2, <1>3, <1>6
<1> QED BY <1>5, <1>7, SameStandingWhole

LEMMA SuspendWhole ==
    ASSUME NEW m \in Missions, NEW request \in ScheduleRequest \cup {NoRequest},
           WholeInv, Suspend(m, request)
    PROVE  WholeInv' /\ Steps(row, row')
<1> DEFINE rw == ApplyExpiry(row, m)
           schedule == Armed(request, rw[m])
<1>1. now \in Nat
  BY BoundAssumption DEF WholeInv
<1>2. Whole(rw)
  BY <1>1, ApplyExpiryWhole DEF WholeInv
<1>3. row' = SuspendOp(rw, m, request) /\ now' = now
  BY DEF Suspend
<1>4. Whole(row') /\ Keeps(rw, row')
  <2> HIDE DEF rw
  <2>1. \A d \in Missions : rw[d] \in MissionRecord
    BY <1>2 DEF Whole, Good, Typed
  <2>2. schedule \in Schedule \cup {NoSchedule}
    BY <2>1, ArmedType
  <2>3. CASE rw[m].state = "active"
    <3>1. row' = SuspendTree(rw, m, schedule)
      BY <1>3, <2>3 DEF SuspendOp
    <3> QED BY <1>2, <2>2, <2>3, <3>1, SuspendTreeWhole
  <2>4. CASE rw[m].state = "suspended" /\ request # NoRequest
             /\ ~SameSchedule(rw[m], request)
    <3>1. row' = [rw EXCEPT ![m] = Suspended(@, schedule)]
      BY <1>3, <2>4 DEF SuspendOp
    <3> HIDE DEF schedule
    <3> QED BY <1>2, <2>2, <2>4, <3>1, RearmedWhole
  <2>5. CASE /\ rw[m].state # "active"
             /\ ~(rw[m].state = "suspended" /\ request # NoRequest
                  /\ ~SameSchedule(rw[m], request))
    <3>1. row' = rw
      BY <1>3, <2>5 DEF SuspendOp
    <3> QED BY <1>2, <2>1, <3>1 DEF Keeps, MissionRecord
  <2> QED BY <2>3, <2>4, <2>5
<1> HIDE DEF schedule
<1> QED BY <1>3, <1>4, ClockThenWrite

LEMMA ResumeWhole ==
    ASSUME NEW m \in Missions, WholeInv, Resume(m)
    PROVE  WholeInv' /\ Steps(row, row')
<1> DEFINE rw == ApplyExpiry(row, m)
<1>1. now \in Nat
  BY BoundAssumption DEF WholeInv
<1>2. Whole(rw) /\ (rw[m].state = "suspended" => ~Expired(rw, m))
  BY <1>1, ApplyExpiryWhole DEF WholeInv
<1>3. row' = (IF rw[m].state = "suspended" THEN ActivateTree(rw, m) ELSE rw) /\ now' = now
  BY DEF Resume
<1>4. Whole(row') /\ Keeps(rw, row')
  <2> HIDE DEF rw
  <2>1. CASE rw[m].state = "suspended"
    BY <1>1, <1>2, <1>3, <2>1, ActivateTreeWhole
  <2>2. CASE rw[m].state # "suspended"
    BY <1>2, <1>3, <2>2 DEF Keeps, Whole, Good, Typed, MissionRecord
  <2> QED BY <2>1, <2>2
<1> QED BY <1>3, <1>4, ClockThenWrite

LEMMA EndWhole ==
    ASSUME NEW m \in Missions, NEW reason \in {"revoked", "completed"},
           WholeInv, End(m, reason)
    PROVE  WholeInv' /\ Steps(row, row')
<1> DEFINE rw == ApplyExpiry(row, m)
<1>1. now \in Nat
  BY BoundAssumption DEF WholeInv
<1>2. Whole(rw)
  BY <1>1, ApplyExpiryWhole DEF WholeInv
<1>3. row' = (IF rw[m].state \in Live THEN Terminate(rw, m, Cause(reason, m)) ELSE rw)
      /\ now' = now
  BY DEF End
<1>4. Whole(row') /\ Keeps(rw, row')
  <2> HIDE DEF rw
  <2>1. CASE rw[m].state \in Live
    <3>1. Founded(rw, m, Cause(reason, m))
      BY OwnCauseFounded
    <3> QED BY <1>2, <1>3, <2>1, <3>1, TerminateWhole
  <2>2. CASE rw[m].state \notin Live
    BY <1>2, <1>3, <2>2 DEF Keeps, Whole, Good, Typed, MissionRecord
  <2> QED BY <2>1, <2>2
<1> QED BY <1>3, <1>4, ClockThenWrite

LEMMA DeriveWhole ==
    ASSUME NEW m \in Missions, WholeInv, Derive(m)
    PROVE  WholeInv' /\ Steps(row, row')
<1>1. Typed(row')
  BY DeriveGood DEF WholeInv, Whole, Good
<1>2. row' = [row EXCEPT ![m].derivations = @ + 1] /\ now' = now
      /\ row[m].state = "active" /\ Typed(row)
  BY DEF Derive, GateOpen, Lineage, WholeInv, Whole, Good
<1>3. \A d \in Missions : /\ row'[d].state = row[d].state
                          /\ row'[d].reason = row[d].reason
                          /\ row'[d].origin = row[d].origin
                          /\ row'[d].projected = row[d].projected
                          /\ row[d].state = "terminated" => row'[d] = row[d]
  BY <1>2 DEF Typed, MissionRecord
<1>4. Whole(row') /\ Keeps(row, row')
  BY <1>1, <1>3, SameStandingWhole DEF WholeInv
<1> QED BY <1>2, <1>4, KeepsStep

\* Time only adds to what has ended.
LEMMA TickWhole ==
    ASSUME WholeInv, Tick
    PROVE  WholeInv' /\ Steps(row, row')
<1>1. row' = row /\ now' = now + 1 /\ now \in Nat /\ now' \in 0..Horizon
  BY BoundAssumption DEF Tick, WholeInv
<1>2. \A o \in Missions : RootCause(row, o) => RootCause(row, o)'
  BY <1>1, ExpiryAssumption DEF RootCause, Ended, Expired
<1>3. \A d \in Missions : \A o \in Ancestors[d] : o \in Missions
  BY TreeFacts
<1>4. Caused(row)'
  BY <1>1, <1>2, <1>3 DEF WholeInv, Whole, Caused
<1>5. Good(row)' /\ HeldRight(row)' /\ Succeeded(row)'
  BY <1>1 DEF WholeInv, Whole, Good, Typed, Rooted, CascadeComplete, HeldRight, Succeeded
<1>6. Steps(row, row')
  BY <1>1 DEF Steps
<1> QED BY <1>1, <1>4, <1>5, <1>6 DEF WholeInv, Whole

-----------------------------------------------------------------------------
(* The theorems                                                             *)

LEMMA Initially == Init => IInv
<1> SUFFICES ASSUME Init PROVE IInv
  OBVIOUS
<1>1. Absent \in MissionRecord /\ Absent.state = "absent"
  BY BoundAssumption DEF Absent, MissionRecord, MissionState, Reason
<1>2. Typed(row) /\ \A m \in Missions : row[m].state = "absent"
  BY <1>1 DEF Init, Typed
<1> QED BY <1>2, BoundAssumption DEF IInv, Good, Rooted, CascadeComplete, Live, Init

LEMMA Inductive == IInv /\ [Next]_vars => IInv'
<1> SUFFICES ASSUME IInv, [Next]_vars PROVE IInv'
  OBVIOUS
<1> USE DEF IInv
<1>1. ASSUME NEW m \in Missions, Create(m) PROVE IInv'
  BY <1>1, CreateGood DEF Create, Good, Typed, Rooted, CascadeComplete
<1>2. ASSUME NEW m \in Missions, Supersede(m) PROVE IInv'
  BY <1>2, SupersedeGood DEF Supersede, Good, Typed, Rooted, CascadeComplete
<1>3. ASSUME NEW m \in Missions, Observe(m) PROVE IInv'
  BY <1>3, ApplyExpiryGood DEF Observe, Good, Typed, Rooted, CascadeComplete
<1>4. ASSUME NEW m \in Missions,
             NEW request \in ScheduleRequest \cup {NoRequest},
             Suspend(m, request)
      PROVE  IInv'
  BY <1>4, SuspendGood DEF Suspend, Good, Typed, Rooted, CascadeComplete
<1>5. ASSUME NEW m \in Missions, Resume(m) PROVE IInv'
  BY <1>5, ResumeGood DEF Resume, Good, Typed, Rooted, CascadeComplete
<1>6. ASSUME NEW m \in Missions, NEW reason \in {"revoked", "completed"},
             End(m, reason)
      PROVE  IInv'
  BY <1>6, EndGood DEF End, Good, Typed, Rooted, CascadeComplete
<1>7. ASSUME NEW m \in Missions, Derive(m) PROVE IInv'
  BY <1>7, DeriveGood DEF Derive, Good, Typed, Rooted, CascadeComplete
<1>8. CASE Tick
  BY <1>8, BoundAssumption DEF Tick, Good, Typed, Rooted, CascadeComplete
<1>9. CASE UNCHANGED vars
  BY <1>9 DEF vars, Good, Typed, Rooted, CascadeComplete
<1> QED BY <1>1, <1>2, <1>3, <1>4, <1>5, <1>6, <1>7, <1>8, <1>9 DEF Next, Operation

LEMMA WholeInitially == Init => WholeInv
<1> SUFFICES ASSUME Init PROVE WholeInv
  OBVIOUS
<1>1. IInv
  BY Initially
<1>2. \A m \in Missions : row[m].state = "absent" /\ row[m].reason = "none"
  BY DEF Init, Absent
<1> QED BY <1>1, <1>2, SuccessorAssumption
        DEF IInv, WholeInv, Whole, Caused, HeldRight, Succeeded

LEMMA WholeInductive == WholeInv /\ [Next]_vars => WholeInv' /\ Steps(row, row')
<1> SUFFICES ASSUME WholeInv, [Next]_vars PROVE WholeInv' /\ Steps(row, row')
  OBVIOUS
<1>1. ASSUME NEW m \in Missions, Create(m) PROVE WholeInv' /\ Steps(row, row')
  BY <1>1, CreateWhole
<1>2. ASSUME NEW m \in Missions, Supersede(m) PROVE WholeInv' /\ Steps(row, row')
  BY <1>2, SupersedeWhole
<1>3. ASSUME NEW m \in Missions, Observe(m) PROVE WholeInv' /\ Steps(row, row')
  BY <1>3, ObserveWhole
<1>4. ASSUME NEW m \in Missions, NEW request \in ScheduleRequest \cup {NoRequest},
             Suspend(m, request)
      PROVE  WholeInv' /\ Steps(row, row')
  BY <1>4, SuspendWhole
<1>5. ASSUME NEW m \in Missions, Resume(m) PROVE WholeInv' /\ Steps(row, row')
  BY <1>5, ResumeWhole
<1>6. ASSUME NEW m \in Missions, NEW reason \in {"revoked", "completed"}, End(m, reason)
      PROVE  WholeInv' /\ Steps(row, row')
  BY <1>6, EndWhole
<1>7. ASSUME NEW m \in Missions, Derive(m) PROVE WholeInv' /\ Steps(row, row')
  BY <1>7, DeriveWhole
<1>8. CASE Tick
  BY <1>8, TickWhole
<1>9. CASE UNCHANGED vars
  <2>1. row' = row /\ now' = now
    BY <1>9 DEF vars
  <2>2. Whole(row') /\ Keeps(row, row')
    BY <2>1 DEF WholeInv, Whole, Good, Typed, Keeps, MissionRecord
  <2> QED BY <2>1, <2>2, KeepsStep
<1> QED BY <1>1, <1>2, <1>3, <1>4, <1>5, <1>6, <1>7, <1>8, <1>9 DEF Next, Operation

\* For every tree of Missions and every bound: whatever operations run, in
\* whatever order, every record keeps its type.
THEOREM TypeCorrect == Spec => []TypeOK
<1>1. IInv => TypeOK
  BY DEF IInv, Good, Typed, TypeOK
<1> QED BY Initially, Inductive, <1>1, PTL DEF Spec

\* For every tree of Missions and every bound: no live Mission ever stands
\* under a terminated ancestor, so setState's cascade misses none.
THEOREM CascadeIsComplete == Spec => []NoLiveUnderTerminated
<1>1. IInv => NoLiveUnderTerminated
  BY DEF IInv, Good, CascadeComplete, NoLiveUnderTerminated
<1> QED BY Initially, Inductive, <1>1, PTL DEF Spec

\* For every tree of Missions: the origin a cascaded termination names is an
\* ancestor that ended by a cause of its own, through any chain of cascades
\* (parentTerminatedTermination).
THEOREM OriginsAreRootCauses == Spec => []OriginIsRootCause
<1>1. WholeInv => OriginIsRootCause
  BY DEF WholeInv, Whole, Caused, RootCause, OriginIsRootCause
<1> QED BY WholeInitially, WholeInductive, <1>1, PTL DEF Spec

\* For every tree of Missions: a child held by a suspend projection always
\* stands under a suspended parent (projectSuspendedChildren,
\* restoreProjectedChildren).
THEOREM HeldChildrenAreFreed == Spec => []HeldUnderSuspendedParent
<1>1. WholeInv => HeldUnderSuspendedParent
  BY DEF WholeInv, Whole, HeldRight, HeldUnderSuspendedParent
<1> QED BY WholeInitially, WholeInductive, <1>1, PTL DEF Spec

\* For every tree of Missions: a Mission and its successor are never both
\* live (supersedeInCallerTx's one commit).
THEOREM OneGenerationLives == Spec => []OneLiveGeneration
<1>1. WholeInv => OneLiveGeneration
  BY DEF WholeInv, Succeeded, Live, OneLiveGeneration
<1> QED BY WholeInitially, WholeInductive, <1>1, PTL DEF Spec

\* For every tree of Missions: no operation rewrites a terminated record.
THEOREM TerminatedStays == Spec => TerminationIsFinal
<1>1. WholeInv /\ [Next]_vars =>
        [\A m \in Missions : row[m].state = "terminated" => row'[m] = row[m]]_vars
  BY WholeInductive DEF Steps
<1> QED BY WholeInitially, WholeInductive, <1>1, PTL DEF Spec, TerminationIsFinal

\* For every tree of Missions whose children expire no later than their
\* parents: no resume, due schedule or restore activates a Mission at or after
\* its expiry or an ancestor's.
THEOREM ExpiryComesFirst == Spec => NeverRevivedPastExpiry
<1>1. WholeInv /\ [Next]_vars =>
        [\A m \in Missions : row[m].state = "suspended" /\ row'[m].state = "active" =>
            \A a \in Lineage(m) : now < ExpiresAt[a]]_vars
  <2> SUFFICES ASSUME WholeInv, [Next]_vars, NEW m \in Missions,
                      row[m].state = "suspended", row'[m].state = "active",
                      NEW a \in Lineage(m)
               PROVE  now < ExpiresAt[a]
    OBVIOUS
  <2>1. now < ExpiresAt[m]
    BY WholeInductive DEF Steps
  <2>2. a \in Missions /\ ExpiresAt[m] <= ExpiresAt[a]
    BY TreeFacts, ExpiryAssumption DEF Lineage
  <2> QED BY <2>1, <2>2, ExpiryAssumption, BoundAssumption DEF WholeInv
<1> QED BY WholeInitially, WholeInductive, <1>1, PTL DEF Spec, NeverRevivedPastExpiry

=============================================================================
