---------------------- MODULE SuspensionScheduler_proofs ----------------------
(* Proofs about the suspension scheduler: that its steps are lifecycle steps  *)
(* of the records, that no committed schedule is without a timer or a place   *)
(* in boot recovery, and that boot applies what is overdue before it serves,  *)
(* for every tree of Missions and any number of failed publications and       *)
(* crashes.                                                                   *)
EXTENDS SuspensionScheduler, MissionLifecycle_proofs, WellFoundedInduction

-----------------------------------------------------------------------------
(* The inductive invariant                                                  *)

\* A schedule belongs to the suspension whose commit set it, and its generation
\* is that commit's version: what fireSchedule compares.
Scheduled(rw) ==
    \A m \in Missions :
        /\ rw[m].schedule # NoSchedule =>
              rw[m].state = "suspended" /\ rw[m].schedule.generation = rw[m].version
        /\ rw[m].state = "absent" => rw[m].version = 0

\* The events are of commits that were made.
Timely(rw, events) ==
    \A e \in events :
        e.mission \in Missions /\ e.version \in Nat /\ e.version <= rw[e.mission].version

\* No timer is of a commit still to come.
Timed(rw, timers) ==
    timers \in [Missions -> Nat] /\ \A m \in Missions : timers[m] <= rw[m].version

\* Nor is a delivery of boot recovery.
Deliveries ==
    /\ \A d \in todo : /\ d.mission \in Missions /\ d.generation \in Nat
                       /\ d.generation <= row[d.mission].version
    /\ bootAt \in Nat /\ bootAt <= now

\* While boot recovery goes on, what it has passed by is not overdue.
Recovering ==
    up /\ todo # {} =>
        \A m \in Missions : row[m].schedule # NoSchedule =>
            \/ DueAt(m) > bootAt
            \/ \E d \in todo : /\ d.mission = m /\ d.generation = row[m].schedule.generation
                               /\ d.due = DueAt(m)

SchedulerInv ==
    /\ IInv /\ Scheduled(row) /\ Timely(row, owed)
    /\ Timed(row, armed) /\ Deliveries /\ NoScheduleLost /\ Recovering

-----------------------------------------------------------------------------
(* The greatest of a bounded set of numbers                                 *)

LEMMA MaxIs ==
    ASSUME NEW n \in Nat, NEW S \in SUBSET (0..n), S # {}
    PROVE  Max(S) \in S /\ \A y \in S : Max(S) >= y
<1> DEFINE T == {n - x : x \in S}
           R == OpToRel(<, Nat)
<1>0. \A x \in S : x \in Nat /\ n - x \in Nat
  OBVIOUS
<1>1. T \subseteq Nat /\ T # {}
  <2>1. PICK x \in S : TRUE
    OBVIOUS
  <2>2. n - x \in T
    BY <2>1
  <2> QED BY <1>0, <2>2
<1>2. \A x, y \in Nat : y < x => <<y, x>> \in R
  BY DEF OpToRel
<1>3. IsWellFoundedOn(R, Nat)
  BY ONLY NatLessThanWellFounded DEF R
<1> HIDE DEF T, R
<1>4. PICK t \in T : \A y \in T : <<y, t>> \notin R
  BY <1>1, <1>3, WFMin
<1>5. PICK x \in S : t = n - x
  BY DEF T
<1>6. \A y \in S : x >= y
  <2> SUFFICES ASSUME NEW y \in S
               PROVE  x >= y
    OBVIOUS
  <2>1. n - y \in T /\ n - y \in Nat /\ t \in Nat
    BY <1>1 DEF T
  <2>2. ~(n - y < t)
    BY <1>2, <1>4, <2>1
  <2>3. x \in Nat /\ y \in Nat
    BY <1>0, <1>5
  <2> QED BY <1>5, <2>2, <2>3
<1> QED BY <1>6 DEF Max

-----------------------------------------------------------------------------
(* What a step does to a record                                             *)

\* The expiry clock's write: one commit, which leaves no schedule.
Cleared(r, t) ==
    t.version = r.version + 1 /\ t.state # "absent" /\ t.schedule = NoSchedule

Clears(rw, after) ==
    \A m \in Missions : after[m] = rw[m] \/ Cleared(rw[m], after[m])

\* A record keeps its version, state and schedule, or moves to a later version
\* at which a schedule is its suspension's own.
Moved(rw, after) ==
    \A m \in Missions :
        \/ /\ after[m].version = rw[m].version /\ after[m].state = rw[m].state
           /\ after[m].schedule = rw[m].schedule
        \/ /\ after[m].version > rw[m].version /\ after[m].state # "absent"
           /\ after[m].schedule # NoSchedule =>
                 /\ after[m].state = "suspended"
                 /\ after[m].schedule.generation = after[m].version

LEMMA VersionsAreNumbers ==
    ASSUME NEW rw, Typed(rw)
    PROVE  \A m \in Missions : rw[m] \in MissionRecord /\ rw[m].version \in Nat
  BY DEF Typed, MissionRecord

LEMMA ClearsMoves ==
    ASSUME NEW rw, NEW after, Typed(rw), Clears(rw, after)
    PROVE  Moved(rw, after)
  BY VersionsAreNumbers DEF Clears, Cleared, Moved

LEMMA MovedTwice ==
    ASSUME NEW rw, NEW mid, NEW after, Typed(rw), Typed(mid), Typed(after),
           Moved(rw, mid), Moved(mid, after)
    PROVE  Moved(rw, after)
<1> SUFFICES ASSUME NEW m \in Missions
             PROVE  \/ /\ after[m].version = rw[m].version /\ after[m].state = rw[m].state
                       /\ after[m].schedule = rw[m].schedule
                    \/ /\ after[m].version > rw[m].version /\ after[m].state # "absent"
                       /\ after[m].schedule # NoSchedule =>
                             /\ after[m].state = "suspended"
                             /\ after[m].schedule.generation = after[m].version
  BY DEF Moved
<1>1. rw[m].version \in Nat /\ mid[m].version \in Nat /\ after[m].version \in Nat
  BY VersionsAreNumbers
<1>2. \/ /\ mid[m].version = rw[m].version /\ mid[m].state = rw[m].state
         /\ mid[m].schedule = rw[m].schedule
      \/ /\ mid[m].version > rw[m].version /\ mid[m].state # "absent"
         /\ mid[m].schedule # NoSchedule =>
               mid[m].state = "suspended" /\ mid[m].schedule.generation = mid[m].version
  BY DEF Moved
<1>3. \/ /\ after[m].version = mid[m].version /\ after[m].state = mid[m].state
         /\ after[m].schedule = mid[m].schedule
      \/ /\ after[m].version > mid[m].version /\ after[m].state # "absent"
         /\ after[m].schedule # NoSchedule =>
               after[m].state = "suspended" /\ after[m].schedule.generation = after[m].version
  BY DEF Moved
<1> QED BY <1>1, <1>2, <1>3

LEMMA MovedScheduled ==
    ASSUME NEW rw, NEW after, Typed(rw), Scheduled(rw), Moved(rw, after)
    PROVE  Scheduled(after)
<1> SUFFICES ASSUME NEW m \in Missions
             PROVE  /\ after[m].schedule # NoSchedule =>
                          /\ after[m].state = "suspended"
                          /\ after[m].schedule.generation = after[m].version
                    /\ after[m].state = "absent" => after[m].version = 0
  BY DEF Scheduled
<1> QED BY DEF Scheduled, Moved

LEMMA WritesClear ==
    ASSUME NEW r \in MissionRecord, NEW cause
    PROVE  /\ Cleared(r, Terminated(r, cause))
           /\ Cleared(r, SuspendedByParent(r))
           /\ Cleared(r, Activated(r))
  BY DEF MissionRecord, Cleared, Terminated, SuspendedByParent, Activated

LEMMA TerminateAllClears ==
    ASSUME NEW rw, Typed(rw), NEW roots, NEW cause
    PROVE  /\ Clears(rw, TerminateAll(rw, roots, cause))
           /\ \A m \in roots \cap Missions :
                  Cleared(rw[m], TerminateAll(rw, roots, cause)[m])
<1> DEFINE after == TerminateAll(rw, roots, cause)
<1>1. \A d \in Missions : after[d] = rw[d] \/ \E c : after[d] = Terminated(rw[d], c)
  BY DEF TerminateAll
<1>2. \A d \in roots \cap Missions : \E c : after[d] = Terminated(rw[d], c)
  BY DEF TerminateAll
<1> HIDE DEF after
<1>3. Clears(rw, after)
  BY <1>1, WritesClear, VersionsAreNumbers DEF Clears
<1>4. \A d \in roots \cap Missions : Cleared(rw[d], after[d])
  BY <1>2, WritesClear, VersionsAreNumbers
<1> QED BY <1>3, <1>4 DEF after

LEMMA ActivateTreeClears ==
    ASSUME NEW rw, Typed(rw), NEW m \in Missions
    PROVE  Clears(rw, ActivateTree(rw, m)) /\ Cleared(rw[m], ActivateTree(rw, m)[m])
<1> DEFINE after == ActivateTree(rw, m)
           restored == Reach({d \in Held(rw) : ~LapsesOnRestore(rw, d)}, m)
           lapsed   == {d \in Held(rw) : LapsesOnRestore(rw, d)
                                         /\ Parent[d] \in restored \cup {m}}
           ended    == TerminateAll(rw, lapsed,
                         [d \in lapsed |->
                            Cause(IF Expired(rw, d) THEN "expired" ELSE "revoked", d)])
<1>1. \A d \in Missions : after[d] = IF d \in restored \cup {m} THEN Activated(rw[d])
                                     ELSE ended[d]
  BY DEF ActivateTree
<1>2. Clears(rw, ended)
  BY TerminateAllClears
<1> HIDE DEF after, ended, restored
<1>3. \A d \in Missions : after[d] = Activated(rw[d]) \/ after[d] = ended[d]
  BY <1>1
<1>4. after[m] = Activated(rw[m])
  BY <1>1
<1>5. Clears(rw, after)
  BY <1>2, <1>3, WritesClear, VersionsAreNumbers DEF Clears
<1>6. Cleared(rw[m], after[m])
  BY <1>4, WritesClear, VersionsAreNumbers
<1> QED BY <1>5, <1>6 DEF after

LEMMA TerminateClears ==
    ASSUME NEW rw, Typed(rw), NEW m \in Missions, NEW cause
    PROVE  Clears(rw, Terminate(rw, m, cause)) /\ Cleared(rw[m], Terminate(rw, m, cause)[m])
  BY TerminateAllClears DEF Terminate

\* The expiry clock writes nothing, or ends the suspension of the Mission it is
\* asked about; and it does the latter when the schedule or the expiry is due.
LEMMA ApplyExpiryClears ==
    ASSUME NEW rw, Typed(rw), NEW m \in Missions
    PROVE  /\ Clears(rw, ApplyExpiry(rw, m))
           /\ \/ ApplyExpiry(rw, m) = rw
              \/ Cleared(rw[m], ApplyExpiry(rw, m)[m])
           /\ /\ rw[m].state = "suspended" /\ rw[m].schedule # NoSchedule
              /\ rw[m].schedule.until <= now \/ ExpiresAt[m] <= now
              => Cleared(rw[m], ApplyExpiry(rw, m)[m])
<1> DEFINE after == ApplyExpiry(rw, m)
<1>1. Clears(rw, rw)
  BY DEF Clears
<1>2. CASE after = rw
  <2>1. rw[m].state \in Live => ~ObservedTerminated(rw, m) /\ ~DueSchedule(rw, m)
    <3>1. ~Cleared(rw[m], rw[m])
      BY VersionsAreNumbers DEF Cleared
    <3> SUFFICES ASSUME rw[m].state \in Live, ObservedTerminated(rw, m) \/ DueSchedule(rw, m)
                 PROVE  Cleared(rw[m], after[m])
      BY <1>2, <3>1
    <3> QED BY TerminateClears, ActivateTreeClears DEF ApplyExpiry
  <2>2. ~ObservedTerminated(rw, m) => ~Expired(rw, m)
    BY DEF ObservedTerminated, EndedInLineage, Lineage, Ended
  <2> QED BY <1>1, <1>2, <2>1, <2>2 DEF DueSchedule, Live, Expired
<1>3. CASE after # rw
  BY <1>3, TerminateClears, ActivateTreeClears DEF ApplyExpiry
<1> QED BY <1>2, <1>3


-----------------------------------------------------------------------------
(* Every operation moves each record to no earlier version                  *)

LEMMA SameMoves ==
    ASSUME NEW rw
    PROVE  Moved(rw, rw)
  BY DEF Moved

LEMMA ObserveMoves ==
    ASSUME NEW rw, Typed(rw), NEW m \in Missions
    PROVE  Moved(rw, ApplyExpiry(rw, m))
  BY ApplyExpiryClears, ClearsMoves

\* An insertion is version 1 of an identifier that was never used.
LEMMA InsertMoves ==
    ASSUME NEW rw, Scheduled(rw), rw \in [Missions -> MissionRecord], NEW m \in Missions,
           rw[m].state = "absent"
    PROVE  Moved(rw, [rw EXCEPT ![m] = Created])
<1>1. rw[m].version = 0
  BY DEF Scheduled
<1>2. Created.version = 1 /\ Created.state = "active" /\ Created.schedule = NoSchedule
  BY DEF Created, Absent
<1>3. \A d \in Missions : [rw EXCEPT ![m] = Created][d] = IF d = m THEN Created ELSE rw[d]
  OBVIOUS
<1> QED BY <1>1, <1>2, <1>3 DEF Moved

LEMMA CreateMoves ==
    ASSUME NEW m \in Missions, Good(row), Scheduled(row), Create(m)
    PROVE  Moved(row, row')
<1> DEFINE rw == IF Parent[m] = Root THEN row ELSE ApplyExpiry(row, Parent[m])
<1>1. Parent[m] # Root => Parent[m] \in Missions
  BY TreeAssumption
<1>2. Good(rw) /\ rw[m].state = "absent" /\ Moved(row, rw)
  BY <1>1, ApplyExpiryGood, ObserveMoves, SameMoves DEF Create, Good
<1>3. row' = IF Parent[m] = Root \/ rw[Parent[m]].state = "active"
             THEN [rw EXCEPT ![m] = Created] ELSE rw
  BY DEF Create
<1> HIDE DEF rw
<1>4. Typed(row) /\ Typed(rw)
  BY <1>2 DEF Good
<1>5. Scheduled(rw)
  BY <1>2, <1>4, MovedScheduled
<1>6. Moved(rw, [rw EXCEPT ![m] = Created])
  BY <1>2, <1>4, <1>5, InsertMoves DEF Typed
<1>7. Typed(row')
  BY CreateGood DEF Good
<1>8. Moved(rw, row')
  BY <1>3, <1>6, SameMoves
<1> QED BY <1>2, <1>4, <1>7, <1>8, MovedTwice

LEMMA SupersedeMoves ==
    ASSUME NEW m \in Missions, Good(row), Scheduled(row), Supersede(m)
    PROVE  Moved(row, row')
<1> DEFINE p  == Predecessor[m]
           rw == Terminate(row, p, Cause("superseded", p))
<1>1. p \in Missions
  BY SuccessorAssumption DEF Supersede
<1>2. Cause("superseded", p) \in CauseType
  BY <1>1 DEF Cause, CauseType, Reason
<1>3. Good(rw) /\ rw[m].state = "absent"
  BY <1>1, <1>2, TerminateGood, TerminateAbsent DEF Supersede
<1>4. row' = [rw EXCEPT ![m] = Created]
  BY DEF Supersede
<1>5. Moved(row, rw)
  BY <1>1, TerminateClears, ClearsMoves DEF Good
<1> HIDE DEF rw
<1>6. Typed(row) /\ Typed(rw)
  BY <1>3 DEF Good
<1>7. Scheduled(rw)
  BY <1>5, <1>6, MovedScheduled
<1>8. Moved(rw, row')
  BY <1>3, <1>4, <1>6, <1>7, InsertMoves DEF Typed
<1>9. Typed(row')
  BY SupersedeGood DEF Good
<1> QED BY <1>5, <1>6, <1>8, <1>9, MovedTwice

\* A suspension's own record carries the schedule of its commit.
LEMMA SuspendedMoves ==
    ASSUME NEW r \in MissionRecord, NEW request \in ScheduleRequest \cup {NoRequest}
    PROVE  LET t == Suspended(r, Armed(request, r)) IN
           /\ t.version > r.version /\ t.state = "suspended"
           /\ t.schedule # NoSchedule => t.schedule.generation = t.version
<1> DEFINE schedule == Armed(request, r)
<1>1. schedule = NoSchedule \/ schedule.generation = r.version + 1
  BY DEF Armed
<1> HIDE DEF schedule
<1>2. /\ Suspended(r, schedule).version = r.version + 1
      /\ Suspended(r, schedule).state = "suspended"
      /\ Suspended(r, schedule).schedule = schedule
  BY DEF Suspended, MissionRecord
<1>3. r.version \in Nat
  BY DEF MissionRecord
<1> QED BY <1>1, <1>2, <1>3 DEF schedule

LEMMA SuspendOpMoves ==
    ASSUME NEW rw, Typed(rw), NEW m \in Missions,
           NEW request \in ScheduleRequest \cup {NoRequest}
    PROVE  Moved(rw, SuspendOp(rw, m, request))
<1> DEFINE t == Suspended(rw[m], Armed(request, rw[m]))
           held == Reach({d \in Missions : rw[d].state = "active" /\ ~Expired(rw, d)}, m)
           tree == SuspendTree(rw, m, Armed(request, rw[m]))
           own == [rw EXCEPT ![m] = t]
<1>1. /\ t.version > rw[m].version /\ t.state = "suspended"
      /\ t.schedule # NoSchedule => t.schedule.generation = t.version
  BY VersionsAreNumbers, SuspendedMoves
<1>2. \A d \in Missions : tree[d] = IF d = m THEN t
                                    ELSE IF d \in held THEN SuspendedByParent(rw[d])
                                    ELSE rw[d]
  BY DEF SuspendTree
<1>3. \A d \in Missions : own[d] = IF d = m THEN t ELSE rw[d]
  BY DEF Typed
<1>4. SuspendOp(rw, m, request) \in {tree, own, rw}
  BY DEF SuspendOp
<1> HIDE DEF t, tree, own, held
<1>5. \A d \in Missions : Cleared(rw[d], SuspendedByParent(rw[d])) /\ rw[d].version \in Nat
  BY WritesClear, VersionsAreNumbers
<1>6. \A d \in Missions : SuspendedByParent(rw[d]).version > rw[d].version
  BY <1>5 DEF Cleared
<1>7. Moved(rw, tree)
  BY <1>1, <1>2, <1>5, <1>6 DEF Moved, Cleared
<1>8. Moved(rw, own)
  BY <1>1, <1>3 DEF Moved
<1> QED BY <1>4, <1>7, <1>8, SameMoves

LEMMA OperationMoves ==
    ASSUME Good(row), Good(row'), Scheduled(row), Operation
    PROVE  Moved(row, row')
<1>0. Typed(row) /\ Typed(row')
  BY DEF Good
<1>1. \A m \in Missions : Good(ApplyExpiry(row, m)) /\ Moved(row, ApplyExpiry(row, m))
  BY <1>0, ApplyExpiryGood, ObserveMoves
<1>2. ASSUME NEW m \in Missions, Create(m)
      PROVE  Moved(row, row')
  BY <1>2, CreateMoves
<1>3. ASSUME NEW m \in Missions, Supersede(m)
      PROVE  Moved(row, row')
  BY <1>3, SupersedeMoves
<1>4. ASSUME NEW m \in Missions, Observe(m)
      PROVE  Moved(row, row')
  BY <1>1, <1>4 DEF Observe
<1>5. ASSUME NEW m \in Missions, NEW request \in ScheduleRequest \cup {NoRequest},
             Suspend(m, request)
      PROVE  Moved(row, row')
  <2> DEFINE rw == ApplyExpiry(row, m)
  <2>1. Typed(rw) /\ Moved(row, rw)
    BY <1>1 DEF Good
  <2>2. row' = SuspendOp(rw, m, request)
    BY <1>5 DEF Suspend
  <2> HIDE DEF rw
  <2>3. Moved(rw, row')
    BY <2>1, <2>2, SuspendOpMoves
  <2> QED BY <1>0, <2>1, <2>3, MovedTwice
<1>6. ASSUME NEW m \in Missions, Resume(m)
      PROVE  Moved(row, row')
  <2> DEFINE rw == ApplyExpiry(row, m)
  <2>1. Typed(rw) /\ Moved(row, rw)
    BY <1>1 DEF Good
  <2>2. row' = IF rw[m].state = "suspended" THEN ActivateTree(rw, m) ELSE rw
    BY <1>6 DEF Resume
  <2> HIDE DEF rw
  <2>3. Moved(rw, row')
    BY <2>1, <2>2, ActivateTreeClears, ClearsMoves, SameMoves
  <2> QED BY <1>0, <2>1, <2>3, MovedTwice
<1>7. ASSUME NEW m \in Missions, NEW reason \in {"revoked", "completed"}, End(m, reason)
      PROVE  Moved(row, row')
  <2> DEFINE rw == ApplyExpiry(row, m)
  <2>1. Typed(rw) /\ Moved(row, rw)
    BY <1>1 DEF Good
  <2>2. row' = IF rw[m].state \in Live THEN Terminate(rw, m, Cause(reason, m)) ELSE rw
    BY <1>7 DEF End
  <2> HIDE DEF rw
  <2>3. Moved(rw, row')
    BY <2>1, <2>2, TerminateClears, ClearsMoves, SameMoves
  <2> QED BY <1>0, <2>1, <2>3, MovedTwice
<1>8. ASSUME NEW m \in Missions, Derive(m)
      PROVE  Moved(row, row')
  <2>1. row[m] \in MissionRecord
    BY <1>0 DEF Typed
  <2>2. \A d \in Missions : /\ row'[d].version = row[d].version
                            /\ row'[d].state = row[d].state
                            /\ row'[d].schedule = row[d].schedule
    BY <1>0, <1>8, <2>1 DEF Derive, Typed, MissionRecord
  <2> QED BY <2>2 DEF Moved
<1> QED BY <1>2, <1>3, <1>4, <1>5, <1>6, <1>7, <1>8 DEF Operation

-----------------------------------------------------------------------------
(* What the scheduler hears                                                 *)

\* Of every schedule a step commits, the events have its commit.
Announced(rw, after, events) ==
    \A m \in Missions :
        after[m].schedule # NoSchedule /\ after[m].version # rw[m].version =>
            \E e \in events : /\ e.mission = m /\ e.kind = "schedules"
                              /\ e.version = after[m].version

\* A timer is of a generation no later than the last commit, and is of that
\* commit when it was already, or when the commit's schedule is heard.
LEMMA HeardIs ==
    ASSUME NEW n \in Nat, NEW g \in 0..n, NEW events,
           \A e \in events : e.version \in 0..n
    PROVE  /\ Heard(g, events) \in 0..n
           /\ g = n \/ (\E e \in events : e.kind = "schedules" /\ e.version = n)
                => Heard(g, events) = n
<1> DEFINE S == {g} \cup {e.version : e \in {f \in events : f.kind = "schedules"}}
           latest == Max(S)
<1>1. S \in SUBSET (0..n) /\ S # {}
  OBVIOUS
<1> HIDE DEF S
<1>2. latest \in S /\ \A y \in S : latest >= y
  BY ONLY <1>1, n \in Nat, MaxIs
<1>3. latest \in 0..n
  BY <1>1, <1>2
<1>4. Heard(g, events) =
        IF \E e \in events : e.kind = "leaves" /\ e.version > latest THEN 0 ELSE latest
  BY DEF Heard, S
<1>5. g = n \/ (\E e \in events : e.kind = "schedules" /\ e.version = n) => n \in S
  BY DEF S
<1> HIDE DEF latest
<1>6. n \in S => latest = n
  BY <1>2, <1>3
<1>7. latest = n => ~ \E e \in events : e.version > latest
  OBVIOUS
<1>8. 0 \in 0..n
  OBVIOUS
<1> QED BY <1>3, <1>4, <1>5, <1>6, <1>7, <1>8

LEMMA HeardAllIs ==
    ASSUME NEW rw, NEW after, Typed(rw), Typed(after), Moved(rw, after),
           NEW timers, Timed(rw, timers),
           NEW events, Timely(after, events), Announced(rw, after, events)
    PROVE  /\ Timed(after, HeardAll(timers, events))
           /\ \A m \in Missions :
                  /\ after[m].schedule # NoSchedule
                  /\ after[m].version # rw[m].version \/ timers[m] = after[m].version
                  => HeardAll(timers, events)[m] = after[m].version
<1> DEFINE own(m) == {e \in events : e.mission = m}
<1>1. ASSUME NEW m \in Missions
      PROVE  /\ Heard(timers[m], own(m)) \in 0..after[m].version
             /\ /\ after[m].schedule # NoSchedule
                /\ after[m].version # rw[m].version \/ timers[m] = after[m].version
                => Heard(timers[m], own(m)) = after[m].version
  <2>1. after[m].version \in Nat /\ rw[m].version \in Nat /\ timers[m] \in Nat
    BY VersionsAreNumbers DEF Timed
  <2>2. timers[m] <= rw[m].version /\ rw[m].version <= after[m].version
    BY <2>1 DEF Timed, Moved
  <2>3. timers[m] \in 0..after[m].version
    BY <2>1, <2>2
  <2>4. \A e \in own(m) : e.version \in 0..after[m].version
    BY <2>1 DEF Timely
  <2>5. after[m].schedule # NoSchedule /\ after[m].version # rw[m].version =>
          \E e \in own(m) : e.kind = "schedules" /\ e.version = after[m].version
    BY DEF Announced
  <2> HIDE DEF own
  <2>6. /\ Heard(timers[m], own(m)) \in 0..after[m].version
        /\ timers[m] = after[m].version
             \/ (\E e \in own(m) : e.kind = "schedules" /\ e.version = after[m].version)
             => Heard(timers[m], own(m)) = after[m].version
    BY ONLY <2>1, <2>3, <2>4, HeardIs
  <2> QED BY <2>5, <2>6
<1>2. HeardAll(timers, events) = [m \in Missions |-> Heard(timers[m], own(m))]
  BY DEF HeardAll
<1> HIDE DEF own
<1>3. \A m \in Missions : after[m].version \in Nat
  BY VersionsAreNumbers
<1> QED BY <1>1, <1>2, <1>3 DEF Timed

\* The commits of a step.
LEMMA CommitsAre ==
    ASSUME NEW rw, NEW after, Typed(rw), Typed(after), Scheduled(after), Moved(rw, after)
    PROVE  Timely(after, Commits(rw, after)) /\ Announced(rw, after, Commits(rw, after))
<1> DEFINE Made(m) == [mission : {m}, version : (rw[m].version + 1)..after[m].version,
                       kind : EventKind]
<1>0. \A m \in Missions : rw[m].version \in Nat /\ after[m].version \in Nat
  BY VersionsAreNumbers
<1>1. \A e \in Commits(rw, after) : \E m \in Missions : e \in Made(m)
  BY DEF Commits
<1>2. ASSUME NEW e \in Commits(rw, after)
      PROVE  e.mission \in Missions /\ e.version \in Nat /\ e.version <= after[e.mission].version
  <2>1. PICK m \in Missions : e \in Made(m)
    BY <1>1
  <2>2. e.mission = m /\ e.version \in (rw[m].version + 1)..after[m].version
    BY <2>1
  <2> QED BY <1>0, <2>2
<1>3. ASSUME NEW m \in Missions, after[m].schedule # NoSchedule,
             after[m].version # rw[m].version
      PROVE  \E e \in Commits(rw, after) : /\ e.mission = m /\ e.kind = "schedules"
                                           /\ e.version = after[m].version
  <2> DEFINE e == [mission |-> m, version |-> after[m].version, kind |-> "schedules"]
  <2>1. after[m].version \in (rw[m].version + 1)..after[m].version
    BY <1>0, <1>3 DEF Moved
  <2>2. e \in Made(m)
    BY <2>1 DEF EventKind
  <2>3. after[m].state = "suspended"
    BY <1>3 DEF Scheduled
  <2>4. e.mission = m /\ e.kind = "schedules" /\ e.version = after[m].version
    OBVIOUS
  <2> HIDE DEF e
  <2>5. ~(e.version < after[m].version)
    BY <1>0, <2>4
  <2>6. e \in Commits(rw, after)
    BY <1>3, <2>2, <2>3, <2>4, <2>5 DEF Commits
  <2> QED BY <2>4, <2>6
<1> QED BY <1>2, <1>3 DEF Timely, Announced

LEMMA MovedTimely ==
    ASSUME NEW rw, NEW after, Typed(rw), Typed(after), Moved(rw, after),
           NEW events, Timely(rw, events)
    PROVE  Timely(after, events)
<1> SUFFICES ASSUME NEW e \in events
             PROVE  /\ e.mission \in Missions /\ e.version \in Nat
                    /\ e.version <= after[e.mission].version
  BY DEF Timely
<1>1. e.mission \in Missions /\ e.version \in Nat /\ e.version <= rw[e.mission].version
  BY DEF Timely
<1>2. rw[e.mission].version \in Nat /\ after[e.mission].version \in Nat
  BY <1>1, VersionsAreNumbers
<1>3. rw[e.mission].version <= after[e.mission].version
  BY <1>1, <1>2 DEF Moved
<1> QED BY <1>1, <1>2, <1>3

\* A step's publication, in full or in part, arms the timer of every schedule
\* the step commits.
LEMMA PublicationArms ==
    ASSUME Typed(row), Typed(row'), Scheduled(row'), Moved(row, row'), Timely(row, owed),
           NEW timers, Timed(row, timers),
           Published(timers, row') \/ PublicationFails(timers, row')
    PROVE  /\ Timed(row', armed') /\ Timely(row', owed')
           /\ \A m \in Missions :
                  /\ row'[m].schedule # NoSchedule
                  /\ row'[m].version # row[m].version \/ timers[m] = row'[m].version
                  => armed'[m] = row'[m].version
<1> DEFINE C == Commits(row, row')
<1>1. Timely(row', C) /\ Announced(row, row', C) /\ Timely(row', owed)
  BY CommitsAre, MovedTimely
<1> HIDE DEF C
<1>2. PICK missed \in SUBSET C :
        /\ owed' \subseteq owed \cup missed
        /\ armed' = HeardAll(timers, C \ {e \in missed : e.kind # "schedules"})
  <2>1. CASE Published(timers, row')
    <3>1. C \ {e \in {} : e.kind # "schedules"} = C
      OBVIOUS
    <3> QED BY <2>1, <3>1 DEF Published, C
  <2>2. CASE PublicationFails(timers, row')
    BY <2>2 DEF PublicationFails, C
  <2> QED BY <2>1, <2>2
<1> DEFINE heard == C \ {e \in missed : e.kind # "schedules"}
<1>3. Timely(row', heard) /\ Announced(row, row', heard)
  BY <1>1 DEF Timely, Announced
<1>4. Timely(row', owed')
  BY <1>1, <1>2 DEF Timely
<1> HIDE DEF heard
<1>5. /\ Timed(row', HeardAll(timers, heard))
      /\ \A m \in Missions :
            /\ row'[m].schedule # NoSchedule
            /\ row'[m].version # row[m].version \/ timers[m] = row'[m].version
            => HeardAll(timers, heard)[m] = row'[m].version
  BY <1>3, HeardAllIs
<1> QED BY <1>2, <1>4, <1>5 DEF heard

-----------------------------------------------------------------------------
(* The steps                                                                *)

\* A schedule is handled by a timer or by a delivery of boot recovery.
Handled(rw, timers, deliveries) ==
    \A m \in Missions : rw[m].schedule # NoSchedule =>
        \/ timers[m] = rw[m].schedule.generation
        \/ \E d \in deliveries : d.mission = m /\ d.generation = rw[m].schedule.generation

LEMMA ArmIs ==
    ASSUME NEW rw, Typed(rw), NEW timers, Timed(rw, timers), NEW m \in Missions,
           NEW g \in Nat, g <= rw[m].version
    PROVE  /\ Timed(rw, Arm(timers, m, g))
           /\ \A d \in Missions : d # m => Arm(timers, m, g)[d] = timers[d]
           /\ g = rw[m].version => Arm(timers, m, g)[m] = g
           /\ timers[m] = rw[m].version => Arm(timers, m, g)[m] = timers[m]
<1>1. rw[m].version \in Nat /\ timers \in [Missions -> Nat] /\ timers[m] \in Nat
      /\ timers[m] <= rw[m].version
  BY VersionsAreNumbers DEF Timed
<1>2. Arm(timers, m, g) = [timers EXCEPT ![m] = IF timers[m] > g THEN timers[m] ELSE g]
  BY DEF Arm
<1> QED BY <1>1, <1>2 DEF Timed

\* Every operation leaves each committed schedule with its timer, published or
\* not.
LEMMA PublicationHandles ==
    ASSUME Typed(row), Typed(row'), Scheduled(row), Scheduled(row'), Moved(row, row'),
           Timely(row, owed), NEW timers, Timed(row, timers), NEW deliveries,
           Handled(row, timers, deliveries),
           Published(timers, row') \/ PublicationFails(timers, row')
    PROVE  /\ Timed(row', armed') /\ Timely(row', owed')
           /\ Handled(row', armed', deliveries)
<1>1. /\ Timed(row', armed') /\ Timely(row', owed')
      /\ \A m \in Missions :
            /\ row'[m].schedule # NoSchedule
            /\ row'[m].version # row[m].version \/ timers[m] = row'[m].version
            => armed'[m] = row'[m].version
  BY PublicationArms
<1>2. ASSUME NEW m \in Missions, row'[m].schedule # NoSchedule
      PROVE  \/ armed'[m] = row'[m].schedule.generation
             \/ \E d \in deliveries : /\ d.mission = m
                                      /\ d.generation = row'[m].schedule.generation
  <2>1. row'[m].schedule.generation = row'[m].version
    BY <1>2 DEF Scheduled
  <2>2. CASE row'[m].version # row[m].version
    BY <1>1, <1>2, <2>1, <2>2
  <2>3. CASE row'[m].version = row[m].version
    <3>1. row'[m].schedule = row[m].schedule
      BY <2>3, VersionsAreNumbers DEF Moved
    <3> QED BY <1>1, <1>2, <2>1, <2>3, <3>1 DEF Handled
  <2> QED BY <2>2, <2>3
<1> QED BY <1>1, <1>2 DEF Handled

\* A delivery of generation g for m, by its timer or by boot recovery: g needs
\* no other timer, and no other schedule loses its own.
LEMMA FireHandles ==
    ASSUME Typed(row), Typed(row'), Scheduled(row), Timely(row, owed), Timed(row, armed),
           NEW m \in Missions, NEW g \in Nat, g <= row[m].version,
           NEW deliveries, Handled(row, armed, deliveries), Fire(m, g)
    PROVE  /\ Clears(row, row')
           /\ Timed(row', armed') /\ Timely(row', owed') /\ Scheduled(row')
           /\ Handled(row', armed',
                      {d \in deliveries : ~(d.mission = m /\ d.generation = g)})
<1> DEFINE timers == IF armed[m] = g THEN [armed EXCEPT ![m] = 0] ELSE armed
           current == row[m].state = "suspended" /\ row[m].schedule.generation = g
           rest == {d \in deliveries : ~(d.mission = m /\ d.generation = g)}
<1>0. \A d \in Missions : row[d].version \in Nat /\ row'[d].version \in Nat
  BY VersionsAreNumbers
<1>1. /\ row' = IF current THEN ApplyExpiry(row, m) ELSE row
      /\ \/ /\ row' = row
            /\ armed' = IF current THEN Arm(timers, m, g) ELSE timers
            /\ UNCHANGED <<owed, failures>>
         \/ /\ row' # row
            /\ Published(timers, row')
         \/ /\ row' # row
            /\ armed' = HeardAll(timers, Commits(row, row') \cup owed)
            /\ owed' = {}
            /\ UNCHANGED failures
         \/ /\ row' # row
            /\ PublicationFails(Arm(timers, m, g), row')
  BY DEF Fire
<1>2. /\ Timed(row, timers)
      /\ \A d \in Missions : d # m => timers[d] = armed[d]
      /\ armed[m] # g => timers[m] = armed[m]
  BY <1>0 DEF Timed
<1> HIDE DEF timers
<1>3. /\ Timed(row, Arm(timers, m, g))
      /\ \A d \in Missions : d # m => Arm(timers, m, g)[d] = timers[d]
      /\ g = row[m].version => Arm(timers, m, g)[m] = g
      /\ timers[m] = row[m].version => Arm(timers, m, g)[m] = timers[m]
  BY <1>2, ArmIs
<1>4. Clears(row, row') /\ (row' = row \/ row'[m].schedule = NoSchedule)
  BY <1>1, ApplyExpiryClears DEF Clears, Cleared
<1>5. Moved(row, row') /\ Scheduled(row')
  BY <1>4, ClearsMoves, MovedScheduled
<1>6. \A d \in Missions : row'[d].schedule # NoSchedule =>
        row'[d] = row[d] /\ row'[d].schedule.generation = row'[d].version
  BY <1>4, <1>5 DEF Clears, Cleared, Scheduled
<1>7. Timely(row', owed)
  BY <1>5, MovedTimely
\* The timers a step starts from still handle what the delivery was not for.
<1>8. ASSUME NEW t, NEW d \in Missions, row'[d].schedule # NoSchedule,
             t = timers \/ t = Arm(timers, m, g),
             d # m \/ g # row[m].schedule.generation
      PROVE  \/ t[d] = row'[d].version
             \/ \E e \in rest : e.mission = d /\ e.generation = row'[d].schedule.generation
  <2>1. row[d].schedule # NoSchedule /\ row'[d] = row[d]
        /\ row[d].schedule.generation = row[d].version
    BY <1>6, <1>8
  <2>2. \/ armed[d] = row[d].schedule.generation
        \/ \E e \in deliveries : e.mission = d /\ e.generation = row[d].schedule.generation
    BY <2>1 DEF Handled
  <2>3. ASSUME NEW e \in deliveries, e.mission = d,
               e.generation = row[d].schedule.generation
        PROVE  e \in rest
    BY <1>8, <2>3
  <2>4. armed[d] = row[d].version => timers[d] = row[d].version
    BY <1>2, <1>8, <2>1
  <2>5. timers[d] = row[d].version => t[d] = row[d].version
    BY <1>3, <1>8
  <2> QED BY <2>1, <2>2, <2>3, <2>4, <2>5
<1>9. CASE row' = row
  <2>1. armed' = (IF current THEN Arm(timers, m, g) ELSE timers) /\ owed' = owed
    BY <1>1, <1>9
  <2>2. Timed(row', armed') /\ Timely(row', owed')
    BY <1>2, <1>3, <1>7, <1>9, <2>1
  <2>3. ASSUME NEW d \in Missions, row'[d].schedule # NoSchedule
        PROVE  \/ armed'[d] = row'[d].schedule.generation
               \/ \E e \in rest : e.mission = d /\ e.generation = row'[d].schedule.generation
    <3>1. row'[d].schedule.generation = row'[d].version
      BY <1>6, <2>3
    <3>2. CASE d # m \/ g # row[m].schedule.generation
      BY <1>8, <2>1, <2>3, <3>1, <3>2
    <3>3. CASE d = m /\ g = row[m].schedule.generation
      <4>1. current /\ g = row[m].version
        BY <1>9, <2>3, <3>3 DEF Scheduled
      <4> QED BY <1>3, <1>9, <2>1, <3>3, <4>1
    <3> QED BY <3>2, <3>3
  <2>4. Handled(row', armed', rest)
    BY <2>3 DEF Handled
  <2> QED BY <1>4, <1>5, <2>2, <2>4
<1>10. CASE row' # row
  <2>1. row'[m].schedule = NoSchedule
    BY <1>4, <1>10
  <2>2. /\ Timed(row', armed') /\ Timely(row', owed')
        /\ \E t \in {timers, Arm(timers, m, g)} : \A d \in Missions :
              /\ row'[d].schedule # NoSchedule
              /\ row'[d].version # row[d].version \/ t[d] = row'[d].version
              => armed'[d] = row'[d].version
    <3>1. CASE Published(timers, row')
      BY <1>2, <1>5, <3>1, PublicationArms
    <3>2. CASE PublicationFails(Arm(timers, m, g), row')
      BY <1>3, <1>5, <3>2, PublicationArms
    <3>3. CASE armed' = HeardAll(timers, Commits(row, row') \cup owed) /\ owed' = {}
      <4> DEFINE heard == Commits(row, row') \cup owed
      <4>1. Timely(row', Commits(row, row')) /\ Announced(row, row', Commits(row, row'))
        BY <1>5, CommitsAre
      <4>2. Timely(row', heard) /\ Announced(row, row', heard)
        BY <1>7, <4>1 DEF Timely, Announced
      <4>3. Timely(row', owed')
        BY <3>3 DEF Timely
      <4> HIDE DEF heard
      <4>4. /\ Timed(row', HeardAll(timers, heard))
            /\ \A d \in Missions :
                  /\ row'[d].schedule # NoSchedule
                  /\ row'[d].version # row[d].version \/ timers[d] = row'[d].version
                  => HeardAll(timers, heard)[d] = row'[d].version
        BY <1>2, <1>5, <4>2, HeardAllIs
      <4> QED BY <3>3, <4>3, <4>4 DEF heard
    <3> QED BY <1>1, <1>10, <3>1, <3>2, <3>3
  <2>3. PICK t \in {timers, Arm(timers, m, g)} : \A d \in Missions :
              /\ row'[d].schedule # NoSchedule
              /\ row'[d].version # row[d].version \/ t[d] = row'[d].version
              => armed'[d] = row'[d].version
    BY <2>2
  <2>4. ASSUME NEW d \in Missions, row'[d].schedule # NoSchedule
        PROVE  \/ armed'[d] = row'[d].schedule.generation
               \/ \E e \in rest : e.mission = d /\ e.generation = row'[d].schedule.generation
    <3>1. d # m
      BY <2>1, <2>4
    <3>2. \/ t[d] = row'[d].version
          \/ \E e \in rest : e.mission = d /\ e.generation = row'[d].schedule.generation
      BY <1>8, <2>4, <3>1
    <3> QED BY <1>6, <2>3, <2>4, <3>2
  <2>5. Handled(row', armed', rest)
    BY <2>4 DEF Handled
  <2> QED BY <1>4, <1>5, <2>2, <2>5
<1> QED BY <1>9, <1>10

LEMMA NoScheduleLostIs ==
    NoScheduleLost <=> (up => Handled(row, armed, todo))
  BY DEF NoScheduleLost, Handled

LEMMA LifecycleSteps ==
    ASSUME IInv, Scheduled(row), Operation
    PROVE  IInv' /\ Moved(row, row') /\ Scheduled(row')
<1>1. IInv'
  BY Inductive DEF Next
<1>2. Moved(row, row')
  BY <1>1, OperationMoves DEF IInv
<1> QED BY <1>1, <1>2, MovedScheduled DEF IInv, Good

\* A delivery, and the records it ends.
LEMMA FireSteps ==
    ASSUME IInv, UNCHANGED now, NEW m \in Missions, NEW g, Fire(m, g)
    PROVE  /\ IInv' /\ [Next]_vars
           /\ row' = row \/ row' = ApplyExpiry(row, m)
           /\ row[m].state = "suspended" /\ row[m].schedule.generation = g
                => row' = ApplyExpiry(row, m)
<1>1. /\ row' = row \/ row' = ApplyExpiry(row, m)
      /\ row[m].state = "suspended" /\ row[m].schedule.generation = g
           => row' = ApplyExpiry(row, m)
  BY DEF Fire
<1>2. [Next]_vars
  BY <1>1 DEF Next, Operation, Observe, vars
<1> QED BY <1>1, <1>2, Inductive

LEMMA NoTimersTimed ==
    ASSUME NEW rw, Typed(rw)
    PROVE  Timed(rw, NoTimers)
<1>1. \A m \in Missions : 0 <= rw[m].version
  BY VersionsAreNumbers
<1> QED BY <1>1 DEF Timed, NoTimers

LEMMA CommitKeeps ==
    ASSUME SchedulerInv, Commit
    PROVE  SchedulerInv'
<1> USE DEF SchedulerInv
<1>1. up /\ todo = {} /\ Operation /\ (Published(armed, row') \/ PublicationFails(armed, row'))
      /\ UNCHANGED <<up, todo, bootAt, crashes>>
  BY DEF Commit, Serving
<1>2. IInv' /\ Moved(row, row') /\ Scheduled(row')
  BY <1>1, LifecycleSteps
<1>3. Typed(row) /\ Typed(row')
  BY <1>2 DEF IInv, Good
<1>4. Handled(row, armed, todo)
  BY <1>1, NoScheduleLostIs
<1>5. Timed(row', armed') /\ Timely(row', owed') /\ Handled(row', armed', todo)
  BY <1>1, <1>2, <1>3, <1>4, PublicationHandles
<1>6. now' = now
  BY <1>1 DEF Operation, Create, Supersede, Observe, Suspend, Resume, End, Derive
<1>7. Deliveries'
  BY <1>1, <1>6 DEF Deliveries
<1>8. NoScheduleLost'
  BY <1>1, <1>5 DEF NoScheduleLost, Handled
<1>9. Recovering'
  BY <1>1 DEF Recovering
<1> QED BY <1>2, <1>5, <1>7, <1>8, <1>9

LEMMA CommitAndCrashKeeps ==
    ASSUME SchedulerInv, CommitAndCrash
    PROVE  SchedulerInv'
<1> USE DEF SchedulerInv
<1>1. /\ todo = {} /\ Operation /\ up' = FALSE /\ armed' = NoTimers
      /\ owed' = owed \cup Commits(row, row') /\ UNCHANGED <<todo, bootAt>>
  BY DEF CommitAndCrash, Serving
<1>2. IInv' /\ Moved(row, row') /\ Scheduled(row')
  BY <1>1, LifecycleSteps
<1>3. Typed(row) /\ Typed(row')
  BY <1>2 DEF IInv, Good
<1>4. Timely(row', owed) /\ Timely(row', Commits(row, row'))
  BY <1>2, <1>3, CommitsAre, MovedTimely
<1>5. Timely(row', owed')
  BY <1>1, <1>4 DEF Timely
<1>6. Timed(row', armed')
  BY <1>1, <1>3, NoTimersTimed
<1>7. now' = now
  BY <1>1 DEF Operation, Create, Supersede, Observe, Suspend, Resume, End, Derive
<1>8. Deliveries'
  BY <1>1, <1>7 DEF Deliveries
<1>9. NoScheduleLost' /\ Recovering'
  BY <1>1 DEF NoScheduleLost, Recovering
<1> QED BY <1>2, <1>5, <1>6, <1>8, <1>9

LEMMA CrashKeeps ==
    ASSUME SchedulerInv, Crash
    PROVE  SchedulerInv'
<1> USE DEF SchedulerInv
<1>1. /\ up' = FALSE /\ armed' = NoTimers /\ todo' = {}
      /\ row' = row /\ now' = now /\ bootAt' = bootAt /\ owed' = owed
  BY DEF Crash
<1>2. IInv' /\ Scheduled(row') /\ Timely(row', owed')
  BY <1>1 DEF IInv
<1>3. Timed(row', armed')
  BY <1>1, NoTimersTimed DEF IInv, Good
<1>4. Deliveries'
  BY <1>1 DEF Deliveries
<1>5. NoScheduleLost' /\ Recovering'
  BY <1>1 DEF NoScheduleLost, Recovering
<1> QED BY <1>2, <1>3, <1>4, <1>5

\* While boot recovery goes on, the expiry clock's writes leave what is not
\* overdue as it was.
LEMMA ClearsRecovering ==
    ASSUME Clears(row, row'), NEW m \in Missions, row'[m].schedule # NoSchedule
    PROVE  row'[m] = row[m] /\ row[m].schedule # NoSchedule /\ DueAt(m)' = DueAt(m)
<1>1. row'[m] = row[m]
  BY DEF Clears, Cleared
<1> QED BY <1>1 DEF DueAt

LEMMA ClearsDeliveries ==
    ASSUME Typed(row), Typed(row'), Clears(row, row'), Deliveries,
           todo' \subseteq todo, bootAt' = bootAt, now' = now
    PROVE  Deliveries'
<1>1. Moved(row, row')
  BY ClearsMoves
<1>2. ASSUME NEW d \in todo
      PROVE  /\ d.mission \in Missions /\ d.generation \in Nat
             /\ d.generation <= row'[d.mission].version
  <2>1. d.mission \in Missions /\ d.generation \in Nat
        /\ d.generation <= row[d.mission].version
    BY DEF Deliveries
  <2>2. row[d.mission].version \in Nat /\ row'[d.mission].version \in Nat
        /\ row[d.mission].version <= row'[d.mission].version
    BY <1>1, <2>1, VersionsAreNumbers DEF Moved
  <2> QED BY <2>1, <2>2
<1> QED BY <1>2 DEF Deliveries

LEMMA DeliverKeeps ==
    ASSUME SchedulerInv, NEW m \in Missions, Deliver(m)
    PROVE  SchedulerInv' /\ [Next]_vars
<1> USE DEF SchedulerInv
<1>1. /\ up /\ Fire(m, armed[m])
      /\ now' = now /\ up' = up /\ todo' = todo /\ bootAt' = bootAt
  BY DEF Deliver
<1>2. IInv' /\ [Next]_vars
  BY <1>1, FireSteps
<1>3. Typed(row) /\ Typed(row')
  BY <1>2 DEF IInv, Good
<1>4. Handled(row, armed, todo)
  BY <1>1, NoScheduleLostIs
<1>5. armed[m] \in Nat /\ armed[m] <= row[m].version
  BY DEF Timed
<1> DEFINE rest == {d \in todo : ~(d.mission = m /\ d.generation = armed[m])}
<1>6. /\ Clears(row, row')
      /\ Timed(row', armed') /\ Timely(row', owed') /\ Scheduled(row')
      /\ Handled(row', armed', rest)
  BY <1>1, <1>3, <1>4, <1>5, FireHandles
<1>7. NoScheduleLost'
  BY <1>1, <1>6 DEF NoScheduleLost, Handled
<1>8. Deliveries'
  BY <1>1, <1>3, <1>6, ClearsDeliveries
<1>9. Recovering'
  <2> SUFFICES ASSUME up, todo # {}, NEW d \in Missions, row'[d].schedule # NoSchedule
               PROVE  \/ DueAt(d)' > bootAt
                      \/ \E e \in todo : /\ e.mission = d
                                         /\ e.generation = row'[d].schedule.generation
                                         /\ e.due = DueAt(d)'
    BY <1>1 DEF Recovering
  <2>1. row'[d] = row[d] /\ row[d].schedule # NoSchedule /\ DueAt(d)' = DueAt(d)
    BY <1>6, ClearsRecovering
  <2> QED BY <2>1 DEF Recovering
<1> QED BY <1>2, <1>6, <1>7, <1>8, <1>9

\* A delivery of boot recovery that was overdue has ended the schedule it was
\* for, and one that was not is armed: of what is still scheduled, only what is
\* left to recover can be overdue.
LEMMA RecoverPasses ==
    ASSUME SchedulerInv, NEW delivery \in todo, Recover(delivery), Clears(row, row'),
           NEW m \in Missions, row'[m].schedule # NoSchedule
    PROVE  \/ DueAt(m)' > bootAt
           \/ \E e \in todo' : /\ e.mission = m
                               /\ e.generation = row'[m].schedule.generation
                               /\ e.due = DueAt(m)'
<1> USE DEF SchedulerInv
<1>1. row'[m] = row[m] /\ row[m].schedule # NoSchedule /\ DueAt(m)' = DueAt(m)
  BY ClearsRecovering
<1>2. /\ up /\ todo' = todo \ {delivery} /\ UNCHANGED <<now, bootAt>>
      /\ \/ delivery.due <= bootAt /\ Fire(delivery.mission, delivery.generation)
         \/ delivery.due > bootAt
  BY DEF Recover
<1>3. \/ DueAt(m) > bootAt
      \/ \E e \in todo : /\ e.mission = m /\ e.generation = row[m].schedule.generation
                         /\ e.due = DueAt(m)
  BY <1>1, <1>2 DEF Recovering
<1>4. CASE \E e \in todo \ {delivery} :
              /\ e.mission = m /\ e.generation = row[m].schedule.generation
              /\ e.due = DueAt(m)
  BY <1>1, <1>2, <1>4
<1>5. CASE /\ delivery.mission = m /\ delivery.generation = row[m].schedule.generation
           /\ delivery.due = DueAt(m) /\ delivery.due <= bootAt
           /\ Fire(delivery.mission, delivery.generation)
  <2>1. row[m].state = "suspended"
    BY <1>1 DEF Scheduled
  <2>2. row' = ApplyExpiry(row, m)
    BY <1>2, <1>5, <2>1 DEF Fire
  <2>3. /\ row[m].schedule.until \in Nat /\ ExpiresAt[m] \in Nat
        /\ bootAt \in Nat /\ now \in Nat /\ bootAt <= now
    <3>1. row[m].schedule \in Schedule
      BY <1>1 DEF IInv, Good, Typed, MissionRecord
    <3>2. now \in Nat
      BY BoundAssumption DEF IInv
    <3> QED BY <3>1, <3>2, ExpiryAssumption DEF Schedule, Deliveries
  <2>4. row[m].schedule.until <= now \/ ExpiresAt[m] <= now
    BY <1>5, <2>3 DEF DueAt
  <2>5. Cleared(row[m], row'[m])
    BY <1>1, <2>1, <2>2, <2>4, ApplyExpiryClears DEF IInv, Good
  <2> QED BY <1>1, <2>5 DEF Cleared
<1>6. DueAt(m) > bootAt \/ ~(DueAt(m) > bootAt)
  OBVIOUS
<1> QED BY <1>1, <1>2, <1>3, <1>4, <1>5

LEMMA RecoverKeeps ==
    ASSUME SchedulerInv, NEW delivery \in todo, Recover(delivery)
    PROVE  SchedulerInv' /\ [Next]_vars /\ Clears(row, row')
<1> USE DEF SchedulerInv
<1> DEFINE m == delivery.mission
           g == delivery.generation
           rest == {d \in todo : ~(d.mission = m /\ d.generation = g)}
<1>1. /\ up /\ todo' = todo \ {delivery}
      /\ \/ delivery.due <= bootAt /\ Fire(m, g)
         \/ armed' = Arm(armed, m, g) /\ UNCHANGED <<row, owed, failures>>
      /\ now' = now /\ up' = up /\ bootAt' = bootAt
  BY DEF Recover
<1>2. m \in Missions /\ g \in Nat /\ g <= row[m].version
  BY DEF Deliveries
<1> HIDE DEF m, g
<1>3. IInv' /\ [Next]_vars
  <2>1. CASE Fire(m, g)
    BY <1>1, <1>2, <2>1, FireSteps
  <2>2. CASE UNCHANGED row
    BY <1>1, <2>2 DEF IInv, vars
  <2> QED BY <1>1, <2>1, <2>2
<1>4. Typed(row) /\ Typed(row')
  BY <1>3 DEF IInv, Good
<1>5. Handled(row, armed, todo)
  BY <1>1, NoScheduleLostIs
<1>6. /\ Clears(row, row')
      /\ Timed(row', armed') /\ Timely(row', owed') /\ Scheduled(row')
      /\ Handled(row', armed', rest)
  <2>1. CASE Fire(m, g)
    BY <1>2, <1>4, <1>5, <2>1, FireHandles
  <2>2. CASE armed' = Arm(armed, m, g) /\ UNCHANGED <<row, owed>>
    <3>1. /\ Timed(row, Arm(armed, m, g))
          /\ \A d \in Missions : d # m => Arm(armed, m, g)[d] = armed[d]
          /\ g = row[m].version => Arm(armed, m, g)[m] = g
          /\ armed[m] = row[m].version => Arm(armed, m, g)[m] = armed[m]
      BY <1>2, <1>4, ArmIs
    <3>2. ASSUME NEW d \in Missions, row[d].schedule # NoSchedule
          PROVE  \/ armed'[d] = row[d].schedule.generation
                 \/ \E e \in rest : e.mission = d /\ e.generation = row[d].schedule.generation
      <4>1. row[d].schedule.generation = row[d].version
        BY <3>2 DEF Scheduled
      <4>2. \/ armed[d] = row[d].schedule.generation
            \/ \E e \in todo : e.mission = d /\ e.generation = row[d].schedule.generation
        BY <1>5, <3>2 DEF Handled
      <4>3. CASE armed[d] = row[d].schedule.generation
        BY <2>2, <3>1, <4>1, <4>3
      <4>4. ASSUME NEW e \in todo, e.mission = d, e.generation = row[d].schedule.generation
            PROVE  \/ armed'[d] = row[d].schedule.generation
                   \/ e \in rest
        BY <2>2, <3>1, <4>1, <4>4
      <4> QED BY <4>2, <4>3, <4>4
    <3>3. Handled(row', armed', rest)
      BY <2>2, <3>2 DEF Handled
    <3>4. Clears(row, row')
      BY <2>2 DEF Clears
    <3> QED BY <2>2, <3>1, <3>3, <3>4
  <2> QED BY <1>1, <2>1, <2>2
<1>7. rest \subseteq todo'
  BY <1>1 DEF m, g
<1>8. NoScheduleLost'
  BY <1>1, <1>6, <1>7 DEF NoScheduleLost, Handled
<1>9. Deliveries'
  BY <1>1, <1>4, <1>6, ClearsDeliveries
<1>10. Recovering'
  BY <1>1, <1>6, RecoverPasses DEF Recovering
<1> QED BY <1>3, <1>6, <1>8, <1>9, <1>10

LEMMA DrainKeeps ==
    ASSUME SchedulerInv, Drain
    PROVE  SchedulerInv'
<1> USE DEF SchedulerInv
<1>1. PICK events \in SUBSET owed : armed' = HeardAll(armed, events) /\ owed' = owed \ events
  BY DEF Drain
<1>2. /\ up /\ todo = {}
      /\ row' = row /\ now' = now /\ up' = up /\ todo' = todo /\ bootAt' = bootAt
  BY DEF Drain, Serving
<1>3. Typed(row)
  BY DEF IInv, Good
<1>4. Timely(row, events) /\ Announced(row, row, events) /\ Timely(row, owed \ events)
  BY DEF Timely, Announced
<1>5. /\ Timed(row, HeardAll(armed, events))
      /\ \A m \in Missions : row[m].schedule # NoSchedule /\ armed[m] = row[m].version =>
            HeardAll(armed, events)[m] = row[m].version
  BY <1>3, <1>4, SameMoves, HeardAllIs
<1>6. IInv' /\ Scheduled(row') /\ Timely(row', owed') /\ Timed(row', armed')
  BY <1>1, <1>2, <1>4, <1>5 DEF IInv
<1>7. Deliveries' /\ Recovering'
  BY <1>2 DEF Deliveries, Recovering
<1>8. NoScheduleLost'
  <2> SUFFICES ASSUME NEW m \in Missions, row[m].schedule # NoSchedule
               PROVE  armed'[m] = row[m].schedule.generation
    BY <1>2 DEF NoScheduleLost
  <2>1. armed[m] = row[m].schedule.generation /\ row[m].schedule.generation = row[m].version
    BY <1>2 DEF NoScheduleLost, Scheduled
  <2> QED BY <1>1, <1>5, <2>1
<1> QED BY <1>6, <1>7, <1>8

LEMMA BootKeeps ==
    ASSUME SchedulerInv, Boot
    PROVE  SchedulerInv'
<1> USE DEF SchedulerInv
<1>1. /\ armed' = HeardAll(NoTimers, owed) /\ owed' = {} /\ todo' = Schedules
      /\ bootAt' = now /\ row' = row /\ now' = now /\ up' = TRUE
  BY DEF Boot
<1>2. Typed(row) /\ Timed(row, NoTimers) /\ Announced(row, row, owed)
  BY NoTimersTimed DEF IInv, Good, Announced
<1>3. Timed(row, HeardAll(NoTimers, owed))
  BY <1>2, SameMoves, HeardAllIs
<1>4. IInv' /\ Scheduled(row') /\ Timely(row', owed') /\ Timed(row', armed')
  BY <1>1, <1>3 DEF IInv, Timely
<1>5. \A d \in Schedules :
          \E m \in Missions : /\ row[m].schedule # NoSchedule /\ d.mission = m
                              /\ d.generation = row[m].schedule.generation
  BY DEF Schedules
<1>6. \A m \in Missions : row[m].schedule # NoSchedule =>
          \E d \in Schedules : /\ d.mission = m /\ d.generation = row[m].schedule.generation
                               /\ d.due = DueAt(m)
  <2> SUFFICES ASSUME NEW m \in Missions, row[m].schedule # NoSchedule
               PROVE  \E d \in Schedules : /\ d.mission = m /\ d.due = DueAt(m)
                                           /\ d.generation = row[m].schedule.generation
    OBVIOUS
  <2>1. row[m].state = "suspended"
    BY DEF Scheduled
  <2> DEFINE d == [mission |-> m, generation |-> row[m].schedule.generation, due |-> DueAt(m)]
  <2>2. d \in Schedules
    BY <2>1 DEF Schedules
  <2> QED BY <2>2
<1>7. Deliveries'
  <2>1. now \in Nat
    BY BoundAssumption DEF IInv
  <2>2. \A m \in Missions : row[m].schedule # NoSchedule =>
            row[m].schedule.generation = row[m].version /\ row[m].version \in Nat
    BY <1>2, VersionsAreNumbers DEF Scheduled
  <2>3. \A d \in Schedules : /\ d.mission \in Missions /\ d.generation \in Nat
                             /\ d.generation <= row[d.mission].version
    BY <1>5, <2>2
  <2> QED BY <1>1, <2>1, <2>3 DEF Deliveries
<1>8. NoScheduleLost'
  BY <1>1, <1>6 DEF NoScheduleLost
<1>9. Recovering'
  <2>1. \A m \in Missions : DueAt(m)' = DueAt(m)
    BY <1>1 DEF DueAt
  <2> QED BY <1>1, <1>6, <2>1 DEF Recovering
<1> QED BY <1>4, <1>7, <1>8, <1>9

LEMMA ClockTickKeeps ==
    ASSUME SchedulerInv, ClockTick
    PROVE  SchedulerInv' /\ [Next]_vars
<1> USE DEF SchedulerInv
<1>1. /\ Tick /\ now' = now + 1 /\ row' = row
      /\ up' = up /\ armed' = armed /\ todo' = todo /\ bootAt' = bootAt /\ owed' = owed
  BY DEF ClockTick, Tick
<1>2. IInv' /\ [Next]_vars
  BY <1>1, Inductive DEF Next
<1>3. Scheduled(row') /\ Timely(row', owed') /\ Timed(row', armed')
  BY <1>1
<1>4. now \in Nat
  BY BoundAssumption DEF IInv
<1>5. Deliveries'
  BY <1>1, <1>4 DEF Deliveries
<1>6. \A m \in Missions : DueAt(m)' = DueAt(m)
  BY <1>1 DEF DueAt
<1>7. NoScheduleLost' /\ Recovering'
  BY <1>1, <1>6 DEF NoScheduleLost, Recovering
<1> QED BY <1>2, <1>3, <1>5, <1>7

-----------------------------------------------------------------------------
(* The theorems                                                             *)

LEMMA SchedulerInductive ==
    SchedulerInv /\ [SchedulerNext]_svars => SchedulerInv' /\ [Next]_vars
<1> SUFFICES ASSUME SchedulerInv, [SchedulerNext]_svars
             PROVE  SchedulerInv' /\ [Next]_vars
  OBVIOUS
<1>1. CASE Commit
  <2>1. [Next]_vars
    BY <1>1 DEF Commit, Next
  <2> QED BY <1>1, <2>1, CommitKeeps
<1>2. CASE CommitAndCrash
  <2>1. [Next]_vars
    BY <1>2 DEF CommitAndCrash, Next
  <2> QED BY <1>2, <2>1, CommitAndCrashKeeps
<1>3. CASE Crash
  <2>1. [Next]_vars
    BY <1>3 DEF Crash, vars
  <2> QED BY <1>3, <2>1, CrashKeeps
<1>4. ASSUME NEW m \in Missions, Deliver(m)
      PROVE  SchedulerInv' /\ [Next]_vars
  BY <1>4, DeliverKeeps
<1>5. CASE Drain
  <2>1. [Next]_vars
    BY <1>5 DEF Drain, vars
  <2> QED BY <1>5, <2>1, DrainKeeps
<1>6. CASE Boot
  <2>1. [Next]_vars
    BY <1>6 DEF Boot, vars
  <2> QED BY <1>6, <2>1, BootKeeps
<1>7. ASSUME NEW delivery \in todo, Recover(delivery)
      PROVE  SchedulerInv' /\ [Next]_vars
  BY <1>7, RecoverKeeps
<1>8. CASE ClockTick
  BY <1>8, ClockTickKeeps
<1>9. CASE UNCHANGED svars
  <2>1. /\ row' = row /\ now' = now /\ up' = up /\ armed' = armed /\ todo' = todo
        /\ bootAt' = bootAt /\ owed' = owed
    BY <1>9 DEF svars
  <2>2. IInv' /\ Scheduled(row') /\ Timely(row', owed') /\ Timed(row', armed')
    BY <2>1 DEF SchedulerInv, IInv
  <2>3. \A m \in Missions : DueAt(m)' = DueAt(m)
    BY <2>1 DEF DueAt
  <2>4. Deliveries' /\ NoScheduleLost' /\ Recovering'
    BY <2>1, <2>3 DEF SchedulerInv, Deliveries, NoScheduleLost, Recovering
  <2>5. [Next]_vars
    BY <2>1 DEF vars
  <2> QED BY <2>2, <2>4, <2>5 DEF SchedulerInv
<1> QED BY <1>1, <1>2, <1>3, <1>4, <1>5, <1>6, <1>7, <1>8, <1>9 DEF SchedulerNext

LEMMA SchedulerInitially == SchedulerInit => SchedulerInv
<1> SUFFICES ASSUME SchedulerInit PROVE SchedulerInv
  OBVIOUS
<1>1. /\ Init /\ armed = NoTimers /\ todo = {} /\ bootAt = 0 /\ owed = {}
  BY DEF SchedulerInit
<1>2. IInv
  BY <1>1, Initially
<1>3. \A m \in Missions : row[m] = Absent
  BY <1>1 DEF Init
<1>4. \A m \in Missions : row[m].schedule = NoSchedule /\ row[m].version = 0
  BY <1>3 DEF Absent
<1>5. Timed(row, armed)
  BY <1>1, <1>2, NoTimersTimed DEF IInv, Good
<1>6. Scheduled(row) /\ NoScheduleLost /\ Recovering
  BY <1>4 DEF Scheduled, NoScheduleLost, Recovering
<1>7. Timely(row, owed) /\ Deliveries
  BY <1>1 DEF Timely, Deliveries, Init
<1> QED BY <1>2, <1>5, <1>6, <1>7 DEF SchedulerInv

\* For every tree of Missions, any failed publications and any process losses:
\* what the scheduler does to the records is a lifecycle behaviour of them, so
\* every property proved of the records holds under it (fireSchedule writes
\* only what the expiry clock would).
THEOREM RecordsStayLifecycle == SchedulerSpec => Spec
<1>1. SchedulerInit => Init
  BY DEF SchedulerInit
<1> QED BY SchedulerInitially, SchedulerInductive, <1>1, PTL DEF SchedulerSpec, Spec

\* For every tree of Missions, any failed publications and any process losses:
\* while the process runs, a committed schedule has a timer of exactly its
\* generation or boot recovery still has it to handle (onLifecycleCommit, arm,
\* deliver and recover, in any order the commits are heard).
THEOREM SchedulesAreKept == SchedulerSpec => []NoScheduleLost
<1>1. SchedulerInv => NoScheduleLost
  BY DEF SchedulerInv
<1> QED BY SchedulerInitially, SchedulerInductive, <1>1, PTL DEF SchedulerSpec

\* For every tree of Missions: when boot recovery ends and requests are served,
\* no schedule read as overdue at boot is left (recover delivers each, whatever
\* timers fired between two deliveries).
THEOREM BootAppliesOverdue == SchedulerSpec => OverdueAppliedBeforeServing
<1>1. SchedulerInv /\ [SchedulerNext]_svars =>
        [todo # {} /\ todo' = {} /\ up' =>
           \A m \in Missions : row'[m].schedule # NoSchedule => DueAt(m)' > bootAt]_svars
  <2> SUFFICES ASSUME SchedulerInv, SchedulerNext, todo # {}, todo' = {}, up',
                      NEW m \in Missions, row'[m].schedule # NoSchedule
               PROVE  DueAt(m)' > bootAt
    OBVIOUS
  <2>1. CASE Commit \/ CommitAndCrash \/ Crash \/ Drain \/ ClockTick
    BY <2>1 DEF Commit, CommitAndCrash, Crash, Drain, ClockTick, Serving
  <2>2. ASSUME NEW d \in Missions, Deliver(d)
        PROVE  FALSE
    BY <2>2 DEF Deliver
  <2>3. CASE Boot
    <3>1. row' = row /\ Schedules = {}
      BY <2>3 DEF Boot
    <3>2. row[m].state = "suspended" /\ row[m].schedule # NoSchedule
      BY <3>1 DEF SchedulerInv, Scheduled
    <3> QED BY <3>1, <3>2 DEF Schedules
  <2>4. ASSUME NEW delivery \in todo, Recover(delivery)
        PROVE  DueAt(m)' > bootAt
    <3>1. Clears(row, row')
      BY <2>4, RecoverKeeps
    <3> QED BY <2>4, <3>1, RecoverPasses
  <2> QED BY <2>1, <2>2, <2>3, <2>4 DEF SchedulerNext
<1> QED BY SchedulerInitially, SchedulerInductive, <1>1, PTL
         DEF SchedulerSpec, OverdueAppliedBeforeServing
=============================================================================
