------------------------ MODULE SuspensionScheduler ------------------------
(***************************************************************************)
(* The suspension scheduler over the Mission records: one process timer    *)
(* per Mission, armed by the published commit of a schedule, consumed by   *)
(* its delivery, lost in a crash and rebuilt at boot from the persisted    *)
(* schedules (kernel/suspension-scheduler.ts, kernel.ts fireSchedule).     *)
(*                                                                         *)
(* Commits are published after their transaction, at least once.  A        *)
(* publication that fails leaves its event owed to a later request's       *)
(* drain, so the scheduler hears events late, again and out of order.      *)
(***************************************************************************)
EXTENDS MissionLifecycle, FiniteSetsExt

CONSTANTS
    MaxFailures,    \* bound on the transactions whose publication fails
    MaxCrashes      \* bound on the process losses

ASSUME FaultAssumption == MaxFailures \in Nat /\ MaxCrashes \in Nat

VARIABLES
    up,        \* whether the process runs
    armed,     \* armed[m]: the generation m's timer is for, 0 for no timer
    todo,      \* boot recovery's schedules still to arm or deliver
    bootAt,    \* the instant boot recovery read its schedules
    owed,      \* committed events not yet published
    failures,  \* publications that have failed
    crashes    \* process losses so far

svars == <<row, now, up, armed, todo, bootAt, owed, failures, crashes>>

NoTimers == [m \in Missions |-> 0]
Serving == up /\ todo = {}

-----------------------------------------------------------------------------
(* Lifecycle commits                                                       *)

\* What the scheduler tells apart of a commit: one that schedules the end of a
\* suspension, and one that leaves suspended.
EventKind == {"schedules", "leaves"}
Event == [mission : Missions, version : Nat, kind : EventKind]

\* The events of a step from table old to table new that the scheduler acts
\* on, one per version. Only a due resume is ever committed under another
\* commit of the same step.
Commits(old, new) ==
    {e \in UNION {[mission : {m}, version : (old[m].version + 1)..new[m].version,
                   kind : EventKind] : m \in Missions} :
       LET r == new[e.mission] IN
       IF e.version < r.version \/ r.state # "suspended"
       THEN e.kind = "leaves"
       ELSE e.kind = "schedules" /\ r.schedule # NoSchedule}

\* Mutant: an older commit displaces the timer of a newer one.
HeardLastWins(generation, events) ==
    IF events = {} THEN generation
    ELSE LET e == CHOOSE e \in events : \A f \in events : f.version <= e.version
         IN CASE e.kind = "schedules" -> e.version
              [] e.kind = "leaves"    -> 0

\* onLifecycleCommit over one Mission's events, in commit order: a schedule's
\* commit arms unless a newer timer is armed, and a commit that left suspended
\* cancels an older timer.
Heard(generation, events) ==
    LET latest == Max({generation} \cup {e.version : e \in {f \in events : f.kind = "schedules"}})
    IN IF \E e \in events : e.kind = "leaves" /\ e.version > latest THEN 0 ELSE latest

HeardAll(timers, events) ==
    [m \in Missions |-> Heard(timers[m], {e \in events : e.mission = m})]

\* arm: a timer armed for a newer generation is kept.
Arm(timers, m, generation) ==
    [timers EXCEPT ![m] = IF @ > generation THEN @ ELSE generation]

\* A step's commits are published in full, or a subscriber fails and some stay
\* owed, unheard; a schedule's own commit is the first of its transaction and
\* the scheduler hears it before the subscriber that fails.
Published(timers, new) ==
    /\ armed' = HeardAll(timers, Commits(row, new))
    /\ UNCHANGED <<owed, failures>>

PublicationFails(timers, new) ==
    /\ failures < MaxFailures
    /\ failures' = failures + 1
    /\ \E missed \in SUBSET Commits(row, new) \ {{}} :
          /\ owed' = owed \cup missed
          /\ armed' = HeardAll(timers, Commits(row, new) \ {e \in missed : e.kind # "schedules"})

-----------------------------------------------------------------------------
(* Actions                                                                 *)

\* A request commits a lifecycle operation.
Commit ==
    /\ Serving
    /\ Operation
    /\ \/ Published(armed, row')
       \/ PublicationFails(armed, row')
    /\ UNCHANGED <<up, todo, bootAt, crashes>>

\* The same, and the process is lost before the publication.
CommitAndCrash ==
    /\ Serving /\ crashes < MaxCrashes
    /\ Operation
    /\ up' = FALSE
    /\ crashes' = crashes + 1
    /\ armed' = NoTimers
    /\ owed' = owed \cup Commits(row, row')
    /\ UNCHANGED <<todo, bootAt, failures>>

Crash ==
    /\ up /\ crashes < MaxCrashes
    /\ up' = FALSE
    /\ crashes' = crashes + 1
    /\ armed' = NoTimers
    /\ todo' = {}
    /\ UNCHANGED <<row, now, bootAt, owed, failures>>

\* Mutant: every delivery drops its timer, due or not.
FireWithoutRearm(m, generation) ==
    LET timers == IF armed[m] = generation THEN [armed EXCEPT ![m] = 0] ELSE armed
    IN /\ row' = IF row[m].state = "suspended" /\ row[m].schedule.generation = generation
                 THEN ApplyExpiry(row, m) ELSE row
       /\ Published(timers, row')

\* deliver: consume the timer of this generation and claim the schedule. An
\* early delivery re-arms; one whose transition committed drains the outbox,
\* unless another drain is running; one whose publication failed is retried,
\* though its transition is committed.
Fire(m, generation) ==
    LET timers == IF armed[m] = generation THEN [armed EXCEPT ![m] = 0] ELSE armed
        current == row[m].state = "suspended" /\ row[m].schedule.generation = generation
    IN /\ row' = IF current THEN ApplyExpiry(row, m) ELSE row
       /\ \/ /\ row' = row
             /\ armed' = IF current THEN Arm(timers, m, generation) ELSE timers
             /\ UNCHANGED <<owed, failures>>
          \/ /\ row' # row
             /\ Published(timers, row')
          \/ /\ row' # row
             /\ armed' = HeardAll(timers, Commits(row, row') \cup owed)
             /\ owed' = {}
             /\ UNCHANGED failures
          \/ /\ row' # row
             /\ PublicationFails(Arm(timers, m, generation), row')

Deliver(m) ==
    /\ up /\ armed[m] # 0
    /\ Fire(m, armed[m])
    /\ UNCHANGED <<now, up, todo, bootAt, crashes>>

\* A request's drain publishes owed events; each that fails again stays owed.
Drain ==
    /\ Serving
    /\ \E events \in SUBSET owed \ {{}} :
          /\ armed' = HeardAll(armed, events)
          /\ owed' = owed \ events
    /\ UNCHANGED <<row, now, up, todo, bootAt, failures, crashes>>

DueAt(m) == IF row[m].schedule.until < ExpiresAt[m] THEN row[m].schedule.until
            ELSE ExpiresAt[m]

\* currentSchedules
Schedules ==
    {[mission |-> m, generation |-> row[m].schedule.generation, due |-> DueAt(m)]
       : m \in {d \in Missions : row[d].state = "suspended" /\ row[d].schedule # NoSchedule}}

\* Boot drains what is owed, then reads the schedules to recover.
Boot ==
    /\ ~up
    /\ up' = TRUE
    /\ armed' = HeardAll(NoTimers, owed)
    /\ owed' = {}
    /\ todo' = Schedules
    /\ bootAt' = now
    /\ UNCHANGED <<row, now, failures, crashes>>

\* Mutant: recovery arms and never delivers.
RecoverArmsOnly(delivery) ==
    /\ up /\ delivery \in todo
    /\ todo' = todo \ {delivery}
    /\ armed' = Arm(armed, delivery.mission, delivery.generation)
    /\ UNCHANGED <<row, now, up, bootAt, owed, failures, crashes>>

\* One step of recover: a delivery awaits, so timers fire between two steps.
Recover(delivery) ==
    /\ up /\ delivery \in todo
    /\ todo' = todo \ {delivery}
    /\ \/ /\ delivery.due <= bootAt
          /\ Fire(delivery.mission, delivery.generation)
       \/ /\ delivery.due > bootAt
          /\ armed' = Arm(armed, delivery.mission, delivery.generation)
          /\ UNCHANGED <<row, owed, failures>>
    /\ UNCHANGED <<now, up, bootAt, crashes>>

ClockTick ==
    /\ Tick
    /\ UNCHANGED <<up, armed, todo, bootAt, owed, failures, crashes>>

-----------------------------------------------------------------------------
SchedulerInit ==
    /\ Init
    /\ up = TRUE
    /\ armed = NoTimers
    /\ todo = {}
    /\ bootAt = 0
    /\ owed = {}
    /\ failures = 0
    /\ crashes = 0

SchedulerNext ==
    \/ Commit
    \/ CommitAndCrash
    \/ Crash
    \/ \E m \in Missions : Deliver(m)
    \/ Drain
    \/ Boot
    \/ \E delivery \in todo : Recover(delivery)
    \/ ClockTick

SchedulerSpec == SchedulerInit /\ [][SchedulerNext]_svars

\* Time passes, an armed timer of the process fires, and a lost process is
\* started again and finishes its boot. Requests, and so drains and reads of
\* the record, are never promised.
SchedulerFairness ==
    /\ WF_svars(ClockTick)
    /\ WF_svars(Boot)
    /\ WF_svars(\E delivery \in todo : Recover(delivery))
    /\ \A m \in Missions : WF_svars(Deliver(m))

FairSchedulerSpec == SchedulerSpec /\ SchedulerFairness

-----------------------------------------------------------------------------
(* Properties                                                              *)

\* No schedule is lost: while the process runs, every committed schedule has a
\* timer armed for exactly its generation, or boot recovery still has it to
\* handle, whatever was replaced, published late or published again.
NoScheduleLost ==
    up => \A m \in Missions : row[m].schedule # NoSchedule =>
             \/ armed[m] = row[m].schedule.generation
             \/ \E d \in todo : /\ d.mission = m
                                /\ d.generation = row[m].schedule.generation

\* A deadline that passed while the process was down is applied before the
\* process serves a request.
OverdueAppliedBeforeServing ==
    [][todo # {} /\ todo' = {} /\ up' =>
         \A m \in Missions : row'[m].schedule # NoSchedule => DueAt(m)' > bootAt]_svars

\* A committed schedule is eventually applied or its suspension otherwise
\* ended, with no request after it, and across crashes.
ScheduleEventuallyApplied ==
    \A m \in Missions :
        row[m].schedule # NoSchedule ~> row[m].schedule = NoSchedule

=============================================================================
