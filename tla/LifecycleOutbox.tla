-------------------------- MODULE LifecycleOutbox --------------------------
(***************************************************************************)
(* The durable lifecycle fan-out of the kernel (kernel/lifecycle-outbox.ts):*)
(* every commit writes an event row and the delivery rows of its durable   *)
(* subscribers in its own transaction, publication follows the commit, and *)
(* drain passes started by requests and by boot publish what is pending    *)
(* and await one delivery at a time.                                       *)
(*                                                                         *)
(* The event and delivery rows survive a crash; the pass, its queue and    *)
(* the callers waiting on them do not.                                     *)
(***************************************************************************)
EXTENDS Integers, FiniteSets

CONSTANTS
    Events,        \* the sequence numbers commits may get, 1..n
    Subscribers,   \* the durable retryable subscribers
    Callers,       \* the requests that may be waiting on a drain at once
    Boot,          \* the caller of the drain that boot awaits
    MayRollBack,   \* whether a start may be of a release that does not
                   \* recognize the payload version of stored events
    MaxAttempts,   \* retry.maxAttempts
    MaxFaults,     \* bound on publication, delivery and storage failures
    MaxCrashes     \* bound on process losses

ASSUME EventsAssumption ==
    /\ Events \subseteq Nat \ {0}
    /\ \A s \in Events : 1..s \subseteq Events

ASSUME BoundAssumption ==
    /\ MaxAttempts \in Nat \ {0} /\ MaxFaults \in Nat /\ MaxCrashes \in Nat
    /\ MayRollBack \in BOOLEAN
    /\ Boot \notin Callers

VARIABLES
    phase,       \* the process: down, starting, recovering or serving
    registered,  \* the subscribers of this process
    unread,      \* the stored events this process's release cannot read
    event,       \* event[s]: the event row
    delivery,    \* delivery[s][b]: the delivery row of subscriber b
    pass,        \* the running drain pass
    queued,      \* whether a follow-up pass is queued
    caller,      \* caller[c]: what the call of drain() waits on
    faults, crashes,
    heard,       \* history: the events the synchronous subscribers got
    received,    \* history: the deliveries whose effect took place
    covers       \* covers[c]: the rows runnable when c called, not tried since

vars == <<phase, registered, unread, event, delivery, pass, queued, caller,
          faults, crashes, heard, received, covers>>

-----------------------------------------------------------------------------
Phase == {"down", "starting", "recovering", "serving"}
EventState == {"none", "pending", "published", "pruned"}
Disposition == {"none", "pending", "accepted", "abandoned", "subscriber_removed"}
Final == {"accepted", "abandoned", "subscriber_removed"}

\* waiting stands for next_attempt_at in the future.
DeliveryRow == [disposition : Disposition, attempts : 0..MaxAttempts, waiting : BOOLEAN]
NoRow == [disposition |-> "none", attempts |-> 0, waiting |-> FALSE]
PendingRow == [NoRow EXCEPT !.disposition = "pending"]

\* A pruned event's delivery rows are deleted with it; here they keep the
\* value they had.
Stored(s) == event[s] \in {"pending", "published"}
Rows == Events \X Subscribers
Runnable == {r \in Rows : /\ Stored(r[1])
                          /\ delivery[r[1]][r[2]].disposition = "pending"
                          /\ ~delivery[r[1]][r[2]].waiting}

\* The pass: the rows it selected and has still to attempt, and the row whose
\* deliver it awaits. A selected row carries the attempts it was read with.
NoPass == [running |-> FALSE, rows |-> {}, awaits |-> {}]

Drainers == Callers \cup {Boot}
CallerState == {"idle", "pass", "follow", "faulted", "unreadable"}

NextEvent(s) == event[s] = "none" /\ \A t \in Events : t < s => event[t] # "none"

Up == phase # "down"

-----------------------------------------------------------------------------
(* Commits                                                                 *)

\* enqueueInCallerTx: a commit inserts its event and one pending row for each
\* registered subscriber that captures it.
Insert(s, owing) ==
    /\ phase = "serving"
    /\ NextEvent(s)
    /\ owing \subseteq registered
    /\ delivery' = [delivery EXCEPT ![s] =
                      [b \in Subscribers |-> IF b \in owing THEN PendingRow ELSE NoRow]]

\* The commit and its synchronous publication.
Commit(s, owing) ==
    /\ Insert(s, owing)
    /\ event' = [event EXCEPT ![s] = "published"]
    /\ heard' = heard \cup {s}
    /\ UNCHANGED <<phase, registered, unread, pass, queued, caller, faults, crashes,
                   received, covers>>

\* A subscriber fails, after others were reached or before.
CommitUnpublished(s, owing) ==
    /\ Insert(s, owing)
    /\ faults < MaxFaults
    /\ faults' = faults + 1
    /\ event' = [event EXCEPT ![s] = "pending"]
    /\ UNCHANGED <<phase, registered, unread, pass, queued, caller, crashes, heard,
                   received, covers>>

\* The process is lost: its pass, its queue and its callers with it.
Lose ==
    /\ crashes < MaxCrashes
    /\ crashes' = crashes + 1
    /\ phase' = "down"
    /\ pass' = NoPass
    /\ queued' = FALSE
    /\ caller' = [c \in Drainers |-> "idle"]
    /\ covers' = [c \in Drainers |-> {}]

CommitAndCrash(s, owing) ==
    /\ Insert(s, owing)
    /\ Lose
    /\ event' = [event EXCEPT ![s] = "pending"]
    /\ UNCHANGED <<registered, unread, faults, heard, received>>

\* A crash may fall after the awaited effect and before its acknowledgement.
Crash ==
    /\ Up
    /\ Lose
    /\ \E done \in SUBSET pass.awaits : received' = received \cup {<<r[1], r[2]>> : r \in done}
    /\ UNCHANGED <<registered, unread, event, delivery, faults, heard>>

-----------------------------------------------------------------------------
(* Drain                                                                   *)

\* Mutant: a pass attempts the deliveries alone.
StartPassDeliveriesOnly ==
    /\ UNCHANGED <<event, heard, faults>>
    /\ pass' = [running |-> TRUE,
                rows    |-> {<<r[1], r[2], delivery[r[1]][r[2]].attempts>> : r \in Runnable},
                awaits  |-> {}]

\* The synchronous start of a pass: publishPending, each event isolated from
\* the others' failures, then the selection of the runnable rows.
StartPass ==
    /\ \E failing \in SUBSET {s \in Events : event[s] = "pending"} :
          LET pending == {s \in Events : event[s] = "pending"}
              broken  == Cardinality(failing \ unread) IN
          /\ pending \cap unread \subseteq failing
          /\ faults + broken <= MaxFaults
          /\ faults' = faults + broken
          /\ event' = [s \in Events |-> IF s \in pending \ failing THEN "published" ELSE event[s]]
          /\ heard' = heard \cup (pending \ failing)
    /\ pass' = [running |-> TRUE,
                rows    |-> {<<r[1], r[2], delivery[r[1]][r[2]].attempts>> : r \in Runnable},
                awaits  |-> {}]

\* Mutant: a caller that finds a pass running joins it.
DrainJoins(c) ==
    /\ caller[c] = "idle"
    /\ covers' = [covers EXCEPT ![c] = Runnable]
    /\ caller' = [caller EXCEPT ![c] = "pass"]
    /\ IF pass.running THEN UNCHANGED <<pass, event, heard, faults>> ELSE StartPass
    /\ UNCHANGED <<registered, unread, delivery, queued, crashes, received>>

\* drain(): start a pass, or queue the one follow-up behind the running pass,
\* or join the follow-up already queued.
Drain(c) ==
    /\ caller[c] = "idle"
    /\ covers' = [covers EXCEPT ![c] = Runnable]
    /\ \/ /\ ~pass.running /\ ~queued
          /\ caller' = [caller EXCEPT ![c] = "pass"]
          /\ StartPass
          /\ UNCHANGED queued
       \/ /\ pass.running \/ queued
          /\ caller' = [caller EXCEPT ![c] = "follow"]
          /\ queued' = TRUE
          /\ UNCHANGED <<pass, event, heard, faults>>
    /\ UNCHANGED <<registered, unread, delivery, crashes, received>>

\* A request's drain, in the middleware after its handler.
Request(c) ==
    /\ phase = "serving"
    /\ Drain(c)
    /\ UNCHANGED phase

\* The pass awaits the deliver of its next row, in sequence order.
Attempt(row) ==
    /\ pass.running /\ pass.awaits = {}
    /\ row \in pass.rows
    /\ \A other \in pass.rows : row[1] <= other[1]
    /\ row[1] \notin unread
    /\ pass' = [pass EXCEPT !.rows = @ \ {row}, !.awaits = {row}]
    /\ UNCHANGED <<phase, registered, unread, event, delivery, queued, caller, faults,
                   crashes, heard, received, covers>>

\* The guard of every disposition: still the pending row this attempt read.
Guarded(row) ==
    LET r == delivery[row[1]][row[2]]
    IN r.disposition = "pending" /\ r.attempts = row[3]

Tried(row) ==
    covers' = [c \in Drainers |-> covers[c] \ {<<row[1], row[2]>>}]

Dispose(row, after) ==
    delivery' = IF Guarded(row) THEN [delivery EXCEPT ![row[1]][row[2]] = after] ELSE delivery

Accept(row) ==
    /\ row \in pass.awaits
    /\ pass' = [pass EXCEPT !.awaits = {}]
    /\ received' = received \cup {<<row[1], row[2]>>}
    /\ Dispose(row, [disposition |-> "accepted", attempts |-> row[3] + 1, waiting |-> FALSE])
    /\ Tried(row)
    /\ UNCHANGED <<phase, registered, unread, event, queued, caller, faults, crashes, heard>>

\* A failed attempt backs off, and the last one abandons.
AfterFailure(row) ==
    IF row[3] + 1 >= MaxAttempts
    THEN [disposition |-> "abandoned", attempts |-> row[3] + 1, waiting |-> FALSE]
    ELSE [disposition |-> "pending", attempts |-> row[3] + 1, waiting |-> TRUE]

\* deliver rejects; its effect may have taken place all the same.
Fail(row) ==
    /\ row \in pass.awaits
    /\ faults < MaxFaults
    /\ faults' = faults + 1
    /\ pass' = [pass EXCEPT !.awaits = {}]
    /\ received' \in {received, received \cup {<<row[1], row[2]>>}}
    /\ Dispose(row, AfterFailure(row))
    /\ Tried(row)
    /\ UNCHANGED <<phase, registered, unread, event, queued, caller, crashes, heard>>

\* The backoff of a row passes.
BackoffEnds(s, b) ==
    /\ delivery[s][b].waiting
    /\ delivery' = [delivery EXCEPT ![s][b].waiting = FALSE]
    /\ UNCHANGED <<phase, registered, unread, event, pass, queued, caller, faults,
                   crashes, heard, received, covers>>

\* The pass ends and its callers return, or reject with it.
EndPass(outcome) ==
    /\ pass' = NoPass
    /\ caller' = [c \in Drainers |-> IF caller[c] = "pass" THEN outcome ELSE caller[c]]
    /\ covers' = [c \in Drainers |-> IF caller[c] = "pass" THEN {} ELSE covers[c]]

PassDone ==
    /\ pass.running /\ pass.rows = {} /\ pass.awaits = {}
    /\ EndPass("idle")
    /\ UNCHANGED <<phase, registered, unread, event, delivery, queued, faults, crashes,
                   heard, received>>

\* A storage fault ends the pass, also between a delivery's effect and its
\* disposition.
PassFaults ==
    /\ pass.running
    /\ faults < MaxFaults
    /\ faults' = faults + 1
    /\ \E done \in SUBSET pass.awaits : received' = received \cup {<<r[1], r[2]>> : r \in done}
    /\ EndPass("faulted")
    /\ UNCHANGED <<phase, registered, unread, event, delivery, queued, crashes, heard>>

\* The next row is of an event whose payload is not readable: the read is
\* outside the loop's try and ends the pass.
PassUnreadable ==
    /\ pass.running /\ pass.awaits = {}
    /\ \E row \in pass.rows : /\ row[1] \in unread
                              /\ \A other \in pass.rows : row[1] <= other[1]
    /\ EndPass("unreadable")
    /\ UNCHANGED <<phase, registered, unread, event, delivery, queued, faults,
                   crashes, heard, received>>

\* Mutant: the follow-up that starts is still the queued one.
FollowUpStaysQueued ==
    /\ queued /\ ~pass.running
    /\ caller' = [c \in Drainers |-> IF caller[c] = "follow" THEN "pass" ELSE caller[c]]
    /\ StartPass
    /\ UNCHANGED <<phase, registered, unread, queued, delivery, crashes, received, covers>>

\* passAfter: once the pass ahead has ended, either way, the follow-up is the
\* running pass.
FollowUp ==
    /\ queued /\ ~pass.running
    /\ queued' = FALSE
    /\ caller' = [c \in Drainers |-> IF caller[c] = "follow" THEN "pass" ELSE caller[c]]
    /\ StartPass
    /\ UNCHANGED <<phase, registered, unread, delivery, crashes, received, covers>>

\* A request whose drain rejected ends in an error.
RequestFails(c) ==
    /\ caller[c] \in {"faulted", "unreadable"}
    /\ caller' = [caller EXCEPT ![c] = "idle"]
    /\ phase' = IF c = Boot THEN "down" ELSE phase
    /\ UNCHANGED <<registered, unread, event, delivery, pass, queued, faults, crashes,
                   heard, received, covers>>

-----------------------------------------------------------------------------
(* Boot                                                                    *)

\* Mutant: the removal is not confined to pending rows.
RemovedWhateverDisposed(subscribers) ==
    [s \in Events |-> [b \in Subscribers |->
        IF delivery[s][b].disposition # "none" /\ b \notin subscribers
        THEN [delivery[s][b] EXCEPT !.disposition = "subscriber_removed", !.waiting = FALSE]
        ELSE delivery[s][b]]]

\* reconcileRemovedSubscribers
Removed(subscribers) ==
    [s \in Events |-> [b \in Subscribers |->
        IF delivery[s][b].disposition = "pending" /\ b \notin subscribers
        THEN [delivery[s][b] EXCEPT !.disposition = "subscriber_removed", !.waiting = FALSE]
        ELSE delivery[s][b]]]

\* A start, with the subscribers its configuration registers, of a release
\* that does not read the events in newer.
Start(subscribers, newer) ==
    /\ phase = "down"
    /\ newer \subseteq {s \in Events : MayRollBack /\ Stored(s)}
    /\ unread' = newer
    /\ phase' = "starting"
    /\ registered' = subscribers
    /\ delivery' = Removed(subscribers)
    /\ UNCHANGED <<event, pass, queued, caller, faults, crashes, heard, received, covers>>

Recover ==
    /\ phase = "starting"
    /\ phase' = "recovering"
    /\ Drain(Boot)

\* Mutant: an event is prunable as soon as it is published.
SettledOncePublished(s) == event[s] = "published"

\* pruneSettled's condition, besides the age of the event.
Settled(s) ==
    /\ event[s] = "published"
    /\ \A b \in Subscribers : delivery[s][b].disposition # "pending"

\* Boot's drain has returned: the settled events older than the retention,
\* those up to horizon, are pruned, and the process serves.
PruneAndServe(horizon) ==
    /\ phase = "recovering" /\ caller[Boot] = "idle"
    /\ phase' = "serving"
    /\ event' = [s \in Events |-> IF s <= horizon /\ Settled(s) THEN "pruned" ELSE event[s]]
    /\ UNCHANGED <<registered, unread, delivery, pass, queued, caller, faults, crashes,
                   heard, received, covers>>

-----------------------------------------------------------------------------
Init ==
    /\ phase = "starting"
    /\ registered = Subscribers
    /\ unread = {}
    /\ event = [s \in Events |-> "none"]
    /\ delivery = [s \in Events |-> [b \in Subscribers |-> NoRow]]
    /\ pass = NoPass
    /\ queued = FALSE
    /\ caller = [c \in Drainers |-> "idle"]
    /\ faults = 0 /\ crashes = 0
    /\ heard = {} /\ received = {}
    /\ covers = [c \in Drainers |-> {}]

Next ==
    \/ \E s \in Events, owing \in SUBSET Subscribers :
          Commit(s, owing) \/ CommitUnpublished(s, owing) \/ CommitAndCrash(s, owing)
    \/ Crash
    \/ \E c \in Callers : Request(c)
    \/ \E row \in pass.rows : Attempt(row)
    \/ \E row \in pass.awaits : Accept(row) \/ Fail(row)
    \/ \E s \in Events, b \in Subscribers : BackoffEnds(s, b)
    \/ PassDone
    \/ PassFaults
    \/ PassUnreadable
    \/ FollowUp
    \/ \E c \in Drainers : RequestFails(c)
    \/ \E subscribers \in SUBSET Subscribers, newer \in SUBSET Events : Start(subscribers, newer)
    \/ Recover
    \/ \E horizon \in Events \cup {0} : PruneAndServe(horizon)

Spec == Init /\ [][Next]_vars

\* A subscriber's deliver answers, backoffs pass, a lost process is started
\* again, and requests keep coming: nothing but a request or a boot drains.
Fairness ==
    /\ WF_vars(\E c \in Callers : Request(c))
    /\ WF_vars(\E row \in pass.rows : Attempt(row))
    /\ WF_vars(\E row \in pass.awaits : Accept(row))
    /\ \A s \in Events, b \in Subscribers : WF_vars(BackoffEnds(s, b))
    /\ WF_vars(PassDone)
    /\ WF_vars(PassUnreadable)
    /\ WF_vars(FollowUp)
    /\ WF_vars(\E c \in Drainers : RequestFails(c))
    /\ WF_vars(\E subscribers \in SUBSET Subscribers : Start(subscribers, {}))
    /\ WF_vars(Recover)
    /\ WF_vars(\E horizon \in Events \cup {0} : PruneAndServe(horizon))

FairSpec == Spec /\ Fairness

-----------------------------------------------------------------------------
(* Properties                                                              *)

\* Every variable has its type; a follow-up is queued exactly while a caller
\* waits on it.
TypeOK ==
    /\ phase \in Phase /\ registered \subseteq Subscribers /\ unread \subseteq Events
    /\ event \in [Events -> EventState]
    /\ delivery \in [Events -> [Subscribers -> DeliveryRow]]
    /\ caller \in [Drainers -> CallerState]
    /\ pass.rows \subseteq Events \X Subscribers \X (0..MaxAttempts)
    /\ Cardinality(pass.awaits) <= 1
    /\ queued <=> \E c \in Drainers : caller[c] = "follow"
    /\ pass.running <=> \E c \in Drainers : caller[c] = "pass"

\* Nothing owed is lost: an event leaves the table only once the synchronous
\* subscribers had it and every delivery is settled; a delivery is accepted
\* only if its effect took place, and abandoned only after every attempt.
NothingLost ==
    \A s \in Events :
        /\ event[s] \in {"published", "pruned"} => s \in heard
        /\ \A b \in Subscribers :
              /\ event[s] = "pruned" => delivery[s][b].disposition # "pending"
              /\ delivery[s][b].disposition = "accepted" => <<s, b>> \in received
              /\ delivery[s][b].disposition = "abandoned" =>
                    delivery[s][b].attempts = MaxAttempts

\* A settled delivery is never moved: neither a stale attempt nor a
\* reconciliation rewrites it.
DispositionFinal ==
    [][\A s \in Events, b \in Subscribers :
         delivery[s][b].disposition \in Final => delivery'[s][b] = delivery[s][b]]_vars

\* A drain covers its caller: when drain() returns, every delivery runnable at
\* the call was attempted since, also when a pass had already selected its rows.
DrainCoversCaller ==
    [][\A c \in Drainers :
         caller[c] = "pass" /\ caller'[c] = "idle" /\ phase' # "down" => covers[c] = {}]_vars

\* Once the release that runs can read what is stored, every committed event is
\* eventually published and its deliveries settled, whatever failed or crashed
\* a bounded number of times.
EventuallySettled ==
    <>[](unread = {}) =>
        \A s \in Events :
            event[s] # "none" ~> /\ event[s] \in {"published", "pruned"}
                                 /\ \A b \in Subscribers : delivery[s][b].disposition # "pending"

=============================================================================
