----------------------------- MODULE SignalStream ------------------------------
(***************************************************************************)
(* One SSF stream from the Mission Issuer's emitter (packages/             *)
(* mission-signals, MissionSignalEmitter) to the receiver of               *)
(* SignalReceiver: the durable delivery jobs, the gate that withholds a    *)
(* narrowing from a consumer that did not declare it, the pause that       *)
(* follows, and the verification events that attest liveness.              *)
(*                                                                         *)
(* The emitter signs and hands off across awaits, so what it checked may   *)
(* have changed when the receiver acts. The receiver relies on what a      *)
(* liveness event attests: the two must agree without sharing state.       *)
(***************************************************************************)
EXTENDS SignalReceiver, FiniteSets

CONSTANT Tolerance    \* the clock tolerance the issuer allows its consumers

ASSUME ToleranceAssumption == Tolerance \in Nat

\* The issuer caps a Mission Status response at the staleness limit it
\* advertises (statusFreshnessSeconds).
ASSUME StatusCapAssumption == \A s \in MaxStales : StatusTtl <= s

VARIABLES
    job,        \* job[v]: the delivery job of the version v
    handed,     \* the versions ever handed to the transport
    probe,      \* the verification event under way
    status,     \* the stream's status, "enabled" or "paused"
    notices,    \* Stream Updated notices not acknowledged
    resolvedAt, \* when the latest verification attempt ended, or Never
    reenabledAt,\* when the stream was last re-enabled, or Never
    reenableAfter, \* the instant a paused stream stays paused until, or Never
    pausedAt    \* History: when the stream was last paused

emitterVars == <<job, handed, probe, status, notices,
                 resolvedAt, reenabledAt, reenableAfter, pausedAt>>
vars == <<receiverVars, emitterVars>>

-----------------------------------------------------------------------------
Versions == 1 .. MaxCommits

Undelivered == {"pending", "handed", "received"}

Times == {Never} \cup (0 .. MaxTime)

\* A verification event: requested or a heartbeat, signed at iat, and whether
\* the receiver has processed its jti.
NoProbe == [at |-> "none", iat |-> Never, requested |-> FALSE, heard |-> FALSE]

\* The stream carries no lifecycle and no verification event.
Held == status = "paused" \/ notices > 0

\* Mutant: a hand-off under way does not count as undelivered.
LivenessBlockedByPending == Held \/ \E v \in Versions : job[v] = "pending"

\* No attestation while an event on the stream is undelivered. (The verification
\* under way, which also blocks, is the one that probe holds.)
LivenessBlocked == Held \/ \E v \in Versions : job[v] \in Undelivered

\* The receiver is no longer verified live, and stale, once this has passed.
Window == AtLeast(store.maxStale, Heartbeat) + Tolerance

-----------------------------------------------------------------------------
(* Lifecycle events                                                        *)

\* deliverable. declared: the consumer is configured with authority_changed.
Deliverable(c, declared) == ~c.narrows \/ declared

\* pauseStream's base: an attempt that ended since the stream was re-enabled,
\* else the withholding.
PauseBase ==
    IF status # "paused" /\ resolvedAt # Never /\ resolvedAt > reenabledAt
    THEN resolvedAt ELSE now

\* Mutant: a withholding does not extend the pause under way.
PauseStreamOnce ==
    /\ status' = "paused"
    /\ reenableAfter' = IF status = "paused" THEN reenableAfter
                        ELSE AtLeast(PauseBase + Window, reenableAfter)
    /\ notices' = IF status = "paused" THEN notices ELSE notices + 1
    /\ pausedAt' = IF status = "paused" THEN pausedAt ELSE now

\* pauseStream: a withholding pauses the stream, or extends its pause.
PauseStream ==
    /\ status' = "paused"
    /\ reenableAfter' = AtLeast(PauseBase + Window, reenableAfter)
    /\ notices' = IF status = "paused" THEN notices ELSE notices + 1
    /\ pausedAt' = IF status = "paused" THEN pausedAt ELSE now

\* The kernel commits and, through its outbox, calls onCommit: a job is journaled,
\* or the event is withheld.
CommitVersion(state, narrows, declared) ==
    LET v == Len(log) + 1 IN
    /\ Commit(state, narrows)
    /\ \/ /\ Deliverable(log'[v], declared)
          /\ job' = [job EXCEPT ![v] = "pending"]
          /\ UNCHANGED <<status, notices, reenableAfter, pausedAt>>
       \/ /\ ~Deliverable(log'[v], declared)
          /\ job' = [job EXCEPT ![v] = "withheld"]
          /\ PauseStream
    /\ UNCHANGED <<handed, probe, resolvedAt, reenabledAt>>

\* deliverJob: signed, the stream still not held, and handed off. Any runnable
\* job may be next, its elder backing off.
HandOff(v) ==
    /\ job[v] = "pending" /\ ~Held
    /\ job' = [job EXCEPT ![v] = "handed"]
    /\ handed' = handed \cup {v}
    /\ UNCHANGED <<receiverVars, probe, status, notices,
                   resolvedAt, reenabledAt, reenableAfter, pausedAt>>

\* The receiver processes the SET of v: in order or not, once or again. A
\* Mission held after a restore does not acknowledge it.
Receive(v) ==
    /\ v \in handed
    /\ Apply(v)
    /\ job' = IF job[v] = "handed" /\ ~Recovering
              THEN [job EXCEPT ![v] = "received"] ELSE job
    /\ UNCHANGED <<handed, probe, status, notices,
                   resolvedAt, reenabledAt, reenableAfter, pausedAt>>

Acknowledge(v) ==
    /\ job[v] = "received"
    /\ job' = [job EXCEPT ![v] = "done"]
    /\ UNCHANGED <<receiverVars, handed, probe, status, notices,
                   resolvedAt, reenabledAt, reenableAfter, pausedAt>>

\* The hand-off fails, perhaps after the receiver processed it: it is retried.
FailHandOff(v) ==
    /\ job[v] \in {"handed", "received"}
    /\ job' = [job EXCEPT ![v] = "pending"]
    /\ UNCHANGED <<receiverVars, handed, probe, status, notices,
                   resolvedAt, reenabledAt, reenableAfter, pausedAt>>

-----------------------------------------------------------------------------
(* Verification events                                                     *)

SetProbe(p) ==
    /\ probe' = p
    /\ UNCHANGED <<receiverVars, job, handed, status, notices,
                   resolvedAt, reenabledAt, reenableAfter, pausedAt>>

\* requestVerification
RequestVerification ==
    /\ probe.at = "none"
    /\ SetProbe([NoProbe EXCEPT !.at = "asked", !.requested = TRUE])

\* attestLiveness and deliverStreamJob, up to the await of the signature.
SignProbe ==
    /\ probe.at \in {"none", "asked"}
    /\ ~LivenessBlocked
    /\ SetProbe([probe EXCEPT !.at = "signed", !.iat = now])

\* After the await: checked again, and handed off as an attempt.
HandProbe ==
    /\ probe.at = "signed" /\ ~LivenessBlocked
    /\ SetProbe([probe EXCEPT !.at = "handed"])

\* A heartbeat blocked meanwhile is not sent; a requested event waits.
DropProbe ==
    /\ probe.at = "signed" /\ LivenessBlocked /\ ~probe.requested
    /\ SetProbe(NoProbe)

\* The receiver processes it, unless its jti was already seen.
HearProbe ==
    /\ probe.at = "handed" /\ ~probe.heard
    /\ Hear(probe.iat)
    /\ probe' = [probe EXCEPT !.heard = TRUE]
    /\ UNCHANGED <<job, handed, status, notices,
                   resolvedAt, reenabledAt, reenableAfter, pausedAt>>

\* Mutant: only an acknowledged attempt counts.
EndAttemptIf(acknowledged) ==
    /\ resolvedAt' = IF acknowledged THEN now ELSE resolvedAt
    /\ reenableAfter' = IF acknowledged /\ status = "paused" THEN AtLeast(reenableAfter, now + Window)
                        ELSE reenableAfter

\* endLivenessAttempt, acknowledged or failed.
EndAttempt(acknowledged) ==
    /\ resolvedAt' = now
    /\ reenableAfter' = IF status = "paused" THEN AtLeast(reenableAfter, now + Window)
                        ELSE reenableAfter

\* The transport finishes. A failed requested event is sent again, byte for byte.
EndProbe(acknowledged) ==
    /\ probe.at = "handed"
    /\ acknowledged => probe.heard
    /\ EndAttempt(acknowledged)
    /\ probe' = IF acknowledged \/ ~probe.requested THEN NoProbe
                ELSE [probe EXCEPT !.at = "signed"]
    /\ UNCHANGED <<receiverVars, job, handed, status, notices,
                   reenabledAt, pausedAt>>

-----------------------------------------------------------------------------
(* Pausing and re-enabling                                                 *)

\* A Stream Updated notice is acknowledged; the receiver records the status.
AcknowledgeNotice ==
    /\ notices > 0
    /\ notices' = notices - 1
    /\ HearUpdated
    /\ UNCHANGED <<job, handed, probe, status, resolvedAt, reenabledAt, reenableAfter, pausedAt>>

\* resumeDueStreams
Resume ==
    /\ status = "paused" /\ notices = 0 /\ probe.at # "handed"
    /\ reenableAfter < now
    /\ status' = "enabled" /\ notices' = 1
    /\ reenabledAt' = now /\ reenableAfter' = Never
    /\ UNCHANGED <<receiverVars, job, handed, probe, resolvedAt, pausedAt>>

\* The emitter's process is lost and opens its store again: claims lapse, an
\* attempt left open ends now, an unsent heartbeat is gone.
RestartEmitter ==
    /\ job' = [v \in Versions |-> IF job[v] \in {"handed", "received"} THEN "pending" ELSE job[v]]
    /\ IF probe.at = "handed" THEN EndAttempt(FALSE) ELSE UNCHANGED <<resolvedAt, reenableAfter>>
    /\ probe' = IF ~probe.requested THEN NoProbe
                ELSE IF probe.at = "handed" THEN [probe EXCEPT !.at = "signed"] ELSE probe
    /\ UNCHANGED <<receiverVars, handed, status, notices, reenabledAt, pausedAt>>

\* What the receiver, its consumer and the clock do on their own.
ReceiverStep ==
    /\ \/ \E s \in MaxStales : Agree(s)
       \/ \E q \in Reads : AskStatus(q) \/ AnswerStatus(q) \/ LoseStatus(q) \/ TakeStatus(q)
       \/ Refresh \/ MarkRematerialized
       \/ Backup \/ Restore \/ CrashInWrite
       \/ Tick
    /\ UNCHANGED emitterVars

-----------------------------------------------------------------------------
Init ==
    /\ ReceiverInit
    /\ job = [v \in Versions |-> "none"]
    /\ handed = {} /\ probe = NoProbe
    /\ status = "enabled" /\ notices = 0
    /\ resolvedAt = Never /\ reenabledAt = Never /\ reenableAfter = Never
    /\ pausedAt = Never

Next ==
    \/ \E state \in States, narrows, declared \in BOOLEAN :
        CommitVersion(state, narrows, declared)
    \/ \E v \in Versions :
        HandOff(v) \/ Receive(v) \/ Acknowledge(v) \/ FailHandOff(v)
    \/ RequestVerification \/ SignProbe \/ HandProbe \/ DropProbe \/ HearProbe
    \/ \E acknowledged \in BOOLEAN : EndProbe(acknowledged)
    \/ AcknowledgeNotice \/ Resume \/ RestartEmitter
    \/ ReceiverStep

Spec == Init /\ [][Next]_vars

-----------------------------------------------------------------------------
(* Properties                                                              *)

\* Every variable keeps to its range.
TypeOK ==
    /\ ReceiverTypeOK
    /\ job \in [Versions -> Undelivered \cup {"none", "done", "withheld"}]
    /\ handed \subseteq Versions
    /\ probe \in [at : {"none", "asked", "signed", "handed"}, iat : Times,
                  requested : BOOLEAN, heard : BOOLEAN]
    /\ status \in {"enabled", "paused"} /\ notices \in 0 .. 2
    /\ {resolvedAt, reenabledAt, pausedAt} \subseteq Times
    /\ reenableAfter \in {Never} \cup Nat

\* What the receiver takes for attested is: every event
\* committed before the last attested instant has reached the receiver, or was withheld.
AttestedIsDelivered ==
    \A v \in 1 .. Len(log) :
        log[v].at < store.live =>
            store.version >= v \/ job[v] = "withheld" \/ Recovering

\* A stream carries events again only once the state older than a narrowing it
\* withheld is no longer relied on, unless Mission Status gave it before the
\* stream was paused: state from events is stale by then, and a response taken
\* during the pause, before a further withholding, has expired (pauseStream).
ResumedMeansAged ==
    status = "enabled" /\ Relied =>
        \A v \in Versions : job[v] = "withheld" /\ store.version < v =>
            store.source = "status" /\ store.until - StatusTtl <= pausedAt

=============================================================================
