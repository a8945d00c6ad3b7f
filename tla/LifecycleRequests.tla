--------------------------- MODULE LifecycleRequests ---------------------------
(***************************************************************************)
(* The Mission Lifecycle endpoint's exchanges under one retry key (one     *)
(* client, one Mission, one nonce): the retained response in its two       *)
(* phases (kernel/lifecycle-idempotency.ts, LifecycleResponseStore) and    *)
(* the handler around it (adapters/provider.ts, kernel.ts transition).     *)
(*                                                                         *)
(* A commit claims the nonce in its own transaction; the response is       *)
(* signed after it, across awaits in which other exchanges under the same  *)
(* nonce arrive, the Mission moves on, or the process is lost.             *)
(***************************************************************************)
EXTENDS Integers, Sequences

CONSTANTS
    Exchanges,   \* HTTP exchanges that carry the nonce
    Requests,    \* request digests: the operation and its members
    Operation,   \* Operation[r]: the operation r asks for
    Expected,    \* Expected[r]: its expected_version, 0 for none
    Retention,   \* the deployment's replay window
    Validity,    \* from iat to exp of a signed response
    Horizon,     \* bound: the clock's last value
    MaxMoves,    \* bound: changes of the Mission by others
    MaxCrashes,  \* bound: process losses
    None,        \* no retained response
    Same         \* bytes that every exchange would produce alike

Operations == {"suspend", "resume", "revoke", "complete", "contain"}
Live == {"active", "suspended"}
States == Live \cup {"revoked", "completed", "expired"}
Observations == [state : States, version : Nat, at : Nat]
\* A response, or an answer retained nowhere.
Answers == [status : {"ok", "refused", "divergent", "unserved"}, seen : Observations,
            by : Exchanges \cup {Same}]
Rows == [request : Requests, status : {"ok", "refused"}, seen : Observations,
         final : BOOLEAN, by : Exchanges \cup {Same}, expires : Nat]

ASSUME RequestAssumption ==
    /\ Operation \in [Requests -> Operations]
    /\ Expected \in [Requests -> Nat]
    /\ {Retention, Validity, Horizon, MaxMoves, MaxCrashes} \subseteq Nat
    /\ Same \notin Exchanges /\ None \notin Rows

VARIABLES
    now,        \* the clock
    mission,    \* the Mission's state, version, and whether it is contained
    row,        \* the retained response of the nonce, or None
    exchange,   \* exchange[x]: what x is at
    decided,    \* history: the commits and refusals decided under the nonce
    moves,      \* changes of the Mission by others so far
    crashes     \* process losses so far

vars == <<now, mission, row, exchange, decided, moves, crashes>>

-----------------------------------------------------------------------------
(* The operation                                                           *)

Target == [suspend |-> "suspended", resume |-> "active",
           revoke |-> "revoked", complete |-> "completed"]

\* LEGAL_TRANSITIONS
From == [suspend |-> {"active"}, resume |-> {"suspended"}, revoke |-> Live, complete |-> Live]

\* A state the operation leads to is an idempotent success, but for resume.
Idempotent(o) == o \notin {"resume", "contain"} /\ mission.state = Target[o]

\* transition and contain: the version guard first, then the rule.
Admitted(r) ==
    /\ Expected[r] \in {0, mission.version}
    /\ IF Operation[r] = "contain" THEN mission.state \in Live
       ELSE Idempotent(Operation[r]) \/ mission.state \in From[Operation[r]]

Committed(r) ==
    LET o == Operation[r]
    IN IF o = "contain"
       THEN IF mission.contained THEN mission
            ELSE [mission EXCEPT !.contained = TRUE, !.version = @ + 1]
       ELSE IF Idempotent(o) THEN mission
            ELSE [mission EXCEPT !.state = Target[o], !.version = @ + 1]

\* What a response reports: the Mission at the commit's own observation point.
Observed(m) == [state |-> m.state, version |-> m.version, at |-> now]

\* contain answers in JSON, which re-serializes to the same bytes.
Signed(r) == Operation[r] # "contain"

-----------------------------------------------------------------------------
(* The retained response                                                   *)

\* A row past its window is purged before the nonce is read or written.
Unexpired(stored) == IF stored # None /\ now > stored.expires THEN None ELSE stored

\* find
Found == Unexpired(row)

\* The window, never shorter than the response's own validity.
ClaimedUntil(r) ==
    now + (IF Signed(r) /\ Validity > Retention THEN Validity ELSE Retention)

\* Mutant: the nonce is claimed with the bytes, after the signature.
ClaimedLate(r, seen) == Found

\* claimInCallerTx, when find came back empty in the same run.
Claimed(r, seen) ==
    [request |-> r, status |-> "ok", seen |-> seen, final |-> FALSE,
     by |-> Same, expires |-> ClaimedUntil(r)]

\* record: the claim made under this request is finalized, expired or not; else
\* the first writer wins.
Recorded(stored, r, response) ==
    IF stored # None /\ stored.final = FALSE /\ stored.request = r
    THEN [stored EXCEPT !.final = TRUE, !.status = response.status,
                        !.seen = response.seen, !.by = response.by]
    ELSE IF Unexpired(stored) # None THEN stored
    ELSE [request |-> r, status |-> response.status, seen |-> response.seen,
          final |-> TRUE, by |-> response.by, expires |-> now + Retention]

Response(kept) == [status |-> kept.status, seen |-> kept.seen, by |-> kept.by]

\* Mutant: an exchange delivers the bytes it signed.
DeliveredOwn(r, response, kept) == response

\* What the exchange delivers: the response retained for its request.
Delivered(r, response, kept) ==
    IF kept.final /\ kept.request = r THEN Response(kept) ELSE response

-----------------------------------------------------------------------------
(* The exchanges                                                           *)

Nothing == [state |-> "active", version |-> 0, at |-> 0]

\* Answers retained nowhere: unavailable, not found, or a divergent retry.
Unserved == [status |-> "unserved", seen |-> Nothing, by |-> Same]
Divergent == [status |-> "divergent", seen |-> Nothing, by |-> Same]

Fresh == [at |-> "idle", request |-> None, arrived |-> 0, until |-> 0,
          seen |-> Nothing, answer |-> Unserved]

Pending == {"granting", "signing"}

Arriving(x) == exchange[x].at = "idle"

Answer(x, r, answer) ==
    exchange' = [exchange EXCEPT ![x] =
        [@ EXCEPT !.at = "answered", !.request = r, !.arrived = now, !.answer = answer]]

Await(x, r, phase, seen, until) ==
    exchange' = [exchange EXCEPT ![x] =
        [@ EXCEPT !.at = phase, !.request = r, !.arrived = now,
                  !.seen = seen, !.until = until]]

\* Not authorized, or a fault before anything committed: nothing is retained.
TurnAway(x, r) ==
    /\ Arriving(x)
    /\ Answer(x, r, Unserved)
    /\ UNCHANGED <<now, mission, row, decided, moves, crashes>>

\* The nonce is held under another request.
RefuseDivergent(x, r) ==
    /\ Arriving(x)
    /\ Found # None /\ Found.request # r
    /\ Answer(x, r, Divergent)
    /\ UNCHANGED <<now, mission, row, decided, moves, crashes>>

\* A final row replays its bytes.
Replay(x, r) ==
    /\ Arriving(x)
    /\ Found # None /\ Found.request = r /\ Found.final
    /\ Answer(x, r, Response(Found))
    /\ UNCHANGED <<now, mission, row, decided, moves, crashes>>

\* A committed row is finalized from its material: the recorded observation is
\* signed again, whether its first exchange was lost or still signs it.
Recover(x, r) ==
    /\ Arriving(x)
    /\ Found # None /\ Found.request = r /\ ~Found.final
    /\ Await(x, r, "signing", Found.seen, Found.expires)
    /\ UNCHANGED <<now, mission, row, decided, moves, crashes>>

\* The operation, the observation it is reported at and the nonce's claim are
\* one transaction. A terminated Mission's OAuth grant is destroyed after it.
\* contain awaits nothing from there to its answer, and no exchange can tell its
\* signing phase, since its bytes are the same whoever writes them.
Execute(x, r) ==
    /\ Arriving(x)
    /\ Found = None /\ Admitted(r)
    /\ mission' = Committed(r)
    /\ row' = Claimed(r, Observed(mission'))
    /\ Await(x, r, IF mission'.state \in Live THEN "signing" ELSE "granting",
             Observed(mission'), ClaimedUntil(r))
    /\ decided' = Append(decided, [request |-> r, status |-> "ok", seen |-> Observed(mission')])
    /\ UNCHANGED <<now, moves, crashes>>

\* A stale version or a conflict is a response too, retained as one.
Refuse(x, r) ==
    /\ Arriving(x)
    /\ Found = None /\ ~Admitted(r)
    /\ LET refusal == [status |-> "refused", seen |-> Observed(mission), by |-> Same]
       IN /\ row' = Recorded(Found, r, refusal)
          /\ Answer(x, r, Delivered(r, refusal, row'))
    /\ decided' = Append(decided, [request |-> r, status |-> "refused", seen |-> Observed(mission)])
    /\ UNCHANGED <<now, mission, moves, crashes>>

\* The grant is destroyed, and the signature begins.
EndGrant(x) ==
    /\ exchange[x].at = "granting"
    /\ exchange' = [exchange EXCEPT ![x].at = "signing"]
    /\ UNCHANGED <<now, mission, row, decided, moves, crashes>>

\* The signature ends: its bytes are retained before they are delivered.
Deliver(x) ==
    LET e == exchange[x]
        response == [status |-> "ok", seen |-> e.seen,
                     by |-> IF Signed(e.request) THEN x ELSE Same]
    IN /\ e.at = "signing"
       /\ row' = Recorded(row, e.request, response)
       /\ exchange' = [exchange EXCEPT ![x].at = "answered",
                           ![x].answer = Delivered(e.request, response, row')]
       /\ UNCHANGED <<now, mission, decided, moves, crashes>>

\* The grant's destruction or the signature fails, after the commit.
Fail(x) ==
    /\ exchange[x].at \in Pending
    /\ exchange' = [exchange EXCEPT ![x].at = "answered", ![x].answer = Unserved]
    /\ UNCHANGED <<now, mission, row, decided, moves, crashes>>

-----------------------------------------------------------------------------
(* The environment                                                         *)

\* Another key's operation, a schedule or the expiry clock.
Move ==
    /\ moves < MaxMoves
    /\ mission.state \in Live
    /\ \E s \in {"active", "suspended", "revoked", "completed", "expired"} \ {mission.state} :
          mission' = [mission EXCEPT !.state = s, !.version = @ + 1]
    /\ moves' = moves + 1
    /\ UNCHANGED <<now, row, exchange, decided, crashes>>

\* The process is lost, and started again.
Crash ==
    /\ crashes < MaxCrashes
    /\ crashes' = crashes + 1
    /\ exchange' = [x \in Exchanges |->
          IF exchange[x].at \in Pending THEN [exchange[x] EXCEPT !.at = "lost"] ELSE exchange[x]]
    /\ UNCHANGED <<now, mission, row, decided, moves>>

\* A signature is assumed to end within the window its claim is retained for.
Tick ==
    /\ now < Horizon
    /\ \A x \in Exchanges : exchange[x].at \in Pending => now < exchange[x].until
    /\ now' = now + 1
    /\ UNCHANGED <<mission, row, exchange, decided, moves, crashes>>

-----------------------------------------------------------------------------
Init ==
    /\ now = 0
    /\ mission \in [state : Live, version : {1}, contained : BOOLEAN]
    /\ row = None
    /\ exchange = [x \in Exchanges |-> Fresh]
    /\ decided = <<>>
    /\ moves = 0
    /\ crashes = 0

Arrive(x, r) ==
    \/ TurnAway(x, r) \/ RefuseDivergent(x, r) \/ Replay(x, r)
    \/ Recover(x, r) \/ Execute(x, r) \/ Refuse(x, r)

Next ==
    \/ \E x \in Exchanges, r \in Requests : Arrive(x, r)
    \/ \E x \in Exchanges : EndGrant(x) \/ Deliver(x) \/ Fail(x)
    \/ Move
    \/ Crash
    \/ Tick

Spec == Init /\ [][Next]_vars

-----------------------------------------------------------------------------
(* Properties                                                              *)

\* Every variable has its type.
TypeOK ==
    /\ now \in Nat
    /\ mission \in [state : States, version : Nat, contained : BOOLEAN]
    /\ row \in Rows \cup {None}
    /\ exchange \in [Exchanges ->
          [at : {"idle", "answered", "lost"} \cup Pending, request : Requests \cup {None},
           arrived : Nat, until : Nat, seen : Observations, answer : Answers]]
    /\ decided \in Seq([request : Requests, status : {"ok", "refused"}, seen : Observations])
    /\ moves \in Nat /\ crashes \in Nat

\* The window the profile asks for: the deployment's, and at least the validity
\* span of the signed response that would be replayed.
Window(d) ==
    IF d.status = "ok" /\ Signed(d.request) /\ Validity > Retention THEN Validity ELSE Retention

Covers(d, t) == d.seen.at <= t /\ t <= d.seen.at + Window(d)

\* One effect per nonce: within the window of one decision, a commit or a
\* refusal, the endpoint decides nothing else under the nonce, however often
\* the request is sent again, in whatever phase its first exchange is or was
\* lost in, and whatever became of the Mission since.
OneDecision ==
    \A i, j \in 1 .. Len(decided) :
        i < j => decided[j].seen.at > decided[i].seen.at + Window(decided[i])

Responses == {x \in Exchanges : exchange[x].at = "answered"
                                /\ exchange[x].answer.status \in {"ok", "refused"}}

\* One answer per nonce: a response reports, as observed then, a decision on the
\* very request it answers; the responses of one window are the same bytes; and
\* a retry is called divergent only where another request holds the nonce.
OneAnswer ==
    /\ \A x \in Responses : \E i \in 1 .. Len(decided) :
          /\ Covers(decided[i], exchange[x].arrived)
          /\ decided[i].request = exchange[x].request
          /\ decided[i].status = exchange[x].answer.status
          /\ decided[i].seen = exchange[x].answer.seen
    /\ \A x, y \in Responses : \A i \in 1 .. Len(decided) :
          Covers(decided[i], exchange[x].arrived) /\ Covers(decided[i], exchange[y].arrived)
             => exchange[x].answer = exchange[y].answer
    /\ \A x \in Exchanges : exchange[x].at = "answered" /\ exchange[x].answer = Divergent
          => \E i \in 1 .. Len(decided) :
                Covers(decided[i], exchange[x].arrived) /\ decided[i].request # exchange[x].request

=============================================================================
