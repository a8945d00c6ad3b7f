----------------------------- MODULE PermitClaims ------------------------------
(***************************************************************************)
(* The policy decision point's idempotency claims and budget reservations  *)
(* (pdp/src/idempotency-claims.ts) composed with the enforcement point     *)
(* that redeems, executes and reports (mcp-payments/src/server.ts,         *)
(* transaction.ts, redemption-status.ts, claim-reconciliation.ts).         *)
(*                                                                         *)
(* The decision point never redeems a permit and the enforcement point     *)
(* never touches a budget. Each learns of the other by calls that wait,    *)
(* may be lost, and may find the other side moved on or started anew. A    *)
(* step is one transaction of the claim file, or what the enforcement      *)
(* point does between two awaits.                                          *)
(***************************************************************************)
EXTENDS Integers, FiniteSets, FiniteSetsExt

CONSTANTS
    Requests,    \* requests, each with the evaluation made for it
    NoRequest,   \* the evaluation, or attempt, of none
    Keys,        \* pairs of idempotency scope and key
    Ops,         \* operation identities
    KeyOf,       \* KeyOf[r]: the key r carries
    OpOf,        \* OpOf[r]: the operation r asks for
    Counters,    \* budget counters
    ChargedTo,   \* ChargedTo[k]: the counters a request under k charges
    Amount,      \* Amount[r]: what r charges to each of them
    Limit,       \* Limit[c]: the limit of the counter c
    Validity,    \* how long a permit may initiate an effect
    LeaseMax,    \* the longest execution lease of the class
    Window,      \* the reconciliation window
    ReplayWindow,\* how old a message of the decision channel may be
    Horizon,     \* how long a settled claim without a charge is kept
    LastRequest, \* bound: the last instant at which a request arrives
    MaxTime,     \* bound: the clock's last value
    MaxBoots,    \* bound: starts of the decision point
    MaxEpochs    \* bound: starts of the enforcement point

ASSUME RequestAssumption ==
    /\ NoRequest \notin Requests
    /\ KeyOf \in [Requests -> Keys]
    /\ OpOf \in [Requests -> Ops]

\* The evaluations of a deployment's life are finitely many.
ASSUME FiniteAssumption == IsFiniteSet(Requests)

ASSUME ChargeAssumption ==
    /\ ChargedTo \in [Keys -> SUBSET Counters]
    /\ Amount \in [Requests -> Nat]
    /\ Limit \in [Counters -> Nat]

ASSUME TimeAssumption ==
    /\ {Validity, LeaseMax, Window, ReplayWindow, Horizon, LastRequest, MaxTime} \subseteq Nat
    /\ {MaxBoots, MaxEpochs} \subseteq Nat \ {0}
    /\ LastRequest + Validity + LeaseMax + Window <= MaxTime

VARIABLES
    now,         \* the clock, one for both sides
    boot,        \* the decision point's current process
    claim,       \* claim[k]: the row that holds k, or NoClaim
    booked,      \* booked[r]: the reservation of the evaluation r
    overspent,   \* the counters reported over their limit
    conflicts,   \* the settlement records retained as conflicting
    req,         \* req[r]: where the request r is, on either side
    epoch,       \* the enforcement point's current process
    redeemed,    \* redeemed[o]: the attempt that redeemed for o, this process
    ledger,      \* ledger[o]: the permit under which o took effect
    records,     \* the Execution Evidence retained
    sent,        \* the settlements on their way to the decision point
    confirmed,   \* those whose attempt the enforcement point has confirmed
    misled       \* the permits an operator wrongly reported as not executed

pdpVars == <<boot, claim, booked, overspent, conflicts>>
pepVars == <<epoch, redeemed, ledger, records>>
vars == <<now, pdpVars, req, pepVars, sent, confirmed, misled>>

-----------------------------------------------------------------------------
\* eval is the evaluation whose permit the claim is for; by and outcome are
\* what its settlement wrote; retain is the end of its horizon.
NoClaim == [eval |-> NoRequest, state |-> "none", boot |-> 0, epoch |-> 0,
            until |-> 0, by |-> NoRequest, outcome |-> "none", retain |-> 0]

\* permit is the evaluation whose permit r was given, last the last instant at
\* which r may still use it.
Idle == [at |-> "idle", epoch |-> 0, permit |-> NoRequest, last |-> 0]

Terminal == {"completed", "failed", "indeterminate"}

Claims == [eval : Requests \cup {NoRequest},
           state : Terminal \cup {"none", "claimed", "permit_issued", "unresolved"},
           boot : 0 .. MaxBoots, epoch : 0 .. MaxEpochs, until : Nat,
           by : Requests \cup {NoRequest},
           outcome : {"none", "completed", "suppressed", "unredeemed"}, retain : Nat]

\* An attempt is named by its request.
Records == [permit : Requests, by : Requests, outcome : {"completed", "suppressed"}]

Settlements == [permit : Requests, by : Requests, issued : Nat,
                outcome : {"completed", "suppressed", "unredeemed"}]

\* carriesReservations: a claim with a charge is never purged and its permit
\* is never sent again.
Metered(k) == ChargedTo[k] # {}

LeaseOver(row) == now > row.until + LeaseMax

\* Mutant: an unresolved claim waits for its evidence for ever.
WindowNeverClosed(row) == FALSE

WindowClosed(row) == now >= row.until + LeaseMax + Window

-----------------------------------------------------------------------------
(* What time and a restart alone decide                                    *)

\* An issued permit the process b cannot vouch for: another's, or past its lease.
Unknown(row, b) == row.state = "permit_issued" /\ (row.boot # b \/ LeaseOver(row))

\* The row of k after the process b has read it: advance.
Advanced(k, b) ==
    LET row == claim[k]
        open == Unknown(row, b) \/ row.state = "unresolved"
    IN CASE row.state \in {"completed", "failed"} /\ now >= row.retain /\ ~Metered(k)
                -> NoClaim
         [] open /\ WindowClosed(row) -> [row EXCEPT !.state = "indeterminate"]
         [] open /\ ~WindowClosed(row) -> [row EXCEPT !.state = "unresolved"]
         [] OTHER -> row

\* Mutant: a permit whose lease elapsed gives its reservation back.
SweptReleasing(row, b) ==
    CASE Unknown(row, b) -> "released"
      [] row.state = "claimed" /\ row.boot # b -> "void"
      [] OTHER -> "reserved"

\* What advance makes of an unused reservation: held where the permit may have
\* been used, void (NO_PERMIT_RELEASES) where no permit ever left.
Swept(row, b) ==
    CASE Unknown(row, b) -> "held"
      [] row.state = "claimed" /\ row.boot # b -> "void"
      [] OTHER -> "reserved"

\* The bookings once the rows of ks have advanced.
BookedAfter(ks, b) ==
    [r \in Requests |->
        IF booked[r] = "reserved" /\ KeyOf[r] \in ks /\ claim[KeyOf[r]].eval = r
        THEN Swept(claim[KeyOf[r]], b)
        ELSE booked[r]]

AdvanceOnly(k) ==
    /\ claim' = [claim EXCEPT ![k] = Advanced(k, boot)]
    /\ booked' = BookedAfter({k}, boot)

\* Still held by an evaluation of the process b.
InFlight(row, b) == row.boot = b /\ req[row.eval].at = "claimed"

\* sweepNow: every row advances, and the reservation of an evaluation that
\* ended without a permit is released.
SweepNow(b) ==
    /\ claim' = [k \in Keys |-> Advanced(k, b)]
    /\ booked' =
        [r \in Requests |->
            LET row == claim[KeyOf[r]] IN
            IF row.eval = r /\ row.state = "claimed" /\ booked[r] = "reserved" /\ ~InFlight(row, b)
            THEN "void"
            ELSE BookedAfter(Keys, b)[r]]

-----------------------------------------------------------------------------
(* The counters                                                            *)

Charged == {"reserved", "held", "committed"}

\* What is reserved, held or committed all counts.
Used(books, c) ==
    MapThenSumSet(LAMBDA r : Amount[r],
        {r \in Requests : c \in ChargedTo[KeyOf[r]] /\ books[r] \in Charged})

\* Mutant: what is held is not counted against the limit.
FitsIgnoringHeld(books, r) ==
    \A c \in ChargedTo[KeyOf[r]] :
        Used([q \in Requests |-> IF books[q] = "held" THEN "none" ELSE books[q]], c)
            + Amount[r] <= Limit[c]

\* reserve: every counter has room, or none is charged.
Fits(books, r) ==
    \A c \in ChargedTo[KeyOf[r]] : Used(books, c) + Amount[r] <= Limit[c]

\* A commit after a release reports the counters it pushes over their limit.
Overspend(e) ==
    IF booked[e] = "released"
    THEN {c \in ChargedTo[KeyOf[e]] :
            Used([booked EXCEPT ![e] = "committed"], c) > Limit[c]}
    ELSE {}

-----------------------------------------------------------------------------
(* The decision point: claiming a key and persisting the permit            *)

Reserve(r, books) == [books EXCEPT ![r] = IF Metered(KeyOf[r]) THEN "reserved" ELSE @]

Insert(r) ==
    [NoClaim EXCEPT !.eval = r, !.state = "claimed", !.boot = boot,
                    !.epoch = epoch, !.until = now + Validity]

Ended(r) == [req EXCEPT ![r].at = "done"]

\* Mutant: a permit of an earlier process counts as never issued.
AdoptableIssued(row) ==
    \/ row.state = "claimed" /\ ~InFlight(row, boot)
    \/ row.state \in {"permit_issued", "unresolved"} /\ row.boot # boot

\* No decision was persisted and no evaluation of this process holds the row.
Adoptable(row) == row.state = "claimed" /\ ~InFlight(row, boot)

\* Conditions 1 to 5 of a retransmission. from is the asker's epoch.
Retransmittable(row, k, from) ==
    /\ row.state = "permit_issued"
    /\ ~Metered(k)
    /\ now < row.until
    /\ row.epoch = from

\* claimNow. The row advances whatever the answer; an abandoned evaluation's
\* reservation is given up before the new one is made.
Evaluate(r) ==
    LET k == KeyOf[r]
        row == Advanced(k, boot)
        books == BookedAfter({k}, boot)
        abandoned == IF row.state = "claimed" /\ books[row.eval] = "reserved"
                     THEN [books EXCEPT ![row.eval] = "void"] ELSE books
        sameOp == row.state # "none" /\ OpOf[row.eval] = OpOf[r]
        at(to) == [Idle EXCEPT !.at = to, !.epoch = epoch]
    IN /\ req[r].at = "idle"
       /\ now <= LastRequest
       /\ \/ /\ row.state = "none" \/ (sameOp /\ Adoptable(row))
             /\ \/ /\ Fits(abandoned, r)
                   /\ claim' = [claim EXCEPT ![k] = Insert(r)]
                   /\ booked' = Reserve(r, abandoned)
                   /\ req' = [req EXCEPT ![r] = at("claimed")]
                \/ /\ ~Fits(abandoned, r)
                   /\ claim' = [claim EXCEPT ![k] = row]
                   /\ booked' = abandoned
                   /\ req' = [req EXCEPT ![r] = at("done")]
          \/ /\ sameOp /\ Retransmittable(row, k, epoch)
             /\ AdvanceOnly(k)
             /\ req' = [req EXCEPT ![r] = [at("asking") EXCEPT !.permit = row.eval]]
          \/ /\ row.state # "none"
             /\ ~(sameOp /\ (Adoptable(row) \/ Retransmittable(row, k, epoch)))
             /\ AdvanceOnly(k)
             /\ req' = [req EXCEPT ![r] = at("done")]
       /\ UNCHANGED <<now, boot, overspent, conflicts, pepVars, sent, confirmed, misled>>

\* The answer reaches the process that asked, or is lost.
Answered(r, e, until) ==
    \/ /\ req[r].epoch = epoch
       /\ req' = [req EXCEPT ![r] = [@ EXCEPT !.at = "permit", !.permit = e, !.last = until]]
    \/ req' = Ended(r)

\* ticket.persist: the decision is durable before it leaves.
Persist(r) ==
    LET k == KeyOf[r] IN
    /\ req[r].at = "claimed"
    /\ claim[k].eval = r /\ claim[k].state = "claimed" /\ claim[k].boot = boot
    /\ claim' = [claim EXCEPT ![k].state = "permit_issued"]
    /\ Answered(r, r, claim[k].until)
    /\ UNCHANGED <<now, boot, booked, overspent, conflicts, pepVars, sent, confirmed, misled>>

\* The evaluation ends without a permit. Its release is best effort: the store
\* that failed the persist may fail it too.
PersistFails(r) ==
    LET row == claim[KeyOf[r]] IN
    /\ req[r].at = "claimed"
    /\ req' = Ended(r)
    /\ \/ /\ row.eval = r /\ row.state = "claimed" /\ booked[r] = "reserved"
          /\ booked' = [booked EXCEPT ![r] = "void"]
       \/ UNCHANGED booked
    /\ UNCHANGED <<now, boot, claim, overspent, conflicts, pepVars, sent, confirmed, misled>>

-----------------------------------------------------------------------------
(* The enforcement point: what its redemption store answers                *)

RedeemedPermit(o) == req[redeemed[o]].permit

Consumed(e) == \E o \in Ops : redeemed[o] # NoRequest /\ RedeemedPermit(o) = e

\* consumptionStatus: unconsumed only from the store the permit was issued to.
Unconsumed(e, of) == of = epoch /\ ~Consumed(e)

Redeemer(e) ==
    {redeemed[o] : o \in {q \in Ops : redeemed[q] # NoRequest /\ RedeemedPermit(q) = e}}

\* askConsumption: any other answer, or none in time, suppresses.
AnswerConsumption(r) ==
    /\ req[r].at = "asking"
    /\ \/ /\ Unconsumed(req[r].permit, req[r].epoch)
          /\ req' = [req EXCEPT ![r].at = "answered"]
       \/ req' = Ended(r)
    /\ UNCHANGED <<now, pdpVars, pepVars, sent, confirmed, misled>>

\* Mutant: the row read before the question is still trusted.
WasIssued(r, row) == row.eval = req[r].permit

\* The recheck of the row as it stands after the question.
StillIssued(r, row) ==
    row.eval = req[r].permit /\ Retransmittable(row, KeyOf[r], req[r].epoch)

\* retransmit: the row may have moved while the enforcement point answered.
Retransmit(r) ==
    LET k == KeyOf[r]
        row == Advanced(k, boot)
    IN /\ req[r].at = "answered"
       /\ AdvanceOnly(k)
       /\ IF StillIssued(r, row)
          THEN Answered(r, row.eval, row.until)
          ELSE req' = Ended(r)
       /\ UNCHANGED <<now, boot, overspent, conflicts, pepVars, sent, confirmed, misled>>

-----------------------------------------------------------------------------
(* The enforcement point: redeeming, executing and reporting               *)

\* redeemPermit, on the operation's key, under a lease the permit bounds.
Redeem(r) ==
    /\ req[r].at = "permit"
    /\ now < req[r].last
    /\ LeaseMax > 0
    /\ redeemed[OpOf[r]] = NoRequest
    /\ redeemed' = [redeemed EXCEPT ![OpOf[r]] = r]
    /\ req' = [req EXCEPT ![r].at = "redeemed",
                          ![r].last = IF @ < now + LeaseMax THEN @ ELSE now + LeaseMax]
    /\ UNCHANGED <<now, pdpVars, epoch, ledger, records, sent, confirmed, misled>>

\* Refused before it redeemed: nothing is reported, the claim is not settled.
Refuse(r) ==
    /\ req[r].at = "permit"
    /\ req' = Ended(r)
    /\ UNCHANGED <<now, pdpVars, pepVars, sent, confirmed, misled>>

\* A record on the decision channel, with the instant it was signed for it.
Issue(m) == [permit |-> m.permit, by |-> m.by, outcome |-> m.outcome, issued |-> now]

RecordOf(r, outcome) == [permit |-> req[r].permit, by |-> r, outcome |-> outcome]

\* A disposition is recorded and sent, or the record cannot be written.
Dispose(r, outcome) ==
    /\ req' = Ended(r)
    /\ \/ /\ records' = records \cup {RecordOf(r, outcome)}
          /\ sent' = sent \cup {Issue(RecordOf(r, outcome))}
       \/ UNCHANGED <<records, sent>>

\* A check between the redemption and the effect refuses.
Suppress(r) ==
    /\ req[r].at = "redeemed"
    /\ Dispose(r, "suppressed")
    /\ UNCHANGED <<now, pdpVars, epoch, redeemed, ledger, confirmed, misled>>

\* The connector takes the effect once per operation; a repeat is deduplicated.
Commit(r) ==
    /\ req[r].at = "redeemed"
    /\ now <= req[r].last
    /\ ledger' = [ledger EXCEPT ![OpOf[r]] = IF @ = NoRequest THEN req[r].permit ELSE @]
    /\ req' = [req EXCEPT ![r].at = "executed"]
    /\ UNCHANGED <<now, pdpVars, epoch, redeemed, records, sent, confirmed, misled>>

Report(r) ==
    /\ req[r].at = "executed"
    /\ Dispose(r, "completed")
    /\ UNCHANGED <<now, pdpVars, epoch, redeemed, ledger, confirmed, misled>>

-----------------------------------------------------------------------------
(* Settlement                                                              *)

Row(e) == claim[KeyOf[e]]

\* The channel refuses a request older than its replay window.
Fresh(m) == now - m.issued <= ReplayWindow

\* settle, up to its wait: a claim not settled yet takes a suppression only
\* from the attempt the redemption owner names.
AskRedeemer(m) ==
    /\ m \in sent /\ Fresh(m)
    /\ m.outcome = "suppressed"
    /\ sent' = sent \ {m}
    /\ confirmed' =
        IF Row(m.permit).eval = m.permit
           /\ (Row(m.permit).by # NoRequest \/ (Row(m.permit).epoch = epoch /\ m.by \in Redeemer(m.permit)))
        THEN confirmed \cup {m}
        ELSE confirmed
    /\ UNCHANGED <<now, pdpVars, req, pepVars, misled>>

\* settleReservations, by the outcome.
SettledBooking(state, outcome) ==
    CASE outcome = "completed" /\ state \in {"reserved", "held", "released"} -> "committed"
      [] outcome = "suppressed" /\ state \in {"reserved", "held"} -> "released"
      [] outcome = "unredeemed" /\ state = "reserved" -> "held"
      [] OTHER -> state

\* A completed record its claim refuses still corrects a release, or commits
\* what a conflicting settlement left.
CommitBooking(e, from) ==
    /\ booked' = IF booked[e] \in from
                 THEN [BookedAfter({KeyOf[e]}, boot) EXCEPT ![e] = "committed"]
                 ELSE BookedAfter({KeyOf[e]}, boot)
    /\ overspent' = overspent \cup IF booked[e] \in from THEN Overspend(e) ELSE {}

\* Mutant: it takes it as soon as the claim is unresolved.
ProofTakenEarly(row) == row.state = "unresolved"

\* reconcile takes the owner's proof of no redemption only after the lease.
ProofTaken(row) == row.state = "unresolved" /\ LeaseOver(row)

Settleable(row, outcome) ==
    IF outcome = "unredeemed" THEN ProofTaken(row)
    ELSE row.state \in {"permit_issued", "unresolved"}

\* applySettlement, in one transaction that advances the row first.
ApplySettlement(m) ==
    LET k == KeyOf[m.permit]
        row == Advanced(k, boot)
        held == claim[k].eval = m.permit /\ row.eval = m.permit
    IN \/ /\ held /\ row.by = NoRequest /\ Settleable(row, m.outcome)
          /\ claim' = [claim EXCEPT ![k] =
                [row EXCEPT !.state = IF m.outcome = "completed" THEN "completed" ELSE "failed",
                            !.by = m.by, !.outcome = m.outcome, !.retain = now + Horizon]]
          /\ booked' = [BookedAfter({k}, boot) EXCEPT ![m.permit] = SettledBooking(@, m.outcome)]
          /\ overspent' = overspent \cup
                IF m.outcome = "completed" THEN Overspend(m.permit) ELSE {}
          /\ UNCHANGED conflicts
       \/ /\ held /\ row.by # NoRequest
          /\ m.outcome # "unredeemed"
          /\ row.by # m.by \/ row.outcome # m.outcome
          /\ conflicts' = conflicts \cup {[permit |-> m.permit, by |-> m.by, outcome |-> m.outcome]}
          /\ claim' = [claim EXCEPT ![k] = row]
          /\ CommitBooking(m.permit, IF m.outcome = "completed"
                                     THEN {"reserved", "held", "released"} ELSE {})
       \/ /\ ~(held /\ row.by = NoRequest /\ Settleable(row, m.outcome))
          /\ \/ ~held \/ row.by = NoRequest \/ m.outcome = "unredeemed"
             \/ row.by = m.by /\ row.outcome = m.outcome
          /\ claim' = [claim EXCEPT ![k] = row]
          /\ CommitBooking(m.permit,
                IF m.outcome = "completed" /\ claim[k].eval = m.permit THEN {"released"} ELSE {})
          /\ UNCHANGED conflicts

Settle(m) ==
    /\ \/ /\ m \in sent /\ Fresh(m) /\ m.outcome # "suppressed"
          /\ sent' = sent \ {m} /\ UNCHANGED confirmed
       \/ /\ m \in confirmed
          /\ confirmed' = confirmed \ {m} /\ UNCHANGED sent
    /\ ApplySettlement(m)
    /\ UNCHANGED <<now, boot, req, pepVars, misled>>

\* A settlement that fails to arrive, or whose attempt is not confirmed in time.
Lose(m) ==
    /\ m \in sent
    /\ sent' = sent \ {m}
    /\ UNCHANGED <<now, pdpVars, req, pepVars, confirmed, misled>>

-----------------------------------------------------------------------------
(* Reconciliation                                                          *)

\* Mutant: the late record takes an identity of its own.
LedgerRecordsFresh(e) ==
    {[permit |-> e, by |-> CHOOSE q \in Requests : q # r, outcome |-> "completed"] :
        r \in IF \E o \in Ops : ledger[o] = e THEN Redeemer(e) ELSE {}}

\* fromLedger: the late record is the disposition of the attempt the pre-effect
\* record names, the one that redeemed.
LedgerRecords(e) ==
    {[permit |-> e, by |-> r, outcome |-> "completed"] :
        r \in IF \E o \in Ops : ledger[o] = e THEN Redeemer(e) ELSE {}}

\* What reconcileClaim offers for e, in its order.
Offers(e) ==
    LET completed == {m \in records : m.permit = e /\ m.outcome = "completed"}
        suppressed == {m \in records : m.permit = e /\ m.outcome = "suppressed" /\ m.by \in Redeemer(e)}
    IN CASE completed # {} -> completed
         [] completed = {} /\ Consumed(e) /\ LedgerRecords(e) # {} -> LedgerRecords(e)
         [] completed = {} /\ Consumed(e) /\ LedgerRecords(e) = {} -> suppressed
         [] OTHER -> {[permit |-> e, by |-> e, outcome |-> "unredeemed"]}

\* listUnresolved sweeps, lists the claims of this epoch, and one is offered
\* what the execution side observed.
Reconcile(k) ==
    LET row == Advanced(k, boot) IN
    /\ row.state = "unresolved" /\ row.epoch = epoch
    /\ SweepNow(boot)
    /\ \E m \in Offers(row.eval) :
        /\ sent' = sent \cup {Issue(m)}
        /\ records' = IF m.outcome = "completed" THEN records \cup {m} ELSE records
    /\ UNCHANGED <<now, boot, overspent, conflicts, req, epoch, redeemed, ledger, confirmed, misled>>

Sweep ==
    /\ SweepNow(boot)
    /\ UNCHANGED <<now, boot, overspent, conflicts, req, pepVars, sent, confirmed, misled>>

TookEffect(e) == \E o \in Ops : ledger[o] = e

\* reconcileHeldReservation, answered executed.
OperatorExecuted(e) ==
    /\ TookEffect(e)
    /\ booked[e] \in {"held", "released"}
    /\ booked' = [booked EXCEPT ![e] = "committed"]
    /\ overspent' = overspent \cup Overspend(e)
    /\ UNCHANGED <<now, boot, claim, conflicts, req, pepVars, sent, confirmed, misled>>

\* The operator answers not_executed, and may be wrong.
OperatorNotExecuted(e) ==
    /\ booked[e] = "held"
    /\ Row(e).eval = e => LeaseOver(Row(e))
    /\ booked' = [booked EXCEPT ![e] = "released"]
    /\ misled' = IF TookEffect(e) THEN misled \cup {e} ELSE misled
    /\ UNCHANGED <<now, boot, claim, overspent, conflicts, req, pepVars, sent, confirmed>>

-----------------------------------------------------------------------------
(* Restarts and time                                                       *)

\* A new process of the decision point sweeps as it opens the file. What the
\* old one was deciding or asking is lost.
RestartPDP ==
    /\ boot < MaxBoots
    /\ boot' = boot + 1
    /\ SweepNow(boot + 1)
    /\ confirmed' = {}
    /\ req' = [r \in Requests |->
            IF req[r].at \in {"claimed", "asking", "answered"}
            THEN [req[r] EXCEPT !.at = "done"] ELSE req[r]]
    /\ UNCHANGED <<now, overspent, conflicts, pepVars, sent, misled>>

\* A new process of the enforcement point has an empty redemption store and
\* none of the permits the old one was given.
RestartPEP ==
    /\ epoch < MaxEpochs
    /\ epoch' = epoch + 1
    /\ redeemed' = [o \in Ops |-> NoRequest]
    /\ req' = [r \in Requests |->
            IF req[r].at \in {"permit", "redeemed", "executed"}
            THEN [req[r] EXCEPT !.at = "done"] ELSE req[r]]
    /\ UNCHANGED <<now, pdpVars, ledger, records, sent, confirmed, misled>>

Tick ==
    /\ now < MaxTime
    /\ now' = now + 1
    /\ UNCHANGED <<pdpVars, req, pepVars, sent, confirmed, misled>>

-----------------------------------------------------------------------------
Init ==
    /\ now = 0
    /\ boot = 1 /\ epoch = 1
    /\ claim = [k \in Keys |-> NoClaim]
    /\ booked = [r \in Requests |-> "none"]
    /\ overspent = {} /\ conflicts = {}
    /\ req = [r \in Requests |-> Idle]
    /\ redeemed = [o \in Ops |-> NoRequest]
    /\ ledger = [o \in Ops |-> NoRequest]
    /\ records = {} /\ sent = {} /\ confirmed = {}
    /\ misled = {}

Next ==
    \/ \E r \in Requests :
        \/ Evaluate(r) \/ Persist(r) \/ PersistFails(r)
        \/ AnswerConsumption(r) \/ Retransmit(r)
        \/ Redeem(r) \/ Refuse(r) \/ Suppress(r) \/ Commit(r) \/ Report(r)
        \/ OperatorExecuted(r) \/ OperatorNotExecuted(r)
    \/ \E m \in sent \cup confirmed : AskRedeemer(m) \/ Settle(m) \/ Lose(m)
    \/ \E k \in Keys : Reconcile(k)
    \/ Sweep \/ RestartPDP \/ RestartPEP \/ Tick

\* The clock moves, and the reconciler lists, which sweeps, every third of the
\* window. Nothing else is promised.
Spec == Init /\ [][Next]_vars /\ WF_vars(Tick) /\ WF_vars(Sweep)

-----------------------------------------------------------------------------
(* Properties                                                              *)

\* Every variable keeps to its range.
TypeOK ==
    /\ now \in 0 .. MaxTime /\ boot \in 1 .. MaxBoots /\ epoch \in 1 .. MaxEpochs
    /\ claim \in [Keys -> Claims]
    /\ booked \in [Requests -> Charged \cup {"none", "released", "void"}]
    /\ overspent \subseteq Counters
    /\ conflicts \subseteq [permit : Requests, by : Requests, outcome : {"completed", "suppressed"}]
    /\ req \in [Requests -> [at : {"idle", "claimed", "asking", "answered", "permit",
                                   "redeemed", "executed", "done"},
                             epoch : 0 .. MaxEpochs, permit : Requests \cup {NoRequest},
                             last : Nat]]
    /\ redeemed \in [Ops -> Requests \cup {NoRequest}]
    /\ ledger \in [Ops -> Requests \cup {NoRequest}]
    /\ records \subseteq Records
    /\ sent \subseteq Settlements /\ confirmed \subseteq Settlements
    /\ misled \subseteq Requests

\* r can still bring about an effect: it holds a permit nobody redeemed, or has
\* redeemed one and has yet to reach the connector.
Usable(r) ==
    /\ now <= req[r].last
    /\ \/ req[r].at = "permit" /\ now < req[r].last /\ redeemed[OpOf[r]] = NoRequest
       \/ req[r].at = "redeemed"

\* While a permit can be used, its claim is open and for that permit: no other
\* evaluation has the key, and no settlement, sweep or purge has closed it.
UsableIsOpen ==
    \A r \in Requests : Usable(r) =>
        /\ claim[KeyOf[r]].eval = req[r].permit
        /\ claim[KeyOf[r]].state \in {"permit_issued", "unresolved"}

\* An effect that happened under a metered permit is charged, reserved, held or
\* committed, unless an operator reported it as not executed.
EffectIsCharged ==
    \A o \in Ops : ledger[o] # NoRequest /\ Metered(KeyOf[ledger[o]]) =>
        booked[ledger[o]] \in Charged \/ ledger[o] \in misled

\* A completed claim's operation took effect; a failed one's permit never did.
VerdictIsTrue ==
    \A k \in Keys :
        /\ claim[k].state = "completed" => ledger[OpOf[claim[k].eval]] # NoRequest
        /\ claim[k].state = "failed" => ~TookEffect(claim[k].eval)

\* The reports, the reconciler's late records and its proofs never contradict
\* one another, whatever their order.
NeverConflicting == conflicts = {}

\* No counter is over its limit but by an effect whose release was wrong, and
\* then the overspend was reported.
WithinLimit == \A c \in Counters : Used(booked, c) <= Limit[c] \/ c \in overspent

\* A permit leaves the decision point only while the file has it as issued, by
\* this process, to the store that will redeem it, and not settled.
LeavesAsIssued ==
    [][\A r \in Requests :
        req'[r].at = "permit" /\ req[r].at # "permit" =>
            LET row == claim'[KeyOf[r]] IN
            /\ row.eval = req'[r].permit /\ row.state = "permit_issued"
            /\ row.boot = boot /\ row.epoch = epoch /\ row.by = NoRequest]_vars

\* An issued permit's claim closes, settled or at the end of its window, even
\* if nothing is ever reported.
PermitsClose ==
    \A k \in Keys :
        claim[k].state \in {"permit_issued", "unresolved"} ~> claim[k].state \in Terminal

=============================================================================
