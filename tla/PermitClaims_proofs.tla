-------------------------- MODULE PermitClaims_proofs --------------------------
(* Proofs about permits and their claims: types; that a permit in use has its *)
(* claim open; that an effect stays charged; that a settled claim's verdict is *)
(* true and never contradicted; for every set of requests, keys, operations   *)
(* and counters, every length of the intervals, and any number of restarts.   *)
EXTENDS PermitClaims, FiniteSetTheorems, TLAPS

-----------------------------------------------------------------------------
(* Types                                                                    *)

\* Where a request is.
Reqs == [at : {"idle", "claimed", "asking", "answered", "permit",
               "redeemed", "executed", "done"},
         epoch : 0 .. MaxEpochs, permit : Requests \cup {NoRequest}, last : Nat]

Bookings == Charged \cup {"none", "released", "void"}

\* The constants, one by one.
LEMMA ConstantTypes ==
    /\ Validity \in Nat /\ LeaseMax \in Nat /\ Window \in Nat /\ ReplayWindow \in Nat
    /\ Horizon \in Nat /\ LastRequest \in Nat /\ MaxTime \in Nat
    /\ MaxBoots \in Nat \ {0} /\ MaxEpochs \in Nat \ {0}
    /\ NoRequest \notin Requests
    /\ \A r \in Requests : KeyOf[r] \in Keys /\ OpOf[r] \in Ops
    /\ NoClaim \in Claims /\ Idle \in Reqs
  BY TimeAssumption, RequestAssumption DEF NoClaim, Claims, Idle, Reqs

\* A row whose permit may be in use.
Open == {"permit_issued", "unresolved"}

\* What reading a row makes of it: it is purged once settled, or an open one
\* becomes unresolved, or indeterminate at the end of its window.
Aged(row, next) ==
    \/ next = row
    \/ row.state \in {"completed", "failed"} /\ next = NoClaim
    \/ row.state \in Open /\ next = [row EXCEPT !.state = "unresolved"]
    \/ row.state \in Open /\ WindowClosed(row) /\ next = [row EXCEPT !.state = "indeterminate"]

LEMMA AdvancedAges ==
    ASSUME TypeOK, NEW k \in Keys, NEW b \in Nat
    PROVE  /\ Aged(claim[k], Advanced(k, b)) /\ Advanced(k, b) \in Claims
           /\ Advanced(k, b).state = "permit_issued" =>
                Advanced(k, b) = claim[k] /\ claim[k].boot = b
           /\ Advanced(k, b).state = "claimed" => Advanced(k, b) = claim[k]
<1> DEFINE row == claim[k]
           open == Unknown(row, b) \/ row.state = "unresolved"
<1>1. row \in Claims
  BY DEF TypeOK
<1>2. open => row.state \in Open
  BY DEF Unknown, Open
<1>3. CASE row.state \in {"completed", "failed"} /\ now >= row.retain /\ ~Metered(k)
  <2>1. Advanced(k, b) = NoClaim
    BY <1>3 DEF Advanced, Unknown
  <2> QED BY <1>3, <2>1, ConstantTypes DEF Aged, NoClaim
<1>4. CASE open /\ WindowClosed(row)
  <2>1. Advanced(k, b) = [row EXCEPT !.state = "indeterminate"]
    BY <1>2, <1>4 DEF Advanced, Open
  <2> QED BY <1>1, <1>2, <1>4, <2>1 DEF Aged, Claims, Terminal, Open
<1>5. CASE open /\ ~WindowClosed(row)
  <2>1. Advanced(k, b) = [row EXCEPT !.state = "unresolved"]
    BY <1>2, <1>5 DEF Advanced, Open
  <2> QED BY <1>1, <1>2, <1>5, <2>1 DEF Aged, Claims, Open
<1>6. CASE /\ ~(row.state \in {"completed", "failed"} /\ now >= row.retain /\ ~Metered(k))
           /\ ~open
  <2>1. Advanced(k, b) = row
    BY <1>6 DEF Advanced
  <2> QED BY <1>1, <1>6, <2>1 DEF Aged, Unknown
<1> QED BY <1>3, <1>4, <1>5, <1>6

\* The conjuncts of TypeOK an action that writes the claim file disturbs.
LEMMA SweepTypes ==
    ASSUME TypeOK, NEW b \in 1 .. MaxBoots
    PROVE  /\ \A k \in Keys : BookedAfter({k}, b) \in [Requests -> Bookings]
           /\ BookedAfter(Keys, b) \in [Requests -> Bookings]
           /\ \A k \in Keys, c \in Claims : [claim EXCEPT ![k] = c] \in [Keys -> Claims]
           /\ [k \in Keys |-> Advanced(k, b)] \in [Keys -> Claims]
           /\ \A k \in Keys : Advanced(k, b) \in Claims
<1>1. \A ks : BookedAfter(ks, b) \in [Requests -> Bookings]
  BY DEF TypeOK, BookedAfter, Swept, Bookings, Charged
<1>2. claim \in [Keys -> Claims] /\ b \in Nat
  BY ConstantTypes DEF TypeOK
<1>3. \A k \in Keys : Advanced(k, b) \in Claims
  BY <1>2, AdvancedAges
<1> QED BY <1>1, <1>2, <1>3

LEMMA SweepNowTypes ==
    ASSUME TypeOK, NEW b \in 1 .. MaxBoots, SweepNow(b)
    PROVE  claim' \in [Keys -> Claims] /\ booked' \in [Requests -> Bookings]
  BY SweepTypes DEF SweepNow, Bookings

\* An entry of req replaced by one that is in range.
LEMMA ReqTypes ==
    ASSUME TypeOK, NEW r \in Requests
    PROVE  /\ Ended(r) \in [Requests -> Reqs]
           /\ \A e \in Requests, to \in {"permit", "asking", "answered", "redeemed", "executed", "done"},
                 t \in Nat :
                /\ [req EXCEPT ![r] = [@ EXCEPT !.at = to, !.permit = e, !.last = t]] \in [Requests -> Reqs]
                /\ [req EXCEPT ![r].at = to] \in [Requests -> Reqs]
                /\ [req EXCEPT ![r].at = to, ![r].last = t] \in [Requests -> Reqs]
           /\ \A q \in Reqs : [req EXCEPT ![r] = q] \in [Requests -> Reqs]
<1>1. req \in [Requests -> Reqs]
  BY DEF TypeOK, Reqs
<1>2. req[r] \in Reqs
  BY <1>1
<1>3. \A q \in Reqs : [req EXCEPT ![r] = q] \in [Requests -> Reqs]
  BY <1>1
<1>4. ASSUME NEW e \in Requests, NEW t \in Nat,
             NEW to \in {"permit", "asking", "answered", "redeemed", "executed", "done"}
      PROVE  /\ [req[r] EXCEPT !.at = to, !.permit = e, !.last = t] \in Reqs
             /\ [req[r] EXCEPT !.at = to] \in Reqs
             /\ [req[r] EXCEPT !.at = to, !.last = t] \in Reqs
  BY ONLY <1>2, <1>4 DEF Reqs
<1>5. ASSUME NEW e \in Requests, NEW t \in Nat,
             NEW to \in {"permit", "asking", "answered", "redeemed", "executed", "done"}
      PROVE  /\ [req EXCEPT ![r] = [@ EXCEPT !.at = to, !.permit = e, !.last = t]]
                     \in [Requests -> Reqs]
             /\ [req EXCEPT ![r].at = to] \in [Requests -> Reqs]
             /\ [req EXCEPT ![r].at = to, ![r].last = t] \in [Requests -> Reqs]
  <2>1. /\ [req EXCEPT ![r].at = to] = [req EXCEPT ![r] = [req[r] EXCEPT !.at = to]]
        /\ [req EXCEPT ![r].at = to, ![r].last = t]
              = [req EXCEPT ![r] = [req[r] EXCEPT !.at = to, !.last = t]]
    BY <1>1
  <2> QED BY <1>3, <1>4, <2>1
<1>6. Ended(r) \in [Requests -> Reqs]
  <2>1. Ended(r) = [req EXCEPT ![r] = [req[r] EXCEPT !.at = "done"]]
    BY <1>1 DEF Ended
  <2>2. [req[r] EXCEPT !.at = "done"] \in Reqs
    BY ONLY <1>2 DEF Reqs
  <2> QED BY <1>3, <2>1, <2>2
<1> QED BY <1>3, <1>5, <1>6

\* The evaluation's rows and answers.
LEMMA EvaluateTypes ==
    ASSUME TypeOK, NEW r \in Requests, Evaluate(r)
    PROVE  TypeOK'
<1> DEFINE k == KeyOf[r]
           row == Advanced(k, boot)
           books == BookedAfter({k}, boot)
           abandoned == IF row.state = "claimed" /\ books[row.eval] = "reserved"
                        THEN [books EXCEPT ![row.eval] = "void"] ELSE books
           at(to) == [Idle EXCEPT !.at = to, !.epoch = epoch]
<1>1. /\ k \in Keys /\ boot \in 1 .. MaxBoots /\ boot \in 0 .. MaxBoots
      /\ epoch \in 0 .. MaxEpochs /\ now + Validity \in Nat
  BY ConstantTypes DEF TypeOK
<1>2. row \in Claims /\ books \in [Requests -> Bookings]
  BY <1>1, SweepTypes
<1>3. Insert(r) \in Claims
  BY <1>1 DEF Insert, Claims, NoClaim
<1>4. abandoned \in [Requests -> Bookings]
  BY <1>2 DEF Bookings, Claims
<1>5. Reserve(r, abandoned) \in [Requests -> Bookings]
  BY <1>4 DEF Reserve, Bookings, Charged
<1>6. at("claimed") \in Reqs /\ at("done") \in Reqs /\ at("asking") \in Reqs
  BY <1>1, ConstantTypes DEF Reqs, Idle
<1>7. row.state = "permit_issued" => [at("asking") EXCEPT !.permit = row.eval] \in Reqs
  BY <1>2, <1>6 DEF Reqs, Claims
<1>8. UNCHANGED <<now, boot, overspent, conflicts, pepVars, sent, confirmed, misled>>
  BY DEF Evaluate
<1>9. /\ claim' \in [Keys -> Claims] /\ booked' \in [Requests -> Bookings]
      /\ req' \in [Requests -> Reqs]
  <2> HIDE DEF at, row, books, abandoned, k
  <2>1. \/ /\ claim' = [claim EXCEPT ![k] = Insert(r)] /\ booked' = Reserve(r, abandoned)
           /\ req' = [req EXCEPT ![r] = at("claimed")]
        \/ /\ claim' = [claim EXCEPT ![k] = row] /\ booked' = abandoned
           /\ req' = [req EXCEPT ![r] = at("done")]
        \/ /\ row.state = "permit_issued" /\ claim' = [claim EXCEPT ![k] = row] /\ booked' = books
           /\ req' = [req EXCEPT ![r] = [at("asking") EXCEPT !.permit = row.eval]]
        \/ /\ claim' = [claim EXCEPT ![k] = row] /\ booked' = books
           /\ req' = [req EXCEPT ![r] = at("done")]
    BY DEF Evaluate, AdvanceOnly, Retransmittable, k, row, books, abandoned, at
  <2>2. claim' \in [Keys -> Claims]
    BY <1>1, <1>2, <1>3, <2>1, SweepTypes
  <2>3. booked' \in [Requests -> Bookings]
    BY <1>2, <1>4, <1>5, <2>1
  <2>4. req' \in [Requests -> Reqs]
    <3>1. \A q \in Reqs : [req EXCEPT ![r] = q] \in [Requests -> Reqs]
      BY ReqTypes
    <3> DEFINE asking == [at("asking") EXCEPT !.permit = row.eval]
    <3>2. row.state = "permit_issued" => asking \in Reqs
      BY <1>7
    <3> HIDE DEF asking
    <3>3. \/ req' = [req EXCEPT ![r] = at("claimed")] \/ req' = [req EXCEPT ![r] = at("done")]
          \/ row.state = "permit_issued" /\ req' = [req EXCEPT ![r] = asking]
      BY <2>1, Zenon DEF asking
    <3> QED BY <1>6, <3>1, <3>2, <3>3, Zenon
  <2> QED BY <2>2, <2>3, <2>4
<1> QED BY <1>8, <1>9 DEF TypeOK, pepVars, Reqs, Bookings

\* An answer that reaches the asker, or is lost.
LEMMA AnsweredTypes ==
    ASSUME TypeOK, NEW r \in Requests, NEW e \in Requests \cup {NoRequest}, NEW t \in Nat,
           Answered(r, e, t)
    PROVE  req' \in [Requests -> Reqs]
<1> DEFINE q == [req[r] EXCEPT !.at = "permit", !.permit = e, !.last = t]
<1>0. req[r] \in Reqs
  BY DEF TypeOK, Reqs
<1>1. q \in Reqs
  BY ONLY <1>0, e \in Requests \cup {NoRequest}, t \in Nat DEF Reqs
<1>2. req' = [req EXCEPT ![r] = q] \/ req' = Ended(r)
  BY Zenon DEF Answered
<1> HIDE DEF q
<1>3. [req EXCEPT ![r] = q] \in [Requests -> Reqs] /\ Ended(r) \in [Requests -> Reqs]
  BY <1>1, ReqTypes
<1> QED BY <1>2, <1>3

LEMMA PermitTypes ==
    ASSUME TypeOK, NEW r \in Requests,
           Persist(r) \/ PersistFails(r) \/ AnswerConsumption(r) \/ Retransmit(r) \/ Refuse(r)
    PROVE  TypeOK'
<1> USE ConstantTypes
<1>1. KeyOf[r] \in Keys /\ boot \in 1 .. MaxBoots /\ boot \in Nat
  BY DEF TypeOK
<1>2. claim[KeyOf[r]] \in Claims /\ claim[KeyOf[r]].until \in Nat
  BY <1>1 DEF TypeOK, Claims
<1>3. CASE Persist(r)
  <2>1. [claim[KeyOf[r]] EXCEPT !.state = "permit_issued"] \in Claims
    BY <1>2 DEF Claims
  <2>2. claim' = [claim EXCEPT ![KeyOf[r]] = [claim[KeyOf[r]] EXCEPT !.state = "permit_issued"]]
    BY <1>3, Zenon DEF Persist
  <2>3. claim' \in [Keys -> Claims]
    BY <1>1, <2>1, <2>2, SweepTypes
  <2>4. req' \in [Requests -> Reqs]
    BY <1>2, <1>3, AnsweredTypes DEF Persist
  <2> QED BY <1>3, <2>3, <2>4 DEF Persist, TypeOK, pepVars, Reqs
<1>4. CASE PersistFails(r)
  <2>1. booked' \in [Requests -> Bookings]
    BY <1>4 DEF PersistFails, TypeOK, Bookings
  <2> QED BY <1>4, <2>1, ReqTypes DEF PersistFails, TypeOK, pepVars, Reqs, Bookings
<1>5. CASE AnswerConsumption(r) \/ Refuse(r)
  <2>1. req' \in [Requests -> Reqs]
    <3>1. req' = [req EXCEPT ![r].at = "answered"] \/ req' = Ended(r)
      BY <1>5 DEF AnswerConsumption, Refuse
    <3>2. [req EXCEPT ![r].at = "answered"] \in [Requests -> Reqs] /\ Ended(r) \in [Requests -> Reqs]
      BY <1>1, ReqTypes DEF TypeOK, Reqs
    <3> QED BY <3>1, <3>2
  <2> QED BY <1>5, <2>1 DEF AnswerConsumption, Refuse, TypeOK, pepVars, pdpVars, Reqs
<1>6. CASE Retransmit(r)
  <2> DEFINE row == Advanced(KeyOf[r], boot)
  <2>1. row \in Claims
    BY <1>1, AdvancedAges
  <2>2. claim' = [claim EXCEPT ![KeyOf[r]] = row] /\ booked' = BookedAfter({KeyOf[r]}, boot)
    BY <1>6 DEF Retransmit, AdvanceOnly
  <2>3. claim' \in [Keys -> Claims] /\ booked' \in [Requests -> Bookings]
    BY <1>1, <2>1, <2>2, SweepTypes
  <2>4. \/ Answered(r, row.eval, row.until) /\ row.eval = req[r].permit /\ row.state = "permit_issued"
        \/ req' = Ended(r)
    BY <1>6 DEF Retransmit, StillIssued, Retransmittable
  <2> HIDE DEF row
  <2>5. row.until \in Nat /\ row.eval \in Requests \cup {NoRequest}
    BY <2>1 DEF Claims
  <2>6. req' \in [Requests -> Reqs]
    <3>1. CASE req' = Ended(r)
      BY <3>1, ReqTypes
    <3>2. CASE Answered(r, row.eval, row.until)
      BY <2>5, <3>2, AnsweredTypes
    <3> QED BY <2>4, <3>1, <3>2
  <2> QED BY <1>6, <2>3, <2>6 DEF Retransmit, TypeOK, pepVars, Reqs, Bookings
<1> QED BY <1>3, <1>4, <1>5, <1>6

\* The records and settlements of an attempt with a permit.
LEMMA RecordTypes ==
    ASSUME TypeOK, NEW e \in Requests, NEW r \in Requests,
           NEW x \in {"completed", "suppressed", "unredeemed"}
    PROVE  /\ x # "unredeemed" => [permit |-> e, by |-> r, outcome |-> x] \in Records
           /\ Issue([permit |-> e, by |-> r, outcome |-> x]) =
                [permit |-> e, by |-> r, outcome |-> x, issued |-> now]
           /\ Issue([permit |-> e, by |-> r, outcome |-> x]) \in Settlements
<1>1. now \in Nat
  BY ConstantTypes DEF TypeOK
<1> QED BY <1>1 DEF Records, Settlements, Issue

LEMMA ExecutionTypes ==
    ASSUME TypeOK, NEW r \in Requests,
           Redeem(r) \/ Suppress(r) \/ Commit(r) \/ Report(r),
           req[r].permit \in Requests
    PROVE  TypeOK'
<1> USE ConstantTypes
<1>1. req[r] \in Reqs /\ now \in Nat /\ OpOf[r] \in Ops
  BY DEF TypeOK, Reqs
<1>2. CASE Redeem(r)
  <2> DEFINE t == IF req[r].last < now + LeaseMax THEN req[r].last ELSE now + LeaseMax
  <2>1. t \in Nat
    BY <1>1 DEF Reqs
  <2>2. req' = [req EXCEPT ![r].at = "redeemed", ![r].last = t]
    BY <1>2, Zenon DEF Redeem
  <2> HIDE DEF t
  <2>3. req' \in [Requests -> Reqs]
    BY <2>1, <2>2, ReqTypes
  <2> QED BY <1>1, <1>2, <2>3 DEF Redeem, TypeOK, pdpVars, Reqs
<1>3. CASE Commit(r)
  <2>1. req' \in [Requests -> Reqs]
    BY <1>3, ReqTypes DEF Commit
  <2>2. ledger' \in [Ops -> Requests \cup {NoRequest}]
    BY <1>3 DEF Commit, TypeOK
  <2> QED BY <1>3, <2>1, <2>2 DEF Commit, TypeOK, pdpVars, Reqs
<1>4. ASSUME NEW x \in {"completed", "suppressed"}, Dispose(r, x)
      PROVE  /\ req' \in [Requests -> Reqs]
             /\ records' \subseteq Records /\ sent' \subseteq Settlements
  <2>1. req' = Ended(r)
    BY <1>4 DEF Dispose
  <2>2. RecordOf(r, x) \in Records /\ Issue(RecordOf(r, x)) \in Settlements
    BY RecordTypes DEF RecordOf
  <2>3. records' \subseteq records \cup {RecordOf(r, x)} /\ sent' \subseteq sent \cup {Issue(RecordOf(r, x))}
    BY <1>4 DEF Dispose
  <2> QED BY <2>1, <2>2, <2>3, ReqTypes DEF TypeOK
<1>5. CASE Suppress(r)
  BY <1>4, <1>5 DEF Suppress, TypeOK, pdpVars, Reqs
<1>6. CASE Report(r)
  BY <1>4, <1>6 DEF Report, TypeOK, pdpVars, Reqs
<1> QED BY <1>2, <1>3, <1>5, <1>6

LEMMA SettleTypes ==
    ASSUME TypeOK, NEW m \in sent \cup confirmed, Settle(m)
    PROVE  TypeOK'
<1> USE ConstantTypes
<1> DEFINE k == KeyOf[m.permit]
           row == Advanced(k, boot)
           settled == [row EXCEPT !.state = IF m.outcome = "completed" THEN "completed" ELSE "failed",
                                  !.by = m.by, !.outcome = m.outcome, !.retain = now + Horizon]
           books == BookedAfter({k}, boot)
<1>1. /\ m \in Settlements /\ m.permit \in Requests /\ m.by \in Requests /\ k \in Keys
      /\ m.outcome \in {"completed", "suppressed", "unredeemed"}
      /\ boot \in 1 .. MaxBoots /\ boot \in Nat /\ now + Horizon \in Nat
  BY DEF TypeOK, Settlements
<1>2. row \in Claims /\ books \in [Requests -> Bookings]
  BY <1>1, AdvancedAges, SweepTypes
<1>3. settled \in Claims
  BY <1>1, <1>2 DEF Claims, Terminal
<1>4. /\ [books EXCEPT ![m.permit] = SettledBooking(@, m.outcome)] \in [Requests -> Bookings]
      /\ [books EXCEPT ![m.permit] = "committed"] \in [Requests -> Bookings]
  BY <1>1, <1>2 DEF SettledBooking, Bookings, Charged
<1>5. Overspend(m.permit) \subseteq Counters
  BY <1>1, ChargeAssumption DEF Overspend
<1> HIDE DEF row, settled, books
<1>6. /\ claim' = [claim EXCEPT ![k] = settled] \/ claim' = [claim EXCEPT ![k] = row]
      /\ \/ booked' = [books EXCEPT ![m.permit] = SettledBooking(@, m.outcome)]
         \/ booked' = [books EXCEPT ![m.permit] = "committed"]
         \/ booked' = books
      /\ overspent' \subseteq overspent \cup Overspend(m.permit)
      /\ \/ conflicts' = conflicts
         \/ /\ m.outcome # "unredeemed"
            /\ conflicts' = conflicts \cup {[permit |-> m.permit, by |-> m.by, outcome |-> m.outcome]}
  BY DEF Settle, ApplySettlement, CommitBooking, row, settled, books
<1>7. claim' \in [Keys -> Claims]
  BY <1>1, <1>2, <1>3, <1>6, SweepTypes
<1>8. booked' \in [Requests -> Bookings]
  BY <1>2, <1>4, <1>6
<1>9. /\ overspent' \subseteq Counters
      /\ conflicts' \subseteq [permit : Requests, by : Requests, outcome : {"completed", "suppressed"}]
  BY <1>1, <1>5, <1>6 DEF TypeOK
<1>10. sent' \subseteq sent /\ confirmed' \subseteq confirmed
  BY DEF Settle
<1> QED BY <1>7, <1>8, <1>9, <1>10 DEF Settle, TypeOK, pepVars, Bookings

LEMMA CallTypes ==
    ASSUME TypeOK, \/ \E m \in sent : AskRedeemer(m) \/ Lose(m)
                   \/ \E e \in Requests : OperatorExecuted(e) \/ OperatorNotExecuted(e)
    PROVE  TypeOK'
<1>1. ASSUME NEW m \in sent, AskRedeemer(m) PROVE TypeOK'
  <2>1. sent' \subseteq sent /\ confirmed' \subseteq confirmed \cup {m}
    BY <1>1 DEF AskRedeemer
  <2>2. sent' \subseteq Settlements /\ confirmed' \subseteq Settlements
    BY <2>1 DEF TypeOK
  <2> QED BY <1>1, <2>2 DEF AskRedeemer, TypeOK, pepVars, pdpVars
<1>2. ASSUME NEW m \in sent, Lose(m) PROVE TypeOK'
  BY <1>2 DEF Lose, TypeOK, pepVars, pdpVars
<1>3. ASSUME NEW e \in Requests, OperatorExecuted(e) PROVE TypeOK'
  <2>1. Overspend(e) \subseteq Counters
    BY ConstantTypes, ChargeAssumption DEF Overspend
  <2> QED BY <1>3, <2>1 DEF OperatorExecuted, TypeOK, pepVars, Charged
<1>4. ASSUME NEW e \in Requests, OperatorNotExecuted(e) PROVE TypeOK'
  BY <1>4 DEF OperatorNotExecuted, TypeOK, pepVars
<1> QED BY <1>1, <1>2, <1>3, <1>4

LEMMA FaultTypes ==
    ASSUME TypeOK, Sweep \/ RestartPDP \/ RestartPEP \/ Tick
    PROVE  TypeOK'
<1> USE ConstantTypes
<1>1. req \in [Requests -> Reqs] /\ \A r \in Requests : [req[r] EXCEPT !.at = "done"] \in Reqs
  BY DEF TypeOK, Reqs
<1>2. CASE Sweep
  <2>1. SweepNow(boot) /\ boot \in 1 .. MaxBoots
    BY <1>2 DEF Sweep, TypeOK
  <2>2. claim' \in [Keys -> Claims] /\ booked' \in [Requests -> Bookings]
    BY <2>1, SweepNowTypes
  <2> QED BY <1>2, <2>2 DEF Sweep, TypeOK, pepVars, Bookings
<1>3. CASE RestartPDP
  <2>1. SweepNow(boot + 1) /\ boot + 1 \in 1 .. MaxBoots /\ boot' = boot + 1
    BY <1>3 DEF RestartPDP, TypeOK
  <2>2. claim' \in [Keys -> Claims] /\ booked' \in [Requests -> Bookings]
    BY <2>1, SweepNowTypes
  <2>3. req' \in [Requests -> Reqs]
    BY <1>1, <1>3 DEF RestartPDP
  <2> QED BY <1>3, <2>1, <2>2, <2>3 DEF RestartPDP, TypeOK, pepVars, Bookings, Reqs
<1>4. CASE RestartPEP
  <2>1. req' \in [Requests -> Reqs]
    BY <1>1, <1>4 DEF RestartPEP
  <2>2. epoch' \in 1 .. MaxEpochs
    BY <1>4 DEF RestartPEP, TypeOK
  <2> QED BY <1>4, <2>1, <2>2 DEF RestartPEP, TypeOK, pdpVars, Reqs
<1>5. CASE Tick
  <2>1. now' \in 0 .. MaxTime
    BY <1>5 DEF Tick, TypeOK
  <2> QED BY <1>5, <2>1 DEF Tick, TypeOK, pdpVars, pepVars
<1> QED BY <1>2, <1>3, <1>4, <1>5

-----------------------------------------------------------------------------
(* The inductive invariant                                                  *)

\* A row is of one evaluation, of its key and its enforcement process, and says
\* who settled it once it is settled. No permit left while it is only claimed.
RowRight(k) ==
    LET row == claim[k] IN
    /\ row.state = "none" <=> row.eval = NoRequest
    /\ row.by = NoRequest <=> row.state \notin {"completed", "failed"}
    /\ row.by = NoRequest => row.outcome = "none"
    /\ row.state = "completed" => row.outcome = "completed"
    /\ row.state = "failed" => row.outcome \in {"suppressed", "unredeemed"}
    /\ row.eval # NoRequest =>
        /\ KeyOf[row.eval] = k
        /\ req[row.eval].at # "idle"
        /\ row.epoch = req[row.eval].epoch
    /\ row.state = "claimed" => \A r \in Requests : req[r].permit # row.eval

RowsRight == \A k \in Keys : RowRight(k)

\* A request holds the permit of an evaluation of its own key and operation, made
\* in its own epoch; a metered permit is held by its own request alone.
PermitsRight ==
    \A r \in Requests :
        /\ req[r].epoch <= epoch
        /\ req[r].at \in {"idle", "claimed"} => req[r].permit = NoRequest
        /\ req[r].at \in {"asking", "answered", "permit", "redeemed", "executed"} =>
            req[r].permit # NoRequest
        /\ req[r].permit # NoRequest =>
            /\ KeyOf[req[r].permit] = KeyOf[r] /\ OpOf[req[r].permit] = OpOf[r]
            /\ req[req[r].permit].at # "idle"
            /\ req[req[r].permit].epoch = req[r].epoch
            /\ Metered(KeyOf[r]) => req[r].permit = r
        /\ req[r].at \in {"permit", "redeemed", "executed"} => req[r].epoch = epoch
        /\ req[r].at \in {"redeemed", "executed"} => redeemed[OpOf[r]] = r
        /\ req[r].at = "redeemed" => LeaseMax > 0
        /\ req[r].at = "executed" => ledger[OpOf[r]] # NoRequest

\* One attempt redeemed for an operation, in this process of the store.
RedeemersRight ==
    \A o \in Ops : redeemed[o] # NoRequest =>
        LET r == redeemed[o] IN
        /\ OpOf[r] = o /\ req[r].epoch = epoch /\ req[r].permit # NoRequest
        /\ req[r].at \in {"redeemed", "executed", "done"}

\* The claim of a permit in use: open, for that permit, and not for less long.
IsOpen(r) ==
    /\ claim[KeyOf[r]].eval = req[r].permit
    /\ claim[KeyOf[r]].state \in Open
    /\ req[r].last <= claim[KeyOf[r]].until

UsableOpen == \A r \in Requests : Usable(r) => IsOpen(r)

\* An effect's permit was held, and in the epoch it was issued in the attempt
\* that took it is the one that redeemed.
LedgerRight ==
    \A o \in Ops : ledger[o] # NoRequest =>
        LET e == ledger[o] IN
        /\ OpOf[e] = o
        /\ \E r \in Requests : req[r].permit = e
        /\ \A r \in Requests : req[r].permit = e => req[r].at # "redeemed"
        /\ req[e].epoch = epoch => redeemed[o] # NoRequest /\ RedeemedPermit(o) = e

\* The attempt r was disposed of as x: so say a record, a settlement under way
\* or the row of its permit e.
Disposed(e, r, x) ==
    \/ [permit |-> e, by |-> r, outcome |-> x] \in records
    \/ \E m \in sent \cup confirmed : m.permit = e /\ m.by = r /\ m.outcome = x
    \/ claim[KeyOf[e]].eval = e /\ claim[KeyOf[e]].by = r /\ claim[KeyOf[e]].outcome = x

Dispositions == {"completed", "suppressed"}

\* A disposition is of the attempt that redeemed, is true, and is the only one.
DispositionsRight ==
    \A e \in Requests, r \in Requests, x \in Dispositions :
        Disposed(e, r, x) =>
            /\ req[r].permit = e /\ req[r].at \in {"executed", "done"}
            /\ req[e].epoch = epoch => redeemed[OpOf[e]] = r
            /\ x = "completed" => ledger[OpOf[e]] # NoRequest
            /\ x = "suppressed" => ~TookEffect(e) /\ req[r].at = "done"
            /\ \A q \in Requests, y \in Dispositions : Disposed(e, q, y) => q = r /\ y = x

\* What a metered permit charges while it can be used, and after it was.
ChargesRight ==
    /\ \A r \in Requests :
        /\ claim[KeyOf[r]].eval = r /\ InFlight(claim[KeyOf[r]], boot)
           /\ claim[KeyOf[r]].state = "claimed" /\ Metered(KeyOf[r]) => booked[r] = "reserved"
        /\ Usable(r) /\ Metered(KeyOf[r]) => booked[r] \in Charged
    /\ EffectIsCharged

IInv ==
    /\ TypeOK
    /\ RowsRight /\ PermitsRight /\ RedeemersRight
    /\ UsableOpen /\ LedgerRight /\ DispositionsRight /\ ChargesRight

-----------------------------------------------------------------------------
(* What most steps have in common                                           *)

\* The rows a reading of the file leaves.
LEMMA SweepAges ==
    ASSUME TypeOK, NEW b \in Nat,
           \/ \E k \in Keys : claim' = [claim EXCEPT ![k] = Advanced(k, b)]
           \/ claim' = [k \in Keys |-> Advanced(k, b)]
           \/ claim' = claim
    PROVE  \A k \in Keys : Aged(claim[k], claim'[k])
<1>1. \A k \in Keys : Aged(claim[k], Advanced(k, b)) /\ Aged(claim[k], claim[k])
  BY AdvancedAges DEF Aged
<1>2. claim \in [Keys -> Claims]
  BY DEF TypeOK
<1> QED BY <1>1, <1>2

\* An aged row is the row, or an open row a little older, or none.
LEMMA AgedRow ==
    ASSUME NEW row \in Claims, NEW next, Aged(row, next)
    PROVE  /\ next.state \in Open => row.state \in Open
           /\ next.state \in {"claimed", "completed", "failed"} => next = row
           /\ \/ next = NoClaim
              \/ /\ next.eval = row.eval /\ next.by = row.by /\ next.outcome = row.outcome
                 /\ next.epoch = row.epoch /\ next.until = row.until
           /\ row.state \in Open =>
                /\ next.eval = row.eval /\ next.by = row.by /\ next.outcome = row.outcome
                /\ next.epoch = row.epoch /\ next.until = row.until
                /\ next.state \in Open \/ WindowClosed(row)
<1>1. CASE next = row
  BY <1>1
<1>2. CASE row.state \in {"completed", "failed"} /\ next = NoClaim
  BY <1>2 DEF NoClaim, Open
<1>3. CASE row.state \in Open /\ next = [row EXCEPT !.state = "unresolved"]
  BY <1>3 DEF Claims, Open
<1>4. CASE row.state \in Open /\ WindowClosed(row) /\ next = [row EXCEPT !.state = "indeterminate"]
  BY <1>4 DEF Claims, Open
<1> QED BY <1>1, <1>2, <1>3, <1>4 DEF Aged

\* Requests go on waiting, end, or are answered.
Quiet ==
    \A r \in Requests :
        /\ req'[r].permit = req[r].permit /\ req'[r].epoch = req[r].epoch
        /\ req'[r].last = req[r].last
        /\ \/ req'[r].at = req[r].at
           \/ req[r].at # "idle" /\ req'[r].at = "done"
           \/ req[r].at = "asking" /\ req'[r].at = "answered"

\* A row that ages stays right if no evaluation is forgotten and no permit is given
\* for a row only claimed.
LEMMA AgedRowRight ==
    ASSUME IInv, NEW k \in Keys, Aged(claim[k], claim'[k]),
           \A r \in Requests : req[r].at # "idle" =>
                req'[r].at # "idle" /\ req'[r].epoch = req[r].epoch,
           claim[k].state = "claimed" =>
                \A r \in Requests : req'[r].permit # req[r].permit => req'[r].permit # claim[k].eval
    PROVE  RowRight(k)'
<1> DEFINE row == claim[k]
           next == claim'[k]
<1>1. /\ row.state = "none" <=> row.eval = NoRequest
      /\ row.by = NoRequest <=> row.state \notin {"completed", "failed"}
      /\ row.by = NoRequest => row.outcome = "none"
      /\ row.state = "completed" => row.outcome = "completed"
      /\ row.state = "failed" => row.outcome \in {"suppressed", "unredeemed"}
      /\ row.eval # NoRequest =>
          /\ KeyOf[row.eval] = k
          /\ req[row.eval].at # "idle"
          /\ row.epoch = req[row.eval].epoch
      /\ row.state = "claimed" => \A r \in Requests : req[r].permit # row.eval
  BY Zenon DEF IInv, RowsRight, RowRight
<1>2. row \in Claims /\ Aged(row, next)
  BY DEF IInv, TypeOK
<1>3. row.eval \in Requests \cup {NoRequest}
  BY <1>2 DEF Claims
<1>4. CASE next = row
  BY <1>1, <1>3, <1>4 DEF RowRight
<1>5. CASE next = NoClaim
  BY <1>5, ConstantTypes DEF NoClaim, RowRight
<1>6. CASE /\ row.state \in Open /\ next.state \in {"unresolved", "indeterminate"}
           /\ next.eval = row.eval /\ next.by = row.by /\ next.outcome = row.outcome
           /\ next.epoch = row.epoch
  BY <1>1, <1>3, <1>6 DEF Open, RowRight
<1>7. \/ next = row \/ next = NoClaim
      \/ /\ row.state \in Open /\ next.state \in {"unresolved", "indeterminate"}
         /\ next.eval = row.eval /\ next.by = row.by /\ next.outcome = row.outcome
         /\ next.epoch = row.epoch
  BY <1>2 DEF Aged, Claims
<1> QED BY <1>4, <1>5, <1>6, <1>7

LEMMA QuietRows ==
    ASSUME IInv, Quiet, \A k \in Keys : Aged(claim[k], claim'[k])
    PROVE  RowsRight'
<1>1. \A r \in Requests : /\ req'[r].permit = req[r].permit /\ req'[r].epoch = req[r].epoch
                          /\ req[r].at # "idle" => req'[r].at # "idle"
  BY DEF Quiet
<1> QED BY <1>1, AgedRowRight DEF RowsRight

LEMMA QuietPermits ==
    ASSUME IInv, TypeOK', Quiet, UNCHANGED <<epoch, redeemed, ledger>>
    PROVE  PermitsRight' /\ RedeemersRight' /\ LedgerRight'
<1> USE DEF IInv
<1>1. PermitsRight'
  <2>1. \A r \in Requests : req[r].permit \in Requests \cup {NoRequest}
    BY DEF TypeOK
  <2> SUFFICES ASSUME NEW r \in Requests
               PROVE  /\ req'[r].epoch <= epoch
                      /\ req'[r].at \in {"idle", "claimed"} => req'[r].permit = NoRequest
                      /\ req'[r].at \in {"asking", "answered", "permit", "redeemed", "executed"} =>
                          req'[r].permit # NoRequest
                      /\ req'[r].permit # NoRequest =>
                          /\ KeyOf[req'[r].permit] = KeyOf[r] /\ OpOf[req'[r].permit] = OpOf[r]
                          /\ req'[req'[r].permit].at # "idle"
                          /\ req'[req'[r].permit].epoch = req'[r].epoch
                          /\ Metered(KeyOf[r]) => req'[r].permit = r
                      /\ req'[r].at \in {"permit", "redeemed", "executed"} => req'[r].epoch = epoch
                      /\ req'[r].at \in {"redeemed", "executed"} => redeemed[OpOf[r]] = r
                      /\ req'[r].at = "redeemed" => LeaseMax > 0
                      /\ req'[r].at = "executed" => ledger[OpOf[r]] # NoRequest
    BY DEF PermitsRight
  <2> QED BY <2>1 DEF PermitsRight, Quiet
<1>2. RedeemersRight'
  <2>1. \A o \in Ops : redeemed[o] \in Requests \cup {NoRequest}
    BY DEF TypeOK
  <2> QED BY <2>1 DEF RedeemersRight, Quiet
<1>3. LedgerRight'
  <2>1. \A o \in Ops : /\ ledger[o] \in Requests \cup {NoRequest}
                       /\ redeemed[o] \in Requests \cup {NoRequest}
    BY DEF TypeOK
  <2> QED BY <2>1 DEF LedgerRight, Quiet, RedeemedPermit
<1> QED BY <1>1, <1>2, <1>3

\* The permit a request may use stays that of an open row until it is used.
LEMMA OpenAges ==
    ASSUME IInv, NEW r \in Requests, Usable(r), NEW next, Aged(claim[KeyOf[r]], next)
    PROVE  /\ next.eval = req[r].permit
           /\ next.state \in Open
           /\ req[r].last <= next.until
<1> DEFINE row == claim[KeyOf[r]]
<1>1. row \in Claims /\ now \in Nat /\ req[r].last \in Nat /\ LeaseMax \in Nat /\ Window \in Nat
  BY ConstantTypes DEF IInv, TypeOK
<1>2. row.eval = req[r].permit /\ row.state \in Open /\ req[r].last <= row.until
  BY DEF IInv, UsableOpen, IsOpen
<1>3. row.until \in Nat
  BY <1>1 DEF Claims
<1>4. ~WindowClosed(row)
  <2>1. CASE req[r].at = "permit" /\ now < req[r].last
    BY <1>1, <1>2, <1>3, <2>1 DEF WindowClosed
  <2>2. CASE req[r].at = "redeemed" /\ now <= req[r].last
    <3>1. LeaseMax > 0
      BY <2>2 DEF IInv, PermitsRight
    <3> QED BY <1>1, <1>2, <1>3, <2>2, <3>1 DEF WindowClosed
  <2> QED BY <2>1, <2>2 DEF Usable
<1> QED BY <1>1, <1>2, <1>4, AgedRow

LEMMA QuietUsable ==
    ASSUME IInv, TypeOK', Quiet, redeemed' = redeemed, now' >= now,
           \A k \in Keys : Aged(claim[k], claim'[k])
    PROVE  /\ \A r \in Requests : Usable(r)' => Usable(r)
           /\ UsableOpen'
<1>1. ASSUME NEW r \in Requests, Usable(r)'
      PROVE  Usable(r) /\ req'[r].permit = req[r].permit /\ req'[r].last = req[r].last
  <2>1. /\ now' <= req'[r].last /\ req'[r].last = req[r].last /\ req'[r].permit = req[r].permit
        /\ req'[r].at \in {"permit", "redeemed"} /\ req'[r].at = req[r].at
    BY <1>1 DEF Usable, Quiet
  <2>2. now \in Nat /\ now' \in Nat /\ req[r].last \in Nat
    BY ConstantTypes DEF IInv, TypeOK
  <2> QED BY <1>1, <2>1, <2>2 DEF Usable
<1>2. ASSUME NEW r \in Requests, Usable(r)'
      PROVE  IsOpen(r)'
  <2>1. Usable(r) /\ req'[r].permit = req[r].permit /\ req'[r].last = req[r].last
    BY <1>1, <1>2
  <2>2. KeyOf[r] \in Keys
    BY ConstantTypes
  <2> QED BY <2>1, <2>2, OpenAges DEF IsOpen
<1> QED BY <1>1, <1>2 DEF UsableOpen

\* A new disposition is of the attempt that redeemed: the effect was taken, or
\* the attempt ends before it.
Truthful(e, r, x) ==
    /\ req[r].permit = e /\ req[e].epoch = epoch /\ redeemed[OpOf[e]] = r
    /\ \/ /\ x = "completed" /\ ledger[OpOf[e]] # NoRequest
          /\ \/ req[r].at = "executed"
             \/ TookEffect(e) /\ req[r].at \in {"executed", "done"}
       \/ x = "suppressed" /\ req[r].at = "redeemed" /\ req'[r].at = "done"

LEMMA QuietDispositions ==
    ASSUME IInv, TypeOK', Quiet, UNCHANGED <<epoch, redeemed, ledger>>,
           \A e \in Requests, r \in Requests, x \in Dispositions :
                Disposed(e, r, x)' => Disposed(e, r, x) \/ Truthful(e, r, x)
    PROVE  DispositionsRight'
<1> USE DEF IInv
<1>1. ASSUME NEW e \in Requests, NEW r \in Requests, NEW x \in Dispositions, Disposed(e, r, x)'
      PROVE  /\ req[r].permit = e
             /\ req[r].at \in {"redeemed", "executed", "done"}
             /\ req[r].at = "redeemed" => x = "suppressed" /\ req'[r].at = "done"
             /\ req[e].epoch = epoch => redeemed[OpOf[e]] = r
             /\ x = "completed" => ledger[OpOf[e]] # NoRequest
             /\ x = "suppressed" => ~TookEffect(e) /\ req[r].at \in {"redeemed", "done"}
             /\ ~Disposed(e, r, x) => Truthful(e, r, x)
  <2>1. CASE Disposed(e, r, x)
    BY <2>1 DEF DispositionsRight
  <2>2. CASE ~Disposed(e, r, x) /\ Truthful(e, r, x)
    <3>1. req[r].at = "redeemed" => ~TookEffect(e)
      BY <2>2, ConstantTypes DEF Truthful, LedgerRight, TookEffect
    <3> QED BY <2>2, <3>1 DEF Truthful
  <2> QED BY <1>1, <2>1, <2>2
<1>2. ASSUME NEW e \in Requests, NEW r \in Requests, NEW x \in Dispositions, Disposed(e, r, x)',
             NEW q \in Requests, NEW y \in Dispositions, Disposed(e, q, y)'
      PROVE  q = r /\ y = x
  <2>1. CASE Disposed(e, r, x) /\ Disposed(e, q, y)
    BY <2>1 DEF DispositionsRight
  <2>2. CASE ~Disposed(e, r, x)
    <3>1. Truthful(e, r, x) /\ q = r
      BY <1>1, <1>2, <2>2 DEF Truthful
    <3>2. CASE Disposed(e, q, y)
      <4>1. req[r].at \in {"executed", "done"} /\ (y = "suppressed" => ~TookEffect(e) /\ req[r].at = "done")
        BY <3>1, <3>2 DEF DispositionsRight
      <4> QED BY <3>1, <4>1 DEF Truthful, Dispositions
    <3>3. CASE Truthful(e, q, y)
      BY <3>1, <3>3 DEF Truthful
    <3> QED BY <1>1, <1>2, <3>1, <3>2, <3>3
  <2>3. CASE ~Disposed(e, q, y)
    <3>1. Truthful(e, q, y) /\ q = r
      BY <1>1, <1>2, <2>3 DEF Truthful
    <3>2. CASE Disposed(e, r, x)
      <4>1. req[r].at \in {"executed", "done"} /\ (x = "suppressed" => ~TookEffect(e) /\ req[r].at = "done")
        BY <3>2 DEF DispositionsRight
      <4> QED BY <3>1, <4>1 DEF Truthful, Dispositions
    <3>3. CASE Truthful(e, r, x)
      BY <3>1, <3>3 DEF Truthful
    <3> QED BY <1>1, <1>2, <3>1, <3>2, <3>3
  <2> QED BY <2>1, <2>2, <2>3
<1>3. \A e \in Requests : TookEffect(e)' <=> TookEffect(e)
  BY DEF TookEffect
<1>4. ASSUME NEW e \in Requests, NEW r \in Requests, NEW x \in Dispositions, Disposed(e, r, x)'
      PROVE  /\ req'[r].permit = e /\ req'[r].at \in {"executed", "done"}
             /\ req'[e].epoch = epoch' => redeemed'[OpOf[e]] = r
             /\ x = "completed" => ledger'[OpOf[e]] # NoRequest
             /\ x = "suppressed" => ~TookEffect(e)' /\ req'[r].at = "done"
  <2>1. /\ req'[r].permit = req[r].permit /\ req'[e].epoch = req[e].epoch
        /\ req'[r].at = req[r].at \/ req'[r].at = "done"
           \/ (req[r].at = "asking" /\ req'[r].at = "answered")
    BY DEF Quiet
  <2> QED BY <1>1, <1>3, <1>4, <2>1
<1> QED BY <1>2, <1>4 DEF DispositionsRight

\* What becomes of the bookings when rows are read.
QuietBooks ==
    \A r \in Requests : req[r].at # "idle" =>
        LET row == claim[KeyOf[r]] IN
        \/ booked'[r] = booked[r]
        \/ booked'[r] = "held" /\ ~(row.eval = r /\ row.state = "claimed")
        \/ row.eval = r /\ row.state = "claimed" /\ ~(row.boot = boot' /\ req'[r].at = "claimed")

LEMMA QuietCharges ==
    ASSUME IInv, QuietBooks, ledger' = ledger, misled \subseteq misled'
    PROVE  /\ \A r \in Requests : Usable(r) /\ Metered(KeyOf[r]) => booked'[r] \in Charged
           /\ EffectIsCharged'
<1> USE DEF IInv
<1>1. ASSUME NEW r \in Requests, Usable(r), Metered(KeyOf[r])
      PROVE  booked'[r] \in Charged
  <2>1. booked[r] \in Charged
    BY <1>1 DEF ChargesRight
  <2>2. claim[KeyOf[r]].state # "claimed" /\ req[r].at # "idle"
    BY <1>1 DEF UsableOpen, IsOpen, Open, Usable
  <2> QED BY <2>1, <2>2 DEF QuietBooks, Charged
<1>2. EffectIsCharged'
  <2> SUFFICES ASSUME NEW o \in Ops, ledger[o] # NoRequest, Metered(KeyOf[ledger[o]])
               PROVE  booked'[ledger[o]] \in Charged \/ ledger[o] \in misled'
    BY DEF EffectIsCharged
  <2> DEFINE e == ledger[o]
  <2>1. e \in Requests /\ KeyOf[e] \in Keys
    BY ConstantTypes DEF TypeOK
  <2>2. booked[e] \in Charged \/ e \in misled
    BY DEF ChargesRight, EffectIsCharged
  <2>3. PICK r \in Requests : req[r].permit = e
    BY DEF LedgerRight
  <2>4. req[e].at # "idle"
    BY <2>1, <2>3, ConstantTypes DEF PermitsRight
  <2>5. ~(claim[KeyOf[e]].eval = e /\ claim[KeyOf[e]].state = "claimed")
    BY <2>1, <2>3 DEF RowsRight, RowRight
  <2> QED BY <2>1, <2>2, <2>4, <2>5 DEF QuietBooks, Charged
<1> QED BY <1>1, <1>2

\* The reservation of an evaluation in flight, whose row stays, stays.
LEMMA FlightCharges ==
    ASSUME IInv, QuietBooks, NEW r \in Requests, Metered(KeyOf[r]),
           claim'[KeyOf[r]].eval = r, InFlight(claim[KeyOf[r]], boot)',
           claim'[KeyOf[r]].state = "claimed", Aged(claim[KeyOf[r]], claim'[KeyOf[r]]),
           req[r].at = "claimed", boot' = boot
    PROVE  booked'[r] = "reserved"
<1> USE DEF IInv
<1>1. KeyOf[r] \in Keys /\ claim[KeyOf[r]] \in Claims
  BY ConstantTypes DEF TypeOK
<1>2. claim'[KeyOf[r]] = claim[KeyOf[r]]
  BY <1>1, AgedRow
<1>3. claim'[KeyOf[r]].boot = boot' /\ req'[r].at = "claimed"
  BY DEF InFlight
<1>4. booked[r] = "reserved"
  BY <1>2, <1>3 DEF ChargesRight, InFlight
<1> QED BY <1>2, <1>3, <1>4 DEF QuietBooks

\* What a reading of the file, by the process b, does to the bookings.
LEMMA SweptBooks ==
    ASSUME TypeOK, NEW b \in Nat, boot' = b,
           \/ \E ks \in SUBSET Keys : booked' = BookedAfter(ks, b)
           \/ SweepNow(b) /\ \A r \in Requests : req'[r].at = "claimed" => req[r].at = "claimed"
    PROVE  QuietBooks
<1>1. \A r \in Requests, ks \in SUBSET Keys :
        LET row == claim[KeyOf[r]] IN
        \/ BookedAfter(ks, b)[r] = booked[r]
        \/ BookedAfter(ks, b)[r] = "held" /\ ~(row.eval = r /\ row.state = "claimed")
        \/ row.eval = r /\ row.state = "claimed" /\ row.boot # b
  BY DEF BookedAfter, Swept, Unknown
<1>2. CASE \E ks \in SUBSET Keys : booked' = BookedAfter(ks, b)
  BY <1>1, <1>2 DEF QuietBooks
<1>3. CASE SweepNow(b) /\ \A r \in Requests : req'[r].at = "claimed" => req[r].at = "claimed"
  BY <1>1, <1>3 DEF QuietBooks, SweepNow, InFlight
<1> QED BY <1>2, <1>3

\* No disposition is new but those a new record or settlement states.
LEMMA AgedDispositions ==
    ASSUME IInv, NEW e \in Requests, NEW r \in Requests, NEW x \in Dispositions,
           Aged(claim[KeyOf[e]], claim'[KeyOf[e]]) \/ claim'[KeyOf[e]].by = NoRequest,
           Disposed(e, r, x)',
           [permit |-> e, by |-> r, outcome |-> x] \in records' =>
                Disposed(e, r, x) \/ Truthful(e, r, x),
           \A m \in sent' \cup confirmed' :
                m.permit = e /\ m.by = r /\ m.outcome = x =>
                    Disposed(e, r, x) \/ Truthful(e, r, x)
    PROVE  Disposed(e, r, x) \/ Truthful(e, r, x)
<1>1. claim[KeyOf[e]] \in Claims /\ KeyOf[e] \in Keys /\ r # NoRequest /\ e # NoRequest
  BY ConstantTypes DEF IInv, TypeOK
<1>2. ASSUME claim'[KeyOf[e]].eval = e, claim'[KeyOf[e]].by = r, claim'[KeyOf[e]].outcome = x
      PROVE  Disposed(e, r, x)
  <2>1. Aged(claim[KeyOf[e]], claim'[KeyOf[e]]) /\ claim'[KeyOf[e]] # NoClaim
    BY <1>1, <1>2 DEF NoClaim
  <2>2. /\ claim[KeyOf[e]].eval = e /\ claim[KeyOf[e]].by = r /\ claim[KeyOf[e]].outcome = x
    BY <1>1, <1>2, <2>1, AgedRow
  <2> QED BY <2>2 DEF Disposed
<1> QED BY <1>2 DEF Disposed

\* Nothing was done under the permit e: no attempt redeemed it, none is disposed
\* of, and it took no effect.
Untouched(e) ==
    /\ ~TookEffect(e)
    /\ \A r \in Requests : req[r].permit = e => req[r].at \notin {"redeemed", "executed"}
    /\ \A r \in Requests, x \in Dispositions : ~Disposed(e, r, x)

\* Nor will anything be.
Spent(e) == Untouched(e) /\ \A r \in Requests : Usable(r) => req[r].permit # e

\* A proof that the permit of k was never redeemed settles it, after its lease.
Proved(k) ==
    /\ LeaseOver(claim[k])
    /\ \E m \in sent \cup confirmed :
        /\ m.permit = claim[k].eval /\ m.outcome = "unredeemed"
        /\ m \in confirmed \/ Fresh(m)

\* What every step leaves as it was for the proofs: rows are not remade, a
\* verdict of no redemption comes of a proof, and what is spent stays so.
Kept ==
    /\ now' >= now
    /\ \A r \in Requests : req[r].at # "idle" => req'[r].at # "idle"
    /\ \A k \in Keys, e \in Requests : req[e].at # "idle" /\ claim'[k].eval = e =>
            claim[k].eval = e /\ claim'[k].until = claim[k].until
    /\ \A k \in Keys : claim'[k].outcome = "unredeemed" =>
            claim'[k].eval = claim[k].eval /\ (claim[k].outcome = "unredeemed" \/ Proved(k))
    /\ \A e \in Requests : Spent(e) => Untouched(e)'

LEMMA StepKept ==
    ASSUME IInv, now' >= now,
           \A r \in Requests : req[r].at # "idle" => req'[r].at # "idle",
           \A r \in Requests : req'[r].at \in {"redeemed", "executed"} =>
                /\ req'[r].permit = req[r].permit
                /\ req[r].at \in {"redeemed", "executed"} \/ Usable(r),
           \A e \in Requests : TookEffect(e)' =>
                TookEffect(e) \/ \E r \in Requests : req[r].permit = e /\ req[r].at = "redeemed",
           \A e \in Requests, r \in Requests, x \in Dispositions :
                Disposed(e, r, x)' => Disposed(e, r, x) \/ Truthful(e, r, x),
           \A k \in Keys :
                \/ Aged(claim[k], claim'[k])
                \/ /\ claim'[k].outcome # "unredeemed"
                   /\ \/ claim'[k].eval = claim[k].eval /\ claim'[k].until = claim[k].until
                      \/ req[claim'[k].eval].at = "idle"
                \/ /\ claim'[k].eval = claim[k].eval /\ claim'[k].until = claim[k].until
                   /\ Proved(k)
    PROVE  Kept
<1>1. \A k \in Keys, e \in Requests : req[e].at # "idle" /\ claim'[k].eval = e =>
            claim[k].eval = e /\ claim'[k].until = claim[k].until
  <2> SUFFICES ASSUME NEW k \in Keys, NEW e \in Requests, req[e].at # "idle", claim'[k].eval = e
               PROVE  claim[k].eval = e /\ claim'[k].until = claim[k].until
    OBVIOUS
  <2>1. claim[k] \in Claims /\ e # NoRequest
    BY ConstantTypes DEF IInv, TypeOK
  <2>2. CASE Aged(claim[k], claim'[k])
    <3>1. claim'[k] # NoClaim
      BY <2>1 DEF NoClaim
    <3> QED BY <2>1, <2>2, <3>1, AgedRow
  <2> QED BY <2>2
<1>2. \A k \in Keys : claim'[k].outcome = "unredeemed" =>
            claim'[k].eval = claim[k].eval /\ (claim[k].outcome = "unredeemed" \/ Proved(k))
  <2> SUFFICES ASSUME NEW k \in Keys, claim'[k].outcome = "unredeemed"
               PROVE  claim'[k].eval = claim[k].eval /\ (claim[k].outcome = "unredeemed" \/ Proved(k))
    OBVIOUS
  <2>1. claim[k] \in Claims
    BY DEF IInv, TypeOK
  <2>2. CASE Aged(claim[k], claim'[k])
    <3>1. claim'[k] # NoClaim
      BY DEF NoClaim
    <3> QED BY <2>1, <2>2, <3>1, AgedRow
  <2> QED BY <2>2
<1>3. ASSUME NEW e \in Requests, Spent(e) PROVE Untouched(e)'
  <2>1. ~TookEffect(e) /\ ~TookEffect(e)'
    BY <1>3 DEF Spent, Untouched
  <2>2. \A r \in Requests : req'[r].permit = e => req'[r].at \notin {"redeemed", "executed"}
    BY <1>3 DEF Spent, Untouched
  <2>3. \A r \in Requests, x \in Dispositions : ~Disposed(e, r, x)'
    BY <1>3, <2>1 DEF Spent, Untouched, Truthful
  <2> QED BY <2>1, <2>2, <2>3 DEF Untouched
<1> QED BY <1>1, <1>2, <1>3 DEF Kept

\* A step of these only keeps the invariant, but for the charges.
LEMMA QuietCore ==
    ASSUME IInv, TypeOK', Quiet, UNCHANGED <<epoch, redeemed, ledger>>, now' >= now,
           \A k \in Keys : Aged(claim[k], claim'[k]),
           \A e \in Requests, r \in Requests, x \in Dispositions :
                Disposed(e, r, x)' => Disposed(e, r, x) \/ Truthful(e, r, x)
    PROVE  /\ RowsRight' /\ PermitsRight' /\ RedeemersRight'
           /\ UsableOpen' /\ LedgerRight' /\ DispositionsRight'
           /\ Kept
<1>1. /\ RowsRight' /\ PermitsRight' /\ RedeemersRight'
      /\ UsableOpen' /\ LedgerRight' /\ DispositionsRight'
  BY QuietRows, QuietPermits, QuietUsable, QuietDispositions
<1>2. \A e \in Requests : TookEffect(e)' => TookEffect(e)
  BY DEF TookEffect
<1>3. \A r \in Requests :
        /\ req[r].at # "idle" => req'[r].at # "idle"
        /\ req'[r].at \in {"redeemed", "executed"} =>
                req'[r].permit = req[r].permit /\ req[r].at \in {"redeemed", "executed"}
  BY DEF Quiet
<1>4. Kept
  BY <1>2, <1>3, StepKept
<1> QED BY <1>1, <1>4

\* With the bookings as a reading of the file leaves them, it keeps all of it.
LEMMA QuietKeeps ==
    ASSUME IInv, TypeOK', Quiet, QuietBooks, UNCHANGED <<epoch, redeemed, ledger>>,
           now' >= now, misled \subseteq misled',
           boot' = boot \/ \A r \in Requests : req'[r].at # "claimed",
           \A k \in Keys : Aged(claim[k], claim'[k]),
           \A e \in Requests, r \in Requests, x \in Dispositions :
                Disposed(e, r, x)' => Disposed(e, r, x) \/ Truthful(e, r, x)
    PROVE  IInv' /\ Kept
<1>1. /\ RowsRight' /\ PermitsRight' /\ RedeemersRight'
      /\ UsableOpen' /\ LedgerRight' /\ DispositionsRight'
      /\ Kept
  BY QuietCore
<1>2. ASSUME NEW r \in Requests, claim'[KeyOf[r]].eval = r,
             InFlight(claim[KeyOf[r]], boot)', claim'[KeyOf[r]].state = "claimed", Metered(KeyOf[r])
      PROVE  booked'[r] = "reserved"
  <2>1. req'[r].at = "claimed" /\ KeyOf[r] \in Keys
    BY <1>2, ConstantTypes DEF InFlight
  <2>2. req[r].at = "claimed" /\ boot' = boot
    BY <2>1 DEF Quiet
  <2> QED BY <1>2, <2>1, <2>2, FlightCharges
<1>3. \A r \in Requests : Usable(r)' => Usable(r)
  BY QuietUsable
<1>4. /\ \A r \in Requests : Usable(r) /\ Metered(KeyOf[r]) => booked'[r] \in Charged
      /\ EffectIsCharged'
  BY QuietCharges
<1>5. ChargesRight'
  BY <1>2, <1>3, <1>4 DEF ChargesRight
<1> QED BY <1>1, <1>5 DEF IInv

-----------------------------------------------------------------------------
(* The steps that keep it by that                                           *)

\* The file, the records and the settlements as they were, or fewer.
LEMMA NothingDisposed ==
    ASSUME IInv, \A k \in Keys : Aged(claim[k], claim'[k]) \/ claim'[k].by = NoRequest, records' = records,
           sent' \cup confirmed' \subseteq sent \cup confirmed
    PROVE  \A e \in Requests, r \in Requests, x \in Dispositions :
                Disposed(e, r, x)' => Disposed(e, r, x)
<1> SUFFICES ASSUME NEW e \in Requests, NEW r \in Requests, NEW x \in Dispositions,
                    Disposed(e, r, x)'
             PROVE  Disposed(e, r, x)
  OBVIOUS
<1>1. claim[KeyOf[e]] \in Claims /\ KeyOf[e] \in Keys /\ r # NoRequest /\ e # NoRequest
  BY ConstantTypes DEF IInv, TypeOK
<1>2. ASSUME claim'[KeyOf[e]].eval = e, claim'[KeyOf[e]].by = r, claim'[KeyOf[e]].outcome = x
      PROVE  Disposed(e, r, x)
  <2>1. Aged(claim[KeyOf[e]], claim'[KeyOf[e]]) /\ claim'[KeyOf[e]] # NoClaim
    BY <1>1, <1>2 DEF NoClaim
  <2>2. /\ claim[KeyOf[e]].eval = e /\ claim[KeyOf[e]].by = r /\ claim[KeyOf[e]].outcome = x
    BY <1>1, <1>2, <2>1, AgedRow
  <2> QED BY <2>2 DEF Disposed
<1> QED BY <1>2 DEF Disposed

\* Nothing in the file moved.
LEMMA FileKept ==
    ASSUME UNCHANGED <<claim, booked>>
    PROVE  (\A k \in Keys : Aged(claim[k], claim'[k])) /\ QuietBooks
  BY DEF Aged, QuietBooks

LEMMA EndedIsQuiet ==
    ASSUME TypeOK, NEW r \in Requests, req[r].at # "idle", req' = Ended(r)
    PROVE  Quiet
  BY DEF Quiet, Ended, TypeOK

LEMMA RefuseKeeps ==
    ASSUME IInv, NEW r \in Requests, Refuse(r) \/ AnswerConsumption(r)
    PROVE  IInv' /\ Kept
<1>1. TypeOK /\ TypeOK'
  BY PermitTypes DEF IInv
<1>2. /\ UNCHANGED <<now, pdpVars, pepVars, sent, confirmed, misled>>
      /\ req[r].at \in {"permit", "asking"}
      /\ req' = Ended(r) \/ (req[r].at = "asking" /\ req' = [req EXCEPT ![r].at = "answered"])
  BY DEF Refuse, AnswerConsumption
<1>3. Quiet
  <2>1. CASE req' = Ended(r)
    BY <1>1, <1>2, <2>1, EndedIsQuiet
  <2>2. CASE req[r].at = "asking" /\ req' = [req EXCEPT ![r].at = "answered"]
    BY <1>1, <2>2 DEF Quiet, TypeOK
  <2> QED BY <1>2, <2>1, <2>2
<1>4. (\A k \in Keys : Aged(claim[k], claim'[k])) /\ QuietBooks
  BY <1>2, FileKept DEF pdpVars
<1>5. /\ UNCHANGED <<now, boot, epoch, redeemed, ledger, records, sent, confirmed, misled>>
      /\ now' >= now
  BY <1>1, <1>2, ConstantTypes DEF pdpVars, pepVars, TypeOK
<1> QED BY <1>1, <1>3, <1>4, <1>5, NothingDisposed, QuietKeeps

LEMMA CallKeeps ==
    ASSUME IInv, NEW m \in sent, AskRedeemer(m) \/ Lose(m)
    PROVE  IInv' /\ Kept
<1>1. TypeOK /\ TypeOK'
  BY CallTypes DEF IInv
<1>2. /\ UNCHANGED <<now, pdpVars, req, pepVars, misled>>
      /\ sent' \cup confirmed' \subseteq sent \cup confirmed
  BY DEF AskRedeemer, Lose
<1>3. Quiet
  BY <1>2 DEF Quiet
<1>4. (\A k \in Keys : Aged(claim[k], claim'[k])) /\ QuietBooks
  BY <1>2, FileKept DEF pdpVars
<1>5. UNCHANGED <<now, boot, epoch, redeemed, ledger, records, misled>> /\ now' >= now
  BY <1>1, <1>2, ConstantTypes DEF pdpVars, pepVars, TypeOK
<1> QED BY <1>1, <1>2, <1>3, <1>4, <1>5, NothingDisposed, QuietKeeps

LEMMA SweepKeeps ==
    ASSUME IInv, Sweep
    PROVE  IInv' /\ Kept
<1>1. TypeOK /\ TypeOK' /\ boot \in Nat
  BY FaultTypes, ConstantTypes DEF IInv, TypeOK
<1>2. /\ SweepNow(boot)
      /\ UNCHANGED <<now, boot, req, epoch, redeemed, ledger, records, sent, confirmed, misled>>
  BY DEF Sweep, pepVars
<1>3. Quiet
  BY <1>2 DEF Quiet
<1>4. \A k \in Keys : Aged(claim[k], claim'[k])
  BY <1>1, <1>2, SweepAges DEF SweepNow
<1>5. QuietBooks
  BY <1>1, <1>2, SweptBooks
<1>6. now' >= now
  BY <1>1, <1>2, ConstantTypes DEF TypeOK
<1> QED BY <1>1, <1>2, <1>3, <1>4, <1>5, <1>6, NothingDisposed, QuietKeeps

LEMMA RestartPDPKeeps ==
    ASSUME IInv, RestartPDP
    PROVE  IInv' /\ Kept
<1>1. TypeOK /\ TypeOK' /\ boot + 1 \in Nat
  BY FaultTypes, ConstantTypes DEF IInv, TypeOK
<1>2. /\ SweepNow(boot + 1) /\ boot' = boot + 1 /\ confirmed' = {}
      /\ UNCHANGED <<now, epoch, redeemed, ledger, records, sent, misled>>
      /\ req' = [r \in Requests |->
            IF req[r].at \in {"claimed", "asking", "answered"}
            THEN [req[r] EXCEPT !.at = "done"] ELSE req[r]]
  BY DEF RestartPDP, pepVars
<1>3. Quiet /\ \A r \in Requests : req'[r].at # "claimed"
  BY <1>1, <1>2 DEF Quiet, TypeOK
<1>4. \A k \in Keys : Aged(claim[k], claim'[k])
  BY <1>1, <1>2, SweepAges DEF SweepNow
<1>5. QuietBooks
  BY <1>1, <1>2, <1>3, SweptBooks
<1>6. now' >= now /\ sent' \cup confirmed' \subseteq sent \cup confirmed
  BY <1>1, <1>2, ConstantTypes DEF TypeOK
<1> QED BY <1>1, <1>2, <1>3, <1>4, <1>5, <1>6, NothingDisposed, QuietKeeps

LEMMA TickKeeps ==
    ASSUME IInv, Tick \/ UNCHANGED vars
    PROVE  IInv' /\ Kept
<1>1. /\ UNCHANGED <<pdpVars, req, pepVars, sent, confirmed, misled>>
      /\ now' = now \/ now' = now + 1
  BY DEF Tick, vars
<1>2. TypeOK /\ TypeOK'
  <2>1. CASE Tick
    BY <2>1, FaultTypes DEF IInv
  <2>2. CASE UNCHANGED vars
    BY <2>2 DEF IInv, TypeOK, vars, pdpVars, pepVars
  <2> QED BY <2>1, <2>2
<1>3. Quiet
  BY <1>1 DEF Quiet
<1>4. (\A k \in Keys : Aged(claim[k], claim'[k])) /\ QuietBooks
  BY <1>1, FileKept DEF pdpVars
<1>5. UNCHANGED <<boot, epoch, redeemed, ledger, records, sent, confirmed, misled>> /\ now' >= now
  BY <1>1, <1>2, ConstantTypes DEF pdpVars, pepVars, TypeOK
<1> QED BY <1>2, <1>3, <1>4, <1>5, NothingDisposed, QuietKeeps

\* An evaluation that ends without a permit, its reservation released or not.
LEMMA PersistFailsKeeps ==
    ASSUME IInv, NEW r \in Requests, PersistFails(r)
    PROVE  IInv' /\ Kept
<1>1. TypeOK /\ TypeOK'
  BY PermitTypes DEF IInv
<1>2. /\ UNCHANGED <<now, boot, claim, pepVars, sent, confirmed, misled>>
      /\ req[r].at = "claimed" /\ req' = Ended(r)
      /\ \/ /\ claim[KeyOf[r]].eval = r /\ claim[KeyOf[r]].state = "claimed"
            /\ booked' = [booked EXCEPT ![r] = "void"]
         \/ booked' = booked
  BY DEF PersistFails
<1>3. Quiet /\ req'[r].at = "done"
  BY <1>1, <1>2, EndedIsQuiet DEF Ended, TypeOK
<1>4. \A k \in Keys : Aged(claim[k], claim'[k])
  BY <1>2 DEF Aged
<1>5. QuietBooks
  BY <1>1, <1>2, <1>3 DEF QuietBooks, TypeOK
<1>6. /\ UNCHANGED <<now, boot, epoch, redeemed, ledger, records, sent, confirmed, misled>>
      /\ now' >= now
  BY <1>1, <1>2, ConstantTypes DEF pepVars, TypeOK
<1> QED BY <1>1, <1>3, <1>4, <1>5, <1>6, NothingDisposed, QuietKeeps

\* A new record and its settlement, one and the same disposition.
LEMMA OneDisposed ==
    ASSUME IInv, \A k \in Keys : Aged(claim[k], claim'[k]),
           NEW f \in Requests, NEW q \in Requests, NEW y,
           y \in Dispositions => Disposed(f, q, y) \/ Truthful(f, q, y),
           records' \subseteq records \cup {[permit |-> f, by |-> q, outcome |-> y]},
           \A m \in sent' : m \in sent \/ (m.permit = f /\ m.by = q /\ m.outcome = y),
           confirmed' \subseteq confirmed
    PROVE  \A e \in Requests, r \in Requests, x \in Dispositions :
                Disposed(e, r, x)' => Disposed(e, r, x) \/ Truthful(e, r, x)
<1> SUFFICES ASSUME NEW e \in Requests, NEW r \in Requests, NEW x \in Dispositions,
                    Disposed(e, r, x)'
             PROVE  Disposed(e, r, x) \/ Truthful(e, r, x)
  OBVIOUS
<1>1. [permit |-> e, by |-> r, outcome |-> x] \in records' =>
        Disposed(e, r, x) \/ (e = f /\ r = q /\ x = y)
  BY DEF Disposed
<1>2. \A m \in sent' \cup confirmed' : m.permit = e /\ m.by = r /\ m.outcome = x =>
        Disposed(e, r, x) \/ (e = f /\ r = q /\ x = y)
  BY DEF Disposed
<1>3. KeyOf[e] \in Keys
  BY ConstantTypes
<1> QED BY <1>1, <1>2, <1>3, AgedDispositions

\* A report of what the attempt did, retained and sent or neither.
LEMMA ReportKeeps ==
    ASSUME IInv, NEW r \in Requests, Suppress(r) \/ Report(r)
    PROVE  IInv' /\ Kept
<1> USE DEF IInv
<1>1. req[r].at \in {"redeemed", "executed"} /\ req' = Ended(r)
  BY DEF Suppress, Report, Dispose
<1>2. /\ req[r].permit \in Requests /\ req[r].epoch = epoch /\ redeemed[OpOf[r]] = r
      /\ OpOf[req[r].permit] = OpOf[r] /\ req[req[r].permit].epoch = epoch
      /\ req[r].at = "executed" => ledger[OpOf[r]] # NoRequest
  BY <1>1 DEF PermitsRight, TypeOK
<1>3. TypeOK'
  BY <1>2, ExecutionTypes
<1>4. Quiet /\ req'[r].at = "done"
  BY <1>1, EndedIsQuiet DEF Ended, TypeOK
<1>5. PICK x \in Dispositions : Dispose(r, x) /\ Truthful(req[r].permit, r, x)
  <2>1. CASE Suppress(r)
    BY <1>2, <1>4, <2>1 DEF Suppress, Truthful, Dispositions
  <2>2. CASE Report(r)
    BY <1>2, <1>4, <2>2 DEF Report, Truthful, Dispositions
  <2> QED BY <2>1, <2>2
<1>6. UNCHANGED <<now, pdpVars, epoch, redeemed, ledger, confirmed, misled>>
  BY DEF Suppress, Report
<1>7. (\A k \in Keys : Aged(claim[k], claim'[k])) /\ QuietBooks
  BY <1>6, FileKept DEF pdpVars
<1>8. /\ records' \subseteq records \cup {[permit |-> req[r].permit, by |-> r, outcome |-> x]}
      /\ \A m \in sent' : m \in sent \/ (m.permit = req[r].permit /\ m.by = r /\ m.outcome = x)
  BY <1>5 DEF Dispose, RecordOf, Issue
<1>9. now' >= now /\ boot' = boot /\ confirmed' = confirmed
  BY <1>6, ConstantTypes DEF pdpVars, TypeOK
<1>10. \A e \in Requests, q \in Requests, y \in Dispositions :
            Disposed(e, q, y)' => Disposed(e, q, y) \/ Truthful(e, q, y)
  BY <1>2, <1>5, <1>7, <1>8, <1>9, OneDisposed
<1> QED BY <1>3, <1>4, <1>6, <1>7, <1>9, <1>10, QuietKeeps

\* What the reconciler may offer for e, which this process of the store issued:
\* what is recorded, what the ledger shows, or a proof that nobody redeemed e.
LEMMA OfferedIsTrue ==
    ASSUME IInv, NEW e \in Requests, req[e].epoch = epoch, NEW m \in Offers(e)
    PROVE  /\ m = [permit |-> e, by |-> m.by, outcome |-> m.outcome]
           /\ m.by \in Requests /\ m.outcome \in Dispositions \cup {"unredeemed"}
           /\ m.outcome = "unredeemed" => ~Consumed(e)
           /\ m.outcome \in Dispositions => Disposed(e, m.by, m.outcome) \/ Truthful(e, m.by, m.outcome)
<1> USE DEF IInv
<1> DEFINE completed == {n \in records : n.permit = e /\ n.outcome = "completed"}
           suppressed == {n \in records : n.permit = e /\ n.outcome = "suppressed" /\ n.by \in Redeemer(e)}
<1>1. \/ m \in completed
      \/ m \in LedgerRecords(e)
      \/ m \in suppressed
      \/ m = [permit |-> e, by |-> e, outcome |-> "unredeemed"] /\ ~Consumed(e)
  <2> HIDE DEF completed, suppressed
  <2>1. Offers(e) = CASE completed # {} -> completed
         [] completed = {} /\ Consumed(e) /\ LedgerRecords(e) # {} -> LedgerRecords(e)
         [] completed = {} /\ Consumed(e) /\ LedgerRecords(e) = {} -> suppressed
         [] OTHER -> {[permit |-> e, by |-> e, outcome |-> "unredeemed"]}
    BY DEF Offers, completed, suppressed
  <2> QED BY <2>1
<1>2. CASE m \in completed \cup suppressed
  <2>1. m \in Records /\ m \in records /\ m.permit = e /\ m.outcome \in Dispositions
    BY <1>2 DEF TypeOK, Dispositions
  <2>2. m = [permit |-> e, by |-> m.by, outcome |-> m.outcome] /\ m.by \in Requests
    BY <2>1 DEF Records
  <2>3. Disposed(e, m.by, m.outcome)
    BY <2>1, <2>2 DEF Disposed
  <2> QED BY <2>1, <2>2, <2>3 DEF Dispositions
<1>3. CASE m \in LedgerRecords(e)
  <2>1. PICK r \in Redeemer(e) : m = [permit |-> e, by |-> r, outcome |-> "completed"] /\ TookEffect(e)
    BY <1>3 DEF LedgerRecords, TookEffect
  <2>2. PICK o \in Ops : redeemed[o] # NoRequest /\ RedeemedPermit(o) = e /\ r = redeemed[o]
    BY DEF Redeemer
  <2>3. r \in Requests /\ req[r].permit = e /\ OpOf[r] = o
    BY <2>2 DEF TypeOK, RedeemedPermit, RedeemersRight
  <2>4. OpOf[e] = o /\ req[r].at \in {"redeemed", "executed", "done"}
    BY <2>2, <2>3, ConstantTypes DEF PermitsRight, RedeemersRight
  <2>5. req[r].at # "redeemed" /\ ledger[OpOf[e]] # NoRequest
    BY <2>1, <2>3, ConstantTypes DEF TookEffect, LedgerRight
  <2>6. Truthful(e, r, "completed")
    BY <2>1, <2>2, <2>3, <2>4, <2>5 DEF Truthful
  <2> QED BY <2>1, <2>3, <2>6 DEF Dispositions
<1>4. CASE m = [permit |-> e, by |-> e, outcome |-> "unredeemed"] /\ ~Consumed(e)
  BY <1>4 DEF Dispositions
<1> QED BY <1>1, <1>2, <1>3, <1>4

\* The claim a reconciler's listing shows, and what it offers for it.
LEMMA ReconcileOffers ==
    ASSUME IInv, NEW k \in Keys, Reconcile(k)
    PROVE  /\ SweepNow(boot) /\ boot \in Nat
           /\ UNCHANGED <<now, boot, req, epoch, redeemed, ledger, confirmed, misled>>
           /\ \E e \in Requests : \E m \in Offers(e) :
                /\ claim[k].eval = e /\ KeyOf[e] = k /\ req[e].epoch = epoch
                /\ sent' = sent \cup {Issue(m)}
                /\ records' = IF m.outcome = "completed" THEN records \cup {m} ELSE records
<1> USE DEF IInv
<1> DEFINE row == Advanced(k, boot)
<1>1. boot \in Nat /\ claim[k] \in Claims
  BY ConstantTypes DEF TypeOK
<1>2. row.state = "unresolved" /\ row.epoch = epoch
  BY DEF Reconcile
<1>3. Aged(claim[k], row)
  BY <1>1, AdvancedAges
<1> HIDE DEF row
<1>4. row.eval = claim[k].eval /\ row.epoch = claim[k].epoch /\ claim[k].state \in Open
  BY <1>1, <1>2, <1>3, AgedRow DEF Open
<1>5. row.eval \in Requests /\ KeyOf[row.eval] = k /\ req[row.eval].epoch = epoch
  BY <1>1, <1>2, <1>4 DEF RowsRight, RowRight, Claims, Open
<1> QED BY <1>1, <1>4, <1>5 DEF Reconcile, row

LEMMA ReconcileKeeps ==
    ASSUME IInv, NEW k \in Keys, Reconcile(k)
    PROVE  IInv' /\ Kept
<1> USE DEF IInv
<1>1. /\ SweepNow(boot) /\ boot \in Nat /\ boot \in 1 .. MaxBoots
      /\ UNCHANGED <<now, boot, req, epoch, redeemed, ledger, confirmed, misled, overspent, conflicts>>
  BY ReconcileOffers DEF TypeOK, Reconcile
<1> PICK e \in Requests : \E m \in Offers(e) :
        /\ claim[k].eval = e /\ req[e].epoch = epoch
        /\ sent' = sent \cup {Issue(m)}
        /\ records' = IF m.outcome = "completed" THEN records \cup {m} ELSE records
  BY ReconcileOffers
<1>2. PICK m \in Offers(e) :
        /\ claim[k].eval = e /\ req[e].epoch = epoch
        /\ sent' = sent \cup {Issue(m)}
        /\ records' = IF m.outcome = "completed" THEN records \cup {m} ELSE records
  OBVIOUS
<1>3. /\ m = [permit |-> e, by |-> m.by, outcome |-> m.outcome]
      /\ m.by \in Requests /\ m.outcome \in Dispositions \cup {"unredeemed"}
      /\ m.outcome \in Dispositions => Disposed(e, m.by, m.outcome) \/ Truthful(e, m.by, m.outcome)
  BY <1>2, OfferedIsTrue
<1>4. TypeOK'
  <2>1. claim' \in [Keys -> Claims] /\ booked' \in [Requests -> Bookings]
    BY <1>1, SweepNowTypes
  <2>2. Issue(m) \in Settlements
    <3>1. now \in Nat
      BY ConstantTypes DEF TypeOK
    <3>2. /\ m.permit = e /\ e \in Requests /\ m.by \in Requests
          /\ m.outcome \in {"completed", "suppressed", "unredeemed"}
      BY ONLY <1>3, e \in Requests DEF Dispositions
    <3> QED BY ONLY <3>1, <3>2 DEF Issue, Settlements
  <2>3. m.outcome = "completed" => m \in Records
    BY ONLY <1>3, e \in Requests DEF Records
  <2>4. sent \subseteq Settlements /\ records \subseteq Records
    BY DEF TypeOK
  <2>5. sent' \subseteq Settlements /\ records' \subseteq Records
    BY ONLY <1>2, <2>2, <2>3, <2>4
  <2> QED BY <1>1, <2>1, <2>5 DEF TypeOK, Bookings
<1>5. Quiet
  BY <1>1 DEF Quiet
<1>6. \A j \in Keys : Aged(claim[j], claim'[j])
  BY <1>1, SweepAges DEF SweepNow
<1>7. QuietBooks
  BY <1>1, SweptBooks
<1>8. /\ records' \subseteq records \cup {[permit |-> e, by |-> m.by, outcome |-> m.outcome]}
      /\ \A n \in sent' : n \in sent \/ (n.permit = e /\ n.by = m.by /\ n.outcome = m.outcome)
  <2>1. m.permit = e
    BY ONLY <1>3
  <2>2. /\ Issue(m).permit = e /\ Issue(m).by = m.by /\ Issue(m).outcome = m.outcome
    BY ONLY <2>1 DEF Issue
  <2>3. \A n \in sent' : n \in sent \/ n = Issue(m)
    BY ONLY <1>2
  <2>4. records' \subseteq records \cup {m}
    BY ONLY <1>2
  <2>5. m \in {[permit |-> e, by |-> m.by, outcome |-> m.outcome]}
    BY ONLY <1>3
  <2> QED BY ONLY <2>2, <2>3, <2>4, <2>5
<1>9. \A f \in Requests, q \in Requests, y \in Dispositions :
            Disposed(f, q, y)' => Disposed(f, q, y) \/ Truthful(f, q, y)
  BY <1>1, <1>3, <1>6, <1>8, OneDisposed
<1>10. now' >= now
  BY <1>1, ConstantTypes DEF TypeOK
<1> QED BY <1>1, <1>4, <1>5, <1>6, <1>7, <1>9, <1>10, QuietKeeps

-----------------------------------------------------------------------------
(* Redeeming, taking the effect, and a new process of the store              *)

\* The conjuncts on the claim file's rows, for a step that leaves the file.
LEMMA FileStays ==
    ASSUME IInv, UNCHANGED <<claim, records, sent, confirmed>>,
           \A r \in Requests :
                /\ req'[r].permit = req[r].permit /\ req'[r].epoch = req[r].epoch
                /\ req[r].at # "idle" => req'[r].at # "idle"
    PROVE  /\ RowsRight'
           /\ \A e, r, x : Disposed(e, r, x)' <=> Disposed(e, r, x)
<1>1. \A k \in Keys : Aged(claim[k], claim'[k])
  BY DEF Aged
<1>2. RowsRight'
  BY <1>1, AgedRowRight DEF RowsRight
<1> QED BY <1>2 DEF Disposed

LEMMA RedeemKeeps ==
    ASSUME IInv, NEW r \in Requests, Redeem(r)
    PROVE  IInv' /\ Kept
<1> USE DEF IInv
<1> DEFINE o == OpOf[r]
           e == req[r].permit
<1>1. /\ req[r].at = "permit" /\ now < req[r].last /\ LeaseMax > 0
      /\ redeemed[o] = NoRequest /\ redeemed' = [redeemed EXCEPT ![o] = r]
      /\ UNCHANGED <<now, boot, claim, booked, epoch, ledger, records, sent, confirmed, misled>>
  BY DEF Redeem, pdpVars
<1>2. req[r] \in Reqs /\ now \in Nat /\ LeaseMax \in Nat /\ o \in Ops
  BY ConstantTypes DEF TypeOK, Reqs
<1>3. /\ req'[r].at = "redeemed" /\ req'[r].permit = e /\ req'[r].epoch = req[r].epoch
      /\ req'[r].last <= req[r].last
      /\ \A q \in Requests : q # r => req'[q] = req[q]
  BY <1>2 DEF Redeem, TypeOK, Reqs
<1>4. /\ e \in Requests /\ req[r].epoch = epoch /\ req[e].epoch = epoch
      /\ OpOf[e] = o
  BY <1>1 DEF PermitsRight, TypeOK
<1>5. TypeOK'
  BY <1>4, ExecutionTypes
<1>6. \A q \in Requests : /\ req'[q].permit = req[q].permit /\ req'[q].epoch = req[q].epoch
                          /\ req[q].at # "idle" => req'[q].at # "idle"
  BY <1>3
<1>7. RowsRight' /\ \A f, q, x : Disposed(f, q, x)' <=> Disposed(f, q, x)
  BY <1>1, <1>6, FileStays
<1>8. /\ redeemed'[o] = r
      /\ \A p \in Ops : p # o => redeemed'[p] = redeemed[p]
      /\ \A p \in Ops : redeemed[p] \in Requests \cup {NoRequest} /\ redeemed[p] # r
  <2>1. redeemed \in [Ops -> Requests \cup {NoRequest}]
    BY DEF TypeOK
  <2>2. \A p \in Ops : redeemed[p] # r
    BY <1>1, ConstantTypes DEF RedeemersRight
  <2> QED BY <1>1, <1>2, <2>1, <2>2
<1>9. PermitsRight'
  <2>1. \A q \in Requests : req[q].permit \in Requests \cup {NoRequest}
    BY DEF TypeOK
  <2>2. \A q \in Requests : req[q].at \in {"redeemed", "executed"} => OpOf[q] # o
    BY <1>1, ConstantTypes DEF PermitsRight
  <2>3. \A q \in Requests : q # r => redeemed'[OpOf[q]] = redeemed[OpOf[q]] \/ OpOf[q] = o
    BY <1>8, ConstantTypes
  <2> SUFFICES ASSUME NEW q \in Requests
               PROVE  /\ req'[q].epoch <= epoch
                      /\ req'[q].at \in {"idle", "claimed"} => req'[q].permit = NoRequest
                      /\ req'[q].at \in {"asking", "answered", "permit", "redeemed", "executed"} =>
                          req'[q].permit # NoRequest
                      /\ req'[q].permit # NoRequest =>
                          /\ KeyOf[req'[q].permit] = KeyOf[q] /\ OpOf[req'[q].permit] = OpOf[q]
                          /\ req'[req'[q].permit].at # "idle"
                          /\ req'[req'[q].permit].epoch = req'[q].epoch
                          /\ Metered(KeyOf[q]) => req'[q].permit = q
                      /\ req'[q].at \in {"permit", "redeemed", "executed"} => req'[q].epoch = epoch
                      /\ req'[q].at \in {"redeemed", "executed"} => redeemed'[OpOf[q]] = q
                      /\ req'[q].at = "redeemed" => LeaseMax > 0
                      /\ req'[q].at = "executed" => ledger[OpOf[q]] # NoRequest
    BY <1>1 DEF PermitsRight
  <2>4. CASE q = r
    BY <1>1, <1>3, <1>4, <1>6, <1>8, <2>4, ConstantTypes DEF PermitsRight
  <2>5. CASE q # r
    <3>1. req'[q] = req[q]
      BY <1>3, <2>5
    <3> QED BY <1>6, <2>1, <2>2, <2>3, <2>5, <3>1 DEF PermitsRight
  <2> QED BY <2>4, <2>5
<1>10. RedeemersRight'
  BY <1>1, <1>2, <1>3, <1>4, <1>8, ConstantTypes DEF RedeemersRight
<1>11. \A q \in Requests : Usable(q)' => Usable(q)
  <2> SUFFICES ASSUME NEW q \in Requests, Usable(q)' PROVE Usable(q)
    OBVIOUS
  <2>1. CASE q = r
    BY <1>1, <1>2, <2>1 DEF Usable, Reqs
  <2>2. CASE q # r
    <3>1. req'[q] = req[q]
      BY <1>3, <2>2
    <3>2. redeemed'[OpOf[q]] = NoRequest => redeemed[OpOf[q]] = NoRequest
      BY <1>1, <1>8, ConstantTypes
    <3> QED BY <1>1, <3>1, <3>2 DEF Usable
  <2> QED BY <2>1, <2>2
<1>12. UsableOpen'
  <2> SUFFICES ASSUME NEW q \in Requests, Usable(q)' PROVE IsOpen(q)'
    BY DEF UsableOpen
  <2>1. IsOpen(q)
    BY <1>11 DEF UsableOpen
  <2>2. KeyOf[q] \in Keys /\ claim[KeyOf[q]].until \in Nat
    BY ConstantTypes DEF TypeOK, Claims
  <2>3. req[q].last \in Nat /\ req'[q].last \in Nat /\ req'[q].last <= req[q].last
    BY <1>2, <1>3, <1>5 DEF TypeOK, Reqs
  <2> QED BY <1>1, <1>6, <2>1, <2>2, <2>3 DEF IsOpen
<1>13. LedgerRight'
  <2> SUFFICES ASSUME NEW p \in Ops, ledger[p] # NoRequest
               PROVE  /\ OpOf[ledger[p]] = p
                      /\ \E q \in Requests : req'[q].permit = ledger[p]
                      /\ \A q \in Requests : req'[q].permit = ledger[p] => req'[q].at # "redeemed"
                      /\ req'[ledger[p]].epoch = epoch =>
                            redeemed'[p] # NoRequest /\ RedeemedPermit(p)' = ledger[p]
    BY <1>1 DEF LedgerRight
  <2>1. ledger[p] \in Requests
    BY DEF TypeOK
  <2>2. ledger[p] # e
    BY <1>1, <1>4 DEF LedgerRight
  <2>3. p = o => req[ledger[p]].epoch # epoch
    BY <1>1 DEF LedgerRight
  <2> QED BY <1>1, <1>3, <1>6, <1>8, <2>1, <2>2, <2>3 DEF LedgerRight, RedeemedPermit
<1>14. DispositionsRight'
  <2>1. \A f \in Requests : TookEffect(f)' <=> TookEffect(f)
    BY <1>1 DEF TookEffect
  <2> SUFFICES ASSUME NEW f \in Requests, NEW q \in Requests, NEW x \in Dispositions, Disposed(f, q, x)
               PROVE  /\ req'[q].permit = f /\ req'[q].at \in {"executed", "done"}
                      /\ req'[f].epoch = epoch => redeemed'[OpOf[f]] = q
                      /\ x = "completed" => ledger[OpOf[f]] # NoRequest
                      /\ x = "suppressed" => ~TookEffect(f) /\ req'[q].at = "done"
                      /\ \A w \in Requests, y \in Dispositions : Disposed(f, w, y) => w = q /\ y = x
    BY <1>1, <1>7, <2>1 DEF DispositionsRight
  <2>2. /\ req[q].permit = f /\ req[q].at \in {"executed", "done"}
        /\ req[f].epoch = epoch => redeemed[OpOf[f]] = q
        /\ x = "completed" => ledger[OpOf[f]] # NoRequest
        /\ x = "suppressed" => ~TookEffect(f) /\ req[q].at = "done"
        /\ \A w \in Requests, y \in Dispositions : Disposed(f, w, y) => w = q /\ y = x
    BY DEF DispositionsRight
  <2>3. q # r /\ req'[q] = req[q]
    BY <1>1, <1>3, <2>2
  <2>4. req[f].epoch = epoch => OpOf[f] # o
    BY <1>1, <2>2, ConstantTypes
  <2>5. req[f].epoch = epoch => redeemed'[OpOf[f]] = q
    BY <1>8, <2>2, <2>4, ConstantTypes
  <2> QED BY <1>6, <2>2, <2>3, <2>5
<1>15. ChargesRight'
  <2>1. \A q \in Requests : req'[q].at = "claimed" => req[q].at = "claimed"
    BY <1>3
  <2>2. \A q \in Requests : Usable(q)' /\ Metered(KeyOf[q]) => booked'[q] \in Charged
    BY <1>1, <1>11 DEF ChargesRight
  <2>3. EffectIsCharged'
    BY <1>1 DEF ChargesRight, EffectIsCharged
  <2> QED BY <1>1, <2>1, <2>2, <2>3 DEF ChargesRight, InFlight
<1>16. Kept
  <2>1. Usable(r)
    BY <1>1, <1>2 DEF Usable, Reqs
  <2>2. \A q \in Requests : req'[q].at \in {"redeemed", "executed"} =>
            req'[q].permit = req[q].permit /\ (req[q].at \in {"redeemed", "executed"} \/ Usable(q))
    BY <1>3, <2>1
  <2>3. /\ now' >= now /\ \A k \in Keys : Aged(claim[k], claim'[k])
        /\ \A f \in Requests : TookEffect(f)' => TookEffect(f)
    BY <1>1, ConstantTypes DEF Aged, TookEffect, TypeOK
  <2> QED BY <1>6, <1>7, <2>2, <2>3, StepKept
<1> QED BY <1>5, <1>7, <1>9, <1>10, <1>12, <1>13, <1>14, <1>15, <1>16

\* The effect is taken under a permit whose claim is open and whose charge stands.
LEMMA CommitKeeps ==
    ASSUME IInv, NEW r \in Requests, Commit(r)
    PROVE  IInv' /\ Kept
<1> USE DEF IInv
<1> DEFINE o == OpOf[r]
           e == req[r].permit
<1>1. /\ req[r].at = "redeemed" /\ now <= req[r].last
      /\ ledger' = [ledger EXCEPT ![o] = IF @ = NoRequest THEN e ELSE @]
      /\ UNCHANGED <<now, boot, claim, booked, epoch, redeemed, records, sent, confirmed, misled>>
  BY DEF Commit, pdpVars
<1>2. /\ req'[r].at = "executed" /\ req'[r].permit = e /\ req'[r].epoch = req[r].epoch
      /\ req'[r].last = req[r].last
      /\ \A q \in Requests : q # r => req'[q] = req[q]
  BY DEF Commit, TypeOK
<1>3. /\ e \in Requests /\ req[r].epoch = epoch /\ req[e].epoch = epoch
      /\ OpOf[e] = o /\ KeyOf[e] = KeyOf[r] /\ o \in Ops /\ redeemed[o] = r
      /\ Metered(KeyOf[r]) => e = r
  BY <1>1, ConstantTypes DEF PermitsRight, TypeOK
<1>4. TypeOK'
  BY <1>3, ExecutionTypes
<1>5. \A q \in Requests : /\ req'[q].permit = req[q].permit /\ req'[q].epoch = req[q].epoch
                          /\ req'[q].last = req[q].last
                          /\ req[q].at # "idle" => req'[q].at # "idle"
  BY <1>2
<1>6. RowsRight' /\ \A f, q, x : Disposed(f, q, x)' <=> Disposed(f, q, x)
  BY <1>1, <1>5, FileStays
<1>7. /\ ledger'[o] = IF ledger[o] = NoRequest THEN e ELSE ledger[o]
      /\ \A p \in Ops : p # o => ledger'[p] = ledger[p]
      /\ \A p \in Ops : ledger[p] # NoRequest => ledger'[p] = ledger[p]
      /\ \A p \in Ops : ledger[p] \in Requests \cup {NoRequest}
  BY <1>1, <1>3 DEF TypeOK
<1>8. PermitsRight'
  <2>1. \A q \in Requests : req[q].permit \in Requests \cup {NoRequest}
    BY DEF TypeOK
  <2> SUFFICES ASSUME NEW q \in Requests
               PROVE  /\ req'[q].epoch <= epoch
                      /\ req'[q].at \in {"idle", "claimed"} => req'[q].permit = NoRequest
                      /\ req'[q].at \in {"asking", "answered", "permit", "redeemed", "executed"} =>
                          req'[q].permit # NoRequest
                      /\ req'[q].permit # NoRequest =>
                          /\ KeyOf[req'[q].permit] = KeyOf[q] /\ OpOf[req'[q].permit] = OpOf[q]
                          /\ req'[req'[q].permit].at # "idle"
                          /\ req'[req'[q].permit].epoch = req'[q].epoch
                          /\ Metered(KeyOf[q]) => req'[q].permit = q
                      /\ req'[q].at \in {"permit", "redeemed", "executed"} => req'[q].epoch = epoch
                      /\ req'[q].at \in {"redeemed", "executed"} => redeemed[OpOf[q]] = q
                      /\ req'[q].at = "redeemed" => LeaseMax > 0
                      /\ req'[q].at = "executed" => ledger'[OpOf[q]] # NoRequest
    BY <1>1 DEF PermitsRight
  <2>2. CASE q = r
    BY <1>1, <1>2, <1>3, <1>5, <1>7, <2>2, ConstantTypes DEF PermitsRight
  <2>3. CASE q # r
    <3>1. req'[q] = req[q] /\ OpOf[q] \in Ops
      BY <1>2, <2>3, ConstantTypes
    <3> QED BY <1>5, <1>7, <2>1, <2>3, <3>1 DEF PermitsRight
  <2> QED BY <2>2, <2>3
<1>9. RedeemersRight'
  <2>1. \A p \in Ops : redeemed[p] \in Requests \cup {NoRequest}
    BY DEF TypeOK
  <2> QED BY <1>1, <1>2, <1>3, <1>5, <2>1 DEF RedeemersRight
<1>10. \A q \in Requests : Usable(q)' => Usable(q)
  BY <1>1, <1>2 DEF Usable
<1>11. UsableOpen'
  BY <1>1, <1>5, <1>10 DEF UsableOpen, IsOpen
<1>12. \A q \in Requests : req[q].permit = e /\ req[q].at = "redeemed" => q = r
  BY <1>3 DEF PermitsRight
<1>13. LedgerRight'
  <2> SUFFICES ASSUME NEW p \in Ops, ledger'[p] # NoRequest
               PROVE  /\ OpOf[ledger'[p]] = p
                      /\ \E q \in Requests : req'[q].permit = ledger'[p]
                      /\ \A q \in Requests : req'[q].permit = ledger'[p] => req'[q].at # "redeemed"
                      /\ req'[ledger'[p]].epoch = epoch =>
                            redeemed[p] # NoRequest /\ RedeemedPermit(p)' = ledger'[p]
    BY <1>1 DEF LedgerRight
  <2>1. CASE p = o /\ ledger[o] = NoRequest
    <3>1. ledger'[p] = e
      BY <1>7, <2>1
    <3> QED BY <1>1, <1>2, <1>3, <1>5, <1>12, <2>1, <3>1, ConstantTypes DEF RedeemedPermit
  <2>2. CASE ledger[p] # NoRequest
    <3>1. ledger'[p] = ledger[p] /\ ledger[p] \in Requests
      BY <1>7, <2>2
    <3>2. /\ OpOf[ledger[p]] = p
          /\ \E q \in Requests : req[q].permit = ledger[p]
          /\ \A q \in Requests : req[q].permit = ledger[p] => req[q].at # "redeemed"
          /\ req[ledger[p]].epoch = epoch =>
                redeemed[p] # NoRequest /\ RedeemedPermit(p) = ledger[p]
      BY <2>2 DEF LedgerRight
    <3>3. redeemed[p] # NoRequest => redeemed[p] \in Requests
      BY DEF TypeOK
    <3> QED BY <1>1, <1>2, <1>5, <3>1, <3>2, <3>3 DEF RedeemedPermit
  <2> QED BY <1>7, <2>1, <2>2
<1>14. DispositionsRight'
  <2>1. \A f \in Requests : TookEffect(f)' => TookEffect(f) \/ f = e
    BY <1>7, <1>3 DEF TookEffect
  <2> SUFFICES ASSUME NEW f \in Requests, NEW q \in Requests, NEW x \in Dispositions, Disposed(f, q, x)
               PROVE  /\ req'[q].permit = f /\ req'[q].at \in {"executed", "done"}
                      /\ req'[f].epoch = epoch => redeemed[OpOf[f]] = q
                      /\ x = "completed" => ledger'[OpOf[f]] # NoRequest
                      /\ x = "suppressed" => ~TookEffect(f)' /\ req'[q].at = "done"
                      /\ \A w \in Requests, y \in Dispositions : Disposed(f, w, y) => w = q /\ y = x
    BY <1>1, <1>6 DEF DispositionsRight
  <2>2. /\ req[q].permit = f /\ req[q].at \in {"executed", "done"}
        /\ req[f].epoch = epoch => redeemed[OpOf[f]] = q
        /\ x = "completed" => ledger[OpOf[f]] # NoRequest
        /\ x = "suppressed" => ~TookEffect(f) /\ req[q].at = "done"
        /\ \A w \in Requests, y \in Dispositions : Disposed(f, w, y) => w = q /\ y = x
    BY DEF DispositionsRight
  <2>3. q # r /\ req'[q] = req[q]
    BY <1>1, <1>2, <2>2
  <2>4. f # e
    BY <1>3, <2>2, <2>3
  <2>5. OpOf[f] \in Ops
    BY ConstantTypes
  <2> QED BY <1>5, <1>7, <2>1, <2>2, <2>3, <2>4, <2>5
<1>15. ChargesRight'
  <2>1. \A q \in Requests : req'[q].at = "claimed" => req[q].at = "claimed"
    BY <1>2
  <2>2. \A q \in Requests : Usable(q)' /\ Metered(KeyOf[q]) => booked'[q] \in Charged
    BY <1>1, <1>10 DEF ChargesRight
  <2>3. Metered(KeyOf[e]) => booked[e] \in Charged
    <3>1. Usable(r)
      BY <1>1 DEF Usable
    <3> QED BY <1>3, <3>1 DEF ChargesRight
  <2>4. EffectIsCharged'
    <3> SUFFICES ASSUME NEW p \in Ops, ledger'[p] # NoRequest, Metered(KeyOf[ledger'[p]])
                 PROVE  booked[ledger'[p]] \in Charged \/ ledger'[p] \in misled
      BY <1>1 DEF EffectIsCharged
    <3>1. ledger'[p] = e \/ (ledger[p] # NoRequest /\ ledger'[p] = ledger[p])
      BY <1>7
    <3> QED BY <2>3, <3>1 DEF ChargesRight, EffectIsCharged
  <2> QED BY <1>1, <2>1, <2>2, <2>4 DEF ChargesRight, InFlight
<1>16. Kept
  <2>1. \A f \in Requests : TookEffect(f)' =>
            TookEffect(f) \/ \E q \in Requests : req[q].permit = f /\ req[q].at = "redeemed"
    BY <1>1, <1>3, <1>7 DEF TookEffect
  <2>2. \A q \in Requests : req'[q].at \in {"redeemed", "executed"} =>
            req'[q].permit = req[q].permit /\ req[q].at \in {"redeemed", "executed"}
    BY <1>1, <1>2
  <2>3. now' >= now /\ \A k \in Keys : Aged(claim[k], claim'[k])
    BY <1>1, ConstantTypes DEF Aged, TypeOK
  <2> QED BY <1>5, <1>6, <2>1, <2>2, <2>3, StepKept
<1> QED BY <1>4, <1>6, <1>8, <1>9, <1>11, <1>13, <1>14, <1>15, <1>16

\* A new process of the store redeemed nothing, and holds no permit.
LEMMA RestartPEPKeeps ==
    ASSUME IInv, RestartPEP
    PROVE  IInv' /\ Kept
<1> USE DEF IInv
<1>1. /\ epoch' = epoch + 1 /\ redeemed' = [o \in Ops |-> NoRequest]
      /\ req' = [r \in Requests |->
            IF req[r].at \in {"permit", "redeemed", "executed"}
            THEN [req[r] EXCEPT !.at = "done"] ELSE req[r]]
      /\ UNCHANGED <<now, boot, claim, booked, ledger, records, sent, confirmed, misled>>
  BY DEF RestartPEP, pdpVars
<1>2. TypeOK' /\ epoch \in Nat
  BY FaultTypes, ConstantTypes DEF TypeOK
<1>3. \A r \in Requests :
        /\ req'[r].permit = req[r].permit /\ req'[r].epoch = req[r].epoch
        /\ req'[r].at = IF req[r].at \in {"permit", "redeemed", "executed"} THEN "done" ELSE req[r].at
        /\ req[r].epoch \in Nat /\ req[r].epoch <= epoch /\ req'[r].epoch # epoch'
        /\ req[r].permit \in Requests \cup {NoRequest}
  <2>1. req \in [Requests -> Reqs]
    BY DEF TypeOK, Reqs
  <2>2. \A r \in Requests : req[r].epoch \in Nat /\ req[r].permit \in Requests \cup {NoRequest}
    BY <2>1, ConstantTypes DEF Reqs
  <2>3. \A r \in Requests :
            /\ req'[r].permit = req[r].permit /\ req'[r].epoch = req[r].epoch
            /\ req'[r].at = IF req[r].at \in {"permit", "redeemed", "executed"} THEN "done" ELSE req[r].at
    BY <1>1, <2>1 DEF Reqs
  <2>4. \A r \in Requests : req[r].epoch <= epoch
    BY DEF PermitsRight
  <2> QED BY <1>1, <1>2, <2>2, <2>3, <2>4
<1>4. RowsRight' /\ \A f, q, x : Disposed(f, q, x)' <=> Disposed(f, q, x)
  BY <1>1, <1>3, FileStays
<1>5. PermitsRight'
  BY <1>1, <1>2, <1>3 DEF PermitsRight
<1>6. RedeemersRight'
  BY <1>1 DEF RedeemersRight
<1>7. \A r \in Requests : ~Usable(r)'
  BY <1>3 DEF Usable
<1>8. LedgerRight'
  <2>1. \A o \in Ops : ledger[o] # NoRequest => ledger[o] \in Requests
    BY DEF TypeOK
  <2> QED BY <1>1, <1>3, <2>1 DEF LedgerRight
<1>9. DispositionsRight'
  <2>1. \A e \in Requests : TookEffect(e)' <=> TookEffect(e)
    BY <1>1 DEF TookEffect
  <2> QED BY <1>1, <1>3, <1>4, <2>1 DEF DispositionsRight
<1>10. ChargesRight'
  <2>1. \A r \in Requests : req'[r].at = "claimed" => req[r].at = "claimed"
    BY <1>3
  <2> QED BY <1>1, <1>7, <2>1 DEF ChargesRight, InFlight, EffectIsCharged
<1>11. Kept
  <2>1. \A r \in Requests :
            /\ req[r].at # "idle" => req'[r].at # "idle"
            /\ req'[r].at \notin {"redeemed", "executed"}
    BY <1>3
  <2>2. /\ now' >= now /\ \A k \in Keys : Aged(claim[k], claim'[k])
        /\ \A e \in Requests : TookEffect(e)' => TookEffect(e)
    BY <1>1, ConstantTypes DEF Aged, TookEffect, TypeOK
  <2> QED BY <1>4, <2>1, <2>2, StepKept
<1> QED BY <1>2, <1>4, <1>5, <1>6, <1>7, <1>8, <1>9, <1>10, <1>11 DEF UsableOpen

-----------------------------------------------------------------------------
(* An operator's answer for a reservation that is held                      *)

LEMMA OperatorKeeps ==
    ASSUME IInv, NEW e \in Requests, OperatorExecuted(e) \/ OperatorNotExecuted(e)
    PROVE  IInv' /\ Kept
<1> USE DEF IInv
<1>1. TypeOK' /\ booked \in [Requests -> Bookings]
  BY CallTypes DEF TypeOK, Bookings
<1>2. /\ UNCHANGED <<now, boot, claim, req, pepVars, sent, confirmed>>
      /\ booked[e] \in {"held", "released"} /\ misled \subseteq misled'
      /\ \A q \in Requests : q # e => booked'[q] = booked[q]
  BY <1>1 DEF OperatorExecuted, OperatorNotExecuted
<1>3. /\ RowsRight' /\ PermitsRight' /\ RedeemersRight'
      /\ UsableOpen' /\ LedgerRight' /\ DispositionsRight'
      /\ Kept
  <2>1. Quiet /\ \A k \in Keys : Aged(claim[k], claim'[k])
    BY <1>2 DEF Quiet, Aged
  <2>2. UNCHANGED <<epoch, redeemed, ledger>> /\ now' >= now
    BY <1>2, ConstantTypes DEF TypeOK, pepVars
  <2> QED BY <1>1, <1>2, <2>1, <2>2, NothingDisposed, QuietCore DEF pepVars
<1>4. ASSUME NEW q \in Requests, claim[KeyOf[q]].eval = q, InFlight(claim[KeyOf[q]], boot),
             claim[KeyOf[q]].state = "claimed", Metered(KeyOf[q])
      PROVE  booked'[q] = "reserved"
  BY <1>2, <1>4 DEF ChargesRight
<1>5. ASSUME NEW q \in Requests, Usable(q), Metered(KeyOf[q])
      PROVE  booked'[q] \in Charged
  <2>1. booked[q] \in Charged
    BY <1>5 DEF ChargesRight
  <2>2. CASE q # e
    BY <1>2, <2>1, <2>2
  <2>3. CASE OperatorExecuted(e) /\ q = e
    BY <1>1, <2>3 DEF OperatorExecuted, Charged
  <2>4. CASE OperatorNotExecuted(e) /\ q = e
    <3>1. /\ claim[KeyOf[q]].eval = req[q].permit /\ req[q].last <= claim[KeyOf[q]].until
          /\ req[q].permit # NoRequest /\ now <= req[q].last
      BY <1>5 DEF UsableOpen, IsOpen, Usable, PermitsRight
    <3>2. req[q].permit = q
      BY <1>5, <3>1 DEF PermitsRight
    <3>3. LeaseOver(claim[KeyOf[q]])
      BY <2>4, <3>1, <3>2 DEF OperatorNotExecuted, Row
    <3>4. now \in Nat /\ req[q].last \in Nat /\ claim[KeyOf[q]].until \in Nat /\ LeaseMax \in Nat
      BY ConstantTypes DEF TypeOK, Claims
    <3> QED BY <3>1, <3>3, <3>4 DEF LeaseOver
  <2> QED BY <2>2, <2>3, <2>4
<1>6. EffectIsCharged'
  <2> SUFFICES ASSUME NEW o \in Ops, ledger[o] # NoRequest, Metered(KeyOf[ledger[o]])
               PROVE  booked'[ledger[o]] \in Charged \/ ledger[o] \in misled'
    BY <1>2 DEF EffectIsCharged, pepVars
  <2>1. ledger[o] \in Requests /\ (booked[ledger[o]] \in Charged \/ ledger[o] \in misled)
    BY DEF ChargesRight, EffectIsCharged, TypeOK
  <2>2. CASE ledger[o] # e
    BY <1>2, <2>1, <2>2
  <2>3. CASE ledger[o] = e /\ OperatorExecuted(e)
    BY <1>1, <2>3 DEF OperatorExecuted, Charged
  <2>4. CASE ledger[o] = e /\ OperatorNotExecuted(e)
    BY <2>4 DEF OperatorNotExecuted, TookEffect
  <2> QED BY <2>2, <2>3, <2>4
<1>7. ChargesRight'
  BY <1>2, <1>4, <1>5, <1>6 DEF ChargesRight, InFlight, Usable, pepVars
<1> QED BY <1>1, <1>3, <1>7

-----------------------------------------------------------------------------
(* A permit is persisted or sent again                                      *)

\* Those that redeemed stay as they are, and whoever holds a permit keeps it.
LEMMA OthersStay ==
    ASSUME IInv, UNCHANGED <<epoch, redeemed, ledger>>,
           \A q \in Requests :
                /\ req[q].at \in {"redeemed", "executed", "done"} => req'[q] = req[q]
                /\ req[q].at # "idle" => req'[q].epoch = req[q].epoch
                /\ req[q].permit # NoRequest => req'[q].permit = req[q].permit
                /\ req'[q].at = "redeemed" => req[q].at = "redeemed",
           \A e \in Requests, r \in Requests, x \in Dispositions :
                Disposed(e, r, x)' => Disposed(e, r, x)
    PROVE  RedeemersRight' /\ LedgerRight' /\ DispositionsRight'
<1> USE DEF IInv
<1>1. \A q \in Requests : req[q].permit # NoRequest =>
            /\ req[q].at # "idle" /\ req[q].permit \in Requests
            /\ req'[req[q].permit].epoch = req[req[q].permit].epoch
  BY DEF PermitsRight, TypeOK
<1>2. \A o \in Ops : redeemed[o] # NoRequest => redeemed[o] \in Requests
  BY DEF TypeOK
<1>3. RedeemersRight'
  BY <1>2 DEF RedeemersRight
<1>4. LedgerRight'
  <2> SUFFICES ASSUME NEW o \in Ops, ledger[o] # NoRequest
               PROVE  /\ OpOf[ledger[o]] = o
                      /\ \E q \in Requests : req'[q].permit = ledger[o]
                      /\ \A q \in Requests : req'[q].permit = ledger[o] => req'[q].at # "redeemed"
                      /\ req'[ledger[o]].epoch = epoch =>
                            redeemed[o] # NoRequest /\ RedeemedPermit(o)' = ledger[o]
    BY DEF LedgerRight
  <2>1. /\ OpOf[ledger[o]] = o
        /\ \A q \in Requests : req[q].permit = ledger[o] => req[q].at # "redeemed"
        /\ req[ledger[o]].epoch = epoch => redeemed[o] # NoRequest /\ RedeemedPermit(o) = ledger[o]
    BY DEF LedgerRight
  <2>2. PICK q \in Requests : req[q].permit = ledger[o]
    BY DEF LedgerRight
  <2>3. req'[q].permit = ledger[o] /\ req'[ledger[o]].epoch = req[ledger[o]].epoch
    BY <1>1, <2>2
  <2>4. redeemed[o] # NoRequest => req'[redeemed[o]] = req[redeemed[o]]
    BY <1>2 DEF RedeemersRight
  <2>5. \A w \in Requests : req'[w].permit = ledger[o] => req'[w].at # "redeemed"
    BY <2>1
  <2> QED BY <2>1, <2>3, <2>4, <2>5 DEF RedeemedPermit
<1>5. DispositionsRight'
  <2>1. \A e \in Requests : TookEffect(e)' <=> TookEffect(e)
    BY DEF TookEffect
  <2> SUFFICES ASSUME NEW e \in Requests, NEW r \in Requests, NEW x \in Dispositions, Disposed(e, r, x)
               PROVE  /\ req'[r].permit = e /\ req'[r].at \in {"executed", "done"}
                      /\ req'[e].epoch = epoch => redeemed[OpOf[e]] = r
                      /\ x = "completed" => ledger[OpOf[e]] # NoRequest
                      /\ x = "suppressed" => ~TookEffect(e) /\ req'[r].at = "done"
                      /\ \A q \in Requests, y \in Dispositions : Disposed(e, q, y) => q = r /\ y = x
    BY <2>1 DEF DispositionsRight
  <2>2. /\ req[r].permit = e /\ req[r].at \in {"executed", "done"}
        /\ req[e].epoch = epoch => redeemed[OpOf[e]] = r
        /\ x = "completed" => ledger[OpOf[e]] # NoRequest
        /\ x = "suppressed" => ~TookEffect(e) /\ req[r].at = "done"
        /\ \A q \in Requests, y \in Dispositions : Disposed(e, q, y) => q = r /\ y = x
    BY DEF DispositionsRight
  <2>3. req'[r] = req[r] /\ req'[e].epoch = req[e].epoch
    BY <1>1, <2>2, ConstantTypes
  <2> QED BY <2>2, <2>3
<1> QED BY <1>3, <1>4, <1>5

\* What an answer that carries the permit of e does to the request r.
LEMMA Answers ==
    ASSUME TypeOK, NEW r \in Requests, NEW e, NEW t, Answered(r, e, t)
    PROVE  /\ \A q \in Requests : q # r => req'[q] = req[q]
           /\ req'[r].epoch = req[r].epoch
           /\ \/ req' = Ended(r) /\ req'[r].at = "done" /\ req'[r].permit = req[r].permit
              \/ /\ req[r].epoch = epoch /\ req'[r].at = "permit"
                 /\ req'[r].permit = e /\ req'[r].last = t
<1>1. req \in [Requests -> Reqs]
  BY DEF TypeOK, Reqs
<1>2. CASE req' = Ended(r)
  BY <1>1, <1>2 DEF Ended, Reqs
<1>3. CASE /\ req[r].epoch = epoch
           /\ req' = [req EXCEPT ![r] = [@ EXCEPT !.at = "permit", !.permit = e, !.last = t]]
  BY <1>1, <1>3 DEF Reqs
<1> QED BY <1>2, <1>3 DEF Answered

\* The permit leaves for the process that asked, or is lost on the way.
LEMMA PersistKeeps ==
    ASSUME IInv, NEW r \in Requests, Persist(r)
    PROVE  IInv' /\ Kept
<1> USE DEF IInv
<1> DEFINE k == KeyOf[r]
           row == claim[k]
<1>1. /\ req[r].at = "claimed" /\ row.eval = r /\ row.state = "claimed" /\ row.boot = boot
      /\ claim' = [claim EXCEPT ![k].state = "permit_issued"]
      /\ Answered(r, r, row.until)
      /\ UNCHANGED <<now, boot, booked, epoch, redeemed, ledger, records, sent, confirmed, misled>>
  BY DEF Persist, pepVars
<1>2. TypeOK'
  BY PermitTypes
<1>3. /\ k \in Keys /\ row \in Claims
      /\ claim'[k] = [row EXCEPT !.state = "permit_issued"]
      /\ \A j \in Keys : j # k => claim'[j] = claim[j]
  BY <1>1, ConstantTypes DEF TypeOK
<1>4. /\ claim'[k].state = "permit_issued" /\ claim'[k].eval = r /\ claim'[k].until = row.until
      /\ claim'[k].by = row.by /\ claim'[k].outcome = row.outcome /\ claim'[k].epoch = row.epoch
  BY <1>1, <1>3 DEF Claims
<1>5. /\ row.by = NoRequest /\ row.outcome = "none" /\ row.epoch = req[r].epoch
      /\ \A q \in Requests : req[q].permit # r
      /\ req[r].permit = NoRequest
  BY <1>1, <1>3 DEF RowsRight, RowRight, PermitsRight
<1>6. /\ \A q \in Requests : q # r => req'[q] = req[q]
      /\ req'[r].epoch = req[r].epoch
      /\ \/ req'[r].at = "done" /\ req'[r].permit = NoRequest
         \/ /\ req[r].epoch = epoch /\ req'[r].at = "permit"
            /\ req'[r].permit = r /\ req'[r].last = row.until
  BY <1>1, <1>5, Answers
<1>7. RowsRight'
  <2> SUFFICES ASSUME NEW j \in Keys PROVE RowRight(j)'
    BY DEF RowsRight
  <2>1. CASE j = k
    BY <1>1, <1>4, <1>5, <1>6, <2>1, ConstantTypes DEF RowRight
  <2>2. CASE j # k
    <3>1. claim'[j] = claim[j] /\ claim[j] \in Claims
      BY <1>3, <2>2 DEF TypeOK
    <3>2. claim[j].eval # r
      BY <2>2, ConstantTypes DEF RowsRight, RowRight
    <3>3. claim[j].eval \in Requests \cup {NoRequest}
      BY <3>1 DEF Claims
    <3>4. claim[j].state = "claimed" =>
            claim[j].eval # NoRequest /\ \A q \in Requests : req[q].permit # claim[j].eval
      BY DEF RowsRight, RowRight
    <3>5. claim[j].state = "claimed" => \A q \in Requests : req'[q].permit # claim[j].eval
      BY <1>6, <3>2, <3>4
    <3>6. /\ claim[j].state = "none" <=> claim[j].eval = NoRequest
          /\ claim[j].by = NoRequest <=> claim[j].state \notin {"completed", "failed"}
          /\ claim[j].by = NoRequest => claim[j].outcome = "none"
          /\ claim[j].state = "completed" => claim[j].outcome = "completed"
          /\ claim[j].state = "failed" => claim[j].outcome \in {"suppressed", "unredeemed"}
          /\ claim[j].eval # NoRequest =>
              /\ KeyOf[claim[j].eval] = j
              /\ req[claim[j].eval].at # "idle"
              /\ claim[j].epoch = req[claim[j].eval].epoch
      BY Zenon DEF RowsRight, RowRight
    <3>7. claim[j].eval # NoRequest => req'[claim[j].eval] = req[claim[j].eval]
      BY <1>6, <3>2, <3>3
    <3> QED BY <3>1, <3>5, <3>6, <3>7 DEF RowRight
  <2> QED BY <2>1, <2>2
<1>8. PermitsRight'
  <2>1. \A q \in Requests : req[q].permit \in Requests \cup {NoRequest}
    BY DEF TypeOK
  <2>2. req[r].epoch <= epoch
    BY DEF PermitsRight
  <2> SUFFICES ASSUME NEW q \in Requests
               PROVE  /\ req'[q].epoch <= epoch
                      /\ req'[q].at \in {"idle", "claimed"} => req'[q].permit = NoRequest
                      /\ req'[q].at \in {"asking", "answered", "permit", "redeemed", "executed"} =>
                          req'[q].permit # NoRequest
                      /\ req'[q].permit # NoRequest =>
                          /\ KeyOf[req'[q].permit] = KeyOf[q] /\ OpOf[req'[q].permit] = OpOf[q]
                          /\ req'[req'[q].permit].at # "idle"
                          /\ req'[req'[q].permit].epoch = req'[q].epoch
                          /\ Metered(KeyOf[q]) => req'[q].permit = q
                      /\ req'[q].at \in {"permit", "redeemed", "executed"} => req'[q].epoch = epoch
                      /\ req'[q].at \in {"redeemed", "executed"} => redeemed[OpOf[q]] = q
                      /\ req'[q].at = "redeemed" => LeaseMax > 0
                      /\ req'[q].at = "executed" => ledger[OpOf[q]] # NoRequest
    BY <1>1 DEF PermitsRight
  <2>3. CASE q = r
    BY <1>6, <2>2, <2>3, ConstantTypes
  <2>4. CASE q # r
    <3>1. req'[q] = req[q] /\ req[q].permit # r
      BY <1>5, <1>6, <2>4
    <3>2. req[q].permit # NoRequest => req'[req[q].permit] = req[req[q].permit]
      BY <1>6, <2>1, <3>1
    <3> QED BY <3>1, <3>2 DEF PermitsRight
  <2> QED BY <2>3, <2>4
<1>9. RedeemersRight' /\ LedgerRight' /\ DispositionsRight'
  <2>1. \A j \in Keys : Aged(claim[j], claim'[j]) \/ claim'[j].by = NoRequest
    BY <1>3, <1>4, <1>5 DEF Aged
  <2>2. \A e \in Requests, q \in Requests, x \in Dispositions : Disposed(e, q, x)' => Disposed(e, q, x)
    BY <1>1, <2>1, NothingDisposed
  <2>3. \A q \in Requests :
            /\ req[q].at \in {"redeemed", "executed", "done"} => req'[q] = req[q]
            /\ req[q].at # "idle" => req'[q].epoch = req[q].epoch
            /\ req[q].permit # NoRequest => req'[q].permit = req[q].permit
            /\ req'[q].at = "redeemed" => req[q].at = "redeemed"
    BY <1>1, <1>5, <1>6
  <2> QED BY <1>1, <2>2, <2>3, OthersStay
<1>10. \A q \in Requests : q # r => (Usable(q)' <=> Usable(q))
  BY <1>1, <1>6 DEF Usable
<1>11. UsableOpen'
  <2> SUFFICES ASSUME NEW q \in Requests, Usable(q)' PROVE IsOpen(q)'
    BY DEF UsableOpen
  <2>1. CASE q = r
    <3>1. req'[r].permit = r /\ req'[r].last = row.until
      BY <1>6, <2>1 DEF Usable
    <3> QED BY <1>3, <1>4, <2>1, <3>1 DEF IsOpen, Open, Claims
  <2>2. CASE q # r
    <3>1. IsOpen(q)
      BY <1>10, <2>2 DEF UsableOpen
    <3>2. KeyOf[q] # k /\ KeyOf[q] \in Keys
      BY <1>1, <3>1, ConstantTypes DEF IsOpen, Open
    <3> QED BY <1>3, <1>6, <2>2, <3>1, <3>2 DEF IsOpen
  <2> QED BY <2>1, <2>2
<1>12. ChargesRight'
  <2>1. ASSUME NEW q \in Requests, claim'[KeyOf[q]].eval = q, InFlight(claim[KeyOf[q]], boot)',
               claim'[KeyOf[q]].state = "claimed", Metered(KeyOf[q])
        PROVE  booked[q] = "reserved"
    <3>1. KeyOf[q] # k /\ KeyOf[q] \in Keys /\ q # r
      BY <1>4, <2>1, ConstantTypes
    <3>2. claim'[KeyOf[q]] = claim[KeyOf[q]] /\ req'[q] = req[q]
      BY <1>3, <1>6, <3>1
    <3> QED BY <1>1, <2>1, <3>2 DEF ChargesRight, InFlight
  <2>2. ASSUME NEW q \in Requests, Usable(q)', Metered(KeyOf[q])
        PROVE  booked[q] \in Charged
    <3>1. Metered(k) => booked[r] = "reserved"
      BY <1>1 DEF ChargesRight, InFlight
    <3> QED BY <1>10, <2>2, <3>1 DEF ChargesRight, Charged
  <2> QED BY <1>1, <2>1, <2>2 DEF ChargesRight, EffectIsCharged
<1>13. Kept
  <2>1. /\ now' >= now
        /\ \A j \in Keys : \/ Aged(claim[j], claim'[j])
                            \/ /\ claim'[j].outcome # "unredeemed"
                               /\ claim'[j].eval = claim[j].eval /\ claim'[j].until = claim[j].until
    BY <1>1, <1>3, <1>4, <1>5, ConstantTypes DEF Aged, TypeOK
  <2>2. \A e \in Requests, q \in Requests, x \in Dispositions : Disposed(e, q, x)' => Disposed(e, q, x)
    <3>1. \A j \in Keys : Aged(claim[j], claim'[j]) \/ claim'[j].by = NoRequest
      BY <1>3, <1>4, <1>5 DEF Aged
    <3> QED BY <1>1, <3>1, NothingDisposed
  <2>3. \A q \in Requests :
            /\ req[q].at # "idle" => req'[q].at # "idle"
            /\ req'[q].at \in {"redeemed", "executed"} => req'[q] = req[q]
    BY <1>6
  <2>4. \A e \in Requests : TookEffect(e)' => TookEffect(e)
    BY <1>1 DEF TookEffect
  <2> QED BY <2>1, <2>2, <2>3, <2>4, StepKept
<1> QED BY <1>2, <1>7, <1>8, <1>9, <1>11, <1>12, <1>13

\* A permit is sent again only as its row still stands.
LEMMA RetransmitKeeps ==
    ASSUME IInv, NEW r \in Requests, Retransmit(r)
    PROVE  IInv' /\ Kept
<1> USE DEF IInv
<1> DEFINE k == KeyOf[r]
           row == Advanced(k, boot)
<1>1. /\ req[r].at = "answered" /\ k \in Keys /\ boot \in Nat
      /\ claim' = [claim EXCEPT ![k] = row] /\ booked' = BookedAfter({k}, boot)
      /\ UNCHANGED <<now, boot, epoch, redeemed, ledger, records, sent, confirmed, misled>>
  BY ConstantTypes DEF Retransmit, AdvanceOnly, pepVars, TypeOK
<1>2. TypeOK'
  BY PermitTypes
<1>3. \A j \in Keys : Aged(claim[j], claim'[j])
  BY <1>1, SweepAges
<1>4. QuietBooks
  BY <1>1, SweptBooks
<1>5. now' >= now
  BY <1>1, ConstantTypes DEF TypeOK
<1>6. CASE req' = Ended(r)
  BY <1>1, <1>2, <1>3, <1>4, <1>5, <1>6, EndedIsQuiet, NothingDisposed, QuietKeeps
<1>7. CASE StillIssued(r, row) /\ Answered(r, row.eval, row.until) /\ req' # Ended(r)
  <2>1. row.eval = req[r].permit /\ row.state = "permit_issued" /\ ~Metered(k)
    BY <1>7 DEF StillIssued, Retransmittable
  <2>2. claim' = claim
    BY <1>1, <2>1, AdvancedAges DEF TypeOK
  <2>3. row = claim[k]
    BY <1>1, <2>1, AdvancedAges
  <2>4. /\ \A q \in Requests : q # r => req'[q] = req[q]
        /\ req[r].epoch = epoch /\ req'[r].epoch = epoch
        /\ req'[r].at = "permit" /\ req'[r].permit = req[r].permit /\ req'[r].last = claim[k].until
    BY <1>7, <2>1, <2>3, Answers
  <2>5. \A q \in Requests : /\ req'[q].permit = req[q].permit /\ req'[q].epoch = req[q].epoch
                            /\ req[q].at # "idle" => req'[q].at # "idle"
    BY <2>4
  <2>6. RowsRight' /\ \A e \in Requests, q \in Requests, x \in Dispositions : Disposed(e, q, x)' => Disposed(e, q, x)
    BY <1>1, <2>2, <2>5, FileStays
  <2>7. RedeemersRight' /\ LedgerRight' /\ DispositionsRight'
    <3>1. \A q \in Requests :
            /\ req[q].at \in {"redeemed", "executed", "done"} => req'[q] = req[q]
            /\ req[q].at # "idle" => req'[q].epoch = req[q].epoch
            /\ req[q].permit # NoRequest => req'[q].permit = req[q].permit
            /\ req'[q].at = "redeemed" => req[q].at = "redeemed"
      BY <1>1, <2>4, <2>5
    <3> QED BY <1>1, <2>6, <3>1, OthersStay
  <2>8. PermitsRight'
    <3>1. \A q \in Requests : req[q].permit \in Requests \cup {NoRequest}
      BY DEF TypeOK
    <3> SUFFICES ASSUME NEW q \in Requests
                 PROVE  /\ req'[q].epoch <= epoch
                        /\ req'[q].at \in {"idle", "claimed"} => req'[q].permit = NoRequest
                        /\ req'[q].at \in {"asking", "answered", "permit", "redeemed", "executed"} =>
                            req'[q].permit # NoRequest
                        /\ req'[q].permit # NoRequest =>
                            /\ KeyOf[req'[q].permit] = KeyOf[q] /\ OpOf[req'[q].permit] = OpOf[q]
                            /\ req'[req'[q].permit].at # "idle"
                            /\ req'[req'[q].permit].epoch = req'[q].epoch
                            /\ Metered(KeyOf[q]) => req'[q].permit = q
                        /\ req'[q].at \in {"permit", "redeemed", "executed"} => req'[q].epoch = epoch
                        /\ req'[q].at \in {"redeemed", "executed"} => redeemed[OpOf[q]] = q
                        /\ req'[q].at = "redeemed" => LeaseMax > 0
                        /\ req'[q].at = "executed" => ledger[OpOf[q]] # NoRequest
      BY <1>1 DEF PermitsRight
    <3>2. CASE q = r
      BY <1>1, <2>4, <2>5, <3>1, <3>2 DEF PermitsRight
    <3>3. CASE q # r
      <4>1. req'[q] = req[q]
        BY <2>4, <3>3
      <4> QED BY <2>5, <3>1, <4>1 DEF PermitsRight
    <3> QED BY <3>2, <3>3
  <2>9. \A q \in Requests : q # r => (Usable(q)' <=> Usable(q))
    BY <1>1, <2>4 DEF Usable
  <2>10. UsableOpen'
    <3> SUFFICES ASSUME NEW q \in Requests, Usable(q)' PROVE IsOpen(q)'
      BY DEF UsableOpen
    <3>1. CASE q = r
      <4>1. claim[k].until \in Nat
        BY <1>1 DEF TypeOK, Claims
      <4> QED BY <2>1, <2>2, <2>3, <2>4, <3>1, <4>1 DEF IsOpen, Open
    <3>2. CASE q # r
      BY <2>2, <2>4, <2>9, <3>2 DEF UsableOpen, IsOpen
    <3> QED BY <3>1, <3>2
  <2>11. ChargesRight'
    <3>1. ASSUME NEW q \in Requests, claim'[KeyOf[q]].eval = q, InFlight(claim[KeyOf[q]], boot)',
                 claim'[KeyOf[q]].state = "claimed", Metered(KeyOf[q])
          PROVE  booked'[q] = "reserved"
      <4>1. req'[q].at = "claimed" /\ KeyOf[q] \in Keys
        BY <3>1, ConstantTypes DEF InFlight
      <4>2. req[q].at = "claimed"
        BY <2>4, <4>1
      <4> QED BY <1>1, <1>3, <1>4, <3>1, <4>1, <4>2, FlightCharges
    <3>2. /\ \A q \in Requests : Usable(q) /\ Metered(KeyOf[q]) => booked'[q] \in Charged
          /\ EffectIsCharged'
      BY <1>1, <1>4, QuietCharges
    <3> QED BY <2>1, <2>9, <3>1, <3>2 DEF ChargesRight
  <2>12. Kept
    <3>1. \A q \in Requests :
            /\ req[q].at # "idle" => req'[q].at # "idle"
            /\ req'[q].at \in {"redeemed", "executed"} => req'[q] = req[q]
      BY <2>4, <2>5
    <3>2. \A e \in Requests : TookEffect(e)' => TookEffect(e)
      BY <1>1 DEF TookEffect
    <3> QED BY <1>3, <1>5, <2>6, <3>1, <3>2, StepKept
  <2> QED BY <1>2, <2>6, <2>7, <2>8, <2>10, <2>11, <2>12
<1> QED BY <1>6, <1>7 DEF Retransmit


-----------------------------------------------------------------------------
(* A request arrives                                                        *)

\* Nothing speaks yet of a request that has not arrived.
LEMMA IdleIsUnknown ==
    ASSUME IInv, NEW r \in Requests, req[r].at = "idle"
    PROVE  /\ req[r].permit = NoRequest
           /\ \A q \in Requests : req[q].permit # r
           /\ \A k \in Keys : claim[k].eval # r
           /\ ~Usable(r)
<1> USE DEF IInv
<1>1. r # NoRequest
  BY ConstantTypes
<1> QED BY <1>1 DEF PermitsRight, RowsRight, RowRight, Usable

\* What claimNow may do for the request r, on the row as it has advanced.
LEMMA EvaluateCases ==
    ASSUME IInv, NEW r \in Requests, Evaluate(r)
    PROVE  LET k == KeyOf[r]
               row == Advanced(k, boot)
           IN /\ req[r].at = "idle" /\ k \in Keys /\ boot \in Nat /\ row \in Claims
              /\ UNCHANGED <<now, boot, epoch, redeemed, ledger, records, sent, confirmed, misled>>
              /\ \A q \in Requests : q # r => req'[q] = req[q]
              /\ req'[r].epoch = epoch
              /\ \/ /\ row.state = "none" \/ row.state = "claimed"
                    /\ claim' = [claim EXCEPT ![k] = Insert(r)]
                    /\ req'[r].at = "claimed" /\ req'[r].permit = NoRequest
                    /\ Metered(k) => booked'[r] = "reserved"
                 \/ /\ claim' = [claim EXCEPT ![k] = row]
                    /\ req'[r].at = "done" /\ req'[r].permit = NoRequest
                 \/ /\ claim' = [claim EXCEPT ![k] = row]
                    /\ row.state = "permit_issued" /\ ~Metered(k)
                    /\ OpOf[row.eval] = OpOf[r] /\ row.epoch = epoch
                    /\ req'[r].at = "asking" /\ req'[r].permit = row.eval
              /\ QuietBooks
<1> USE DEF IInv
<1> DEFINE k == KeyOf[r]
           row == Advanced(k, boot)
           books == BookedAfter({k}, boot)
           abandoned == IF row.state = "claimed" /\ books[row.eval] = "reserved"
                        THEN [books EXCEPT ![row.eval] = "void"] ELSE books
           at(to) == [Idle EXCEPT !.at = to, !.epoch = epoch]
           asking == [at("asking") EXCEPT !.permit = row.eval]
<1>1. /\ k \in Keys /\ boot \in Nat /\ boot \in 1 .. MaxBoots
      /\ req \in [Requests -> Reqs]
  BY ConstantTypes DEF TypeOK, Reqs
<1>2. row \in Claims /\ books \in [Requests -> Bookings]
  BY <1>1, SweepTypes
<1>3. abandoned \in [Requests -> Bookings]
  BY <1>2 DEF Bookings
<1>4. /\ at("claimed").at = "claimed" /\ at("done").at = "done" /\ asking.at = "asking"
      /\ \A x : at(x).permit = NoRequest /\ at(x).epoch = epoch
      /\ asking.permit = row.eval /\ asking.epoch = epoch
  BY DEF Idle
<1>5. /\ req[r].at = "idle"
      /\ UNCHANGED <<now, boot, epoch, redeemed, ledger, records, sent, confirmed, misled>>
  BY DEF Evaluate, pepVars
<1>6. \/ /\ row.state = "none" \/ (row.state = "claimed" /\ ~InFlight(row, boot))
         /\ \/ /\ claim' = [claim EXCEPT ![k] = Insert(r)] /\ booked' = Reserve(r, abandoned)
               /\ req' = [req EXCEPT ![r] = at("claimed")]
            \/ /\ claim' = [claim EXCEPT ![k] = row] /\ booked' = abandoned
               /\ req' = [req EXCEPT ![r] = at("done")]
      \/ /\ row.state = "permit_issued" /\ ~Metered(k)
         /\ OpOf[row.eval] = OpOf[r] /\ row.epoch = epoch
         /\ claim' = [claim EXCEPT ![k] = row] /\ booked' = books
         /\ req' = [req EXCEPT ![r] = asking]
      \/ /\ claim' = [claim EXCEPT ![k] = row] /\ booked' = books
         /\ req' = [req EXCEPT ![r] = at("done")]
  <2> HIDE DEF row, books, abandoned, at, asking
  <2> QED BY DEF Evaluate, AdvanceOnly, Adoptable, Retransmittable, k, row, books, abandoned, at, asking
<1> HIDE DEF at, asking
<1>7. /\ \A q \in Requests : q # r => req'[q] = req[q]
      /\ req'[r].epoch = epoch
      /\ \/ /\ row.state = "none" \/ row.state = "claimed"
            /\ claim' = [claim EXCEPT ![k] = Insert(r)] /\ booked' = Reserve(r, abandoned)
            /\ req'[r].at = "claimed" /\ req'[r].permit = NoRequest
         \/ /\ claim' = [claim EXCEPT ![k] = row]
            /\ req'[r].at = "done" /\ req'[r].permit = NoRequest
         \/ /\ claim' = [claim EXCEPT ![k] = row]
            /\ row.state = "permit_issued" /\ ~Metered(k)
            /\ OpOf[row.eval] = OpOf[r] /\ row.epoch = epoch
            /\ req'[r].at = "asking" /\ req'[r].permit = row.eval
  <2> HIDE DEF row, books, abandoned
  <2> QED BY <1>1, <1>4, <1>6
<1>8. Metered(k) => Reserve(r, abandoned)[r] = "reserved"
  BY <1>3 DEF Reserve
<1>9. \A q \in Requests : q # r => Reserve(r, abandoned)[q] = abandoned[q]
  BY <1>3 DEF Reserve
<1>10. \A q \in Requests :
            \/ books[q] = booked[q]
            \/ books[q] = "held" /\ ~(claim[KeyOf[q]].eval = q /\ claim[KeyOf[q]].state = "claimed")
            \/ /\ claim[KeyOf[q]].eval = q /\ claim[KeyOf[q]].state = "claimed"
               /\ claim[KeyOf[q]].boot # boot
  BY DEF BookedAfter, Swept, Unknown
<1>11. \A q \in Requests :
            \/ abandoned[q] = books[q]
            \/ row.state = "claimed" /\ q = row.eval
  BY <1>2
<1>12. row.state = "claimed" => row = claim[k]
  BY <1>1, AdvancedAges
<1>13. row.state = "claimed" /\ row.eval # NoRequest => KeyOf[row.eval] = k
  BY <1>1, <1>12 DEF RowsRight, RowRight
<1>14. QuietBooks
  <2> SUFFICES ASSUME NEW q \in Requests, req[q].at # "idle"
               PROVE  LET own == claim[KeyOf[q]] IN
                      \/ booked'[q] = booked[q]
                      \/ booked'[q] = "held" /\ ~(own.eval = q /\ own.state = "claimed")
                      \/ own.eval = q /\ own.state = "claimed" /\ ~(own.boot = boot /\ req'[q].at = "claimed")
    BY <1>5 DEF QuietBooks
  <2>1. q # r /\ req'[q] = req[q] /\ q # NoRequest
    BY <1>5, <1>7, ConstantTypes
  <2> HIDE DEF row, books, abandoned
  <2>2. CASE booked'[q] = books[q]
    BY <1>10, <2>2
  <2>3. CASE booked'[q] = abandoned[q] /\ row.state = "claimed" /\ q = row.eval /\ ~InFlight(row, boot)
    BY <1>12, <1>13, <2>1, <2>3 DEF InFlight
  <2>4. booked' = books \/ (/\ row.state = "none" \/ (row.state = "claimed" /\ ~InFlight(row, boot))
                            /\ booked' = Reserve(r, abandoned) \/ booked' = abandoned)
    BY <1>6
  <2> QED BY <1>9, <1>11, <2>1, <2>2, <2>3, <2>4
<1> HIDE DEF row, books, abandoned
<1> QED BY <1>1, <1>2, <1>5, <1>7, <1>8, <1>14 DEF k, row


LEMMA EvaluateKeeps ==
    ASSUME IInv, NEW r \in Requests, Evaluate(r)
    PROVE  IInv' /\ Kept
<1> USE DEF IInv
<1> DEFINE k == KeyOf[r]
           row == Advanced(k, boot)
<1>1. /\ req[r].at = "idle" /\ k \in Keys /\ boot \in Nat /\ row \in Claims
      /\ UNCHANGED <<now, boot, epoch, redeemed, ledger, records, sent, confirmed, misled>>
      /\ \A q \in Requests : q # r => req'[q] = req[q]
      /\ req'[r].epoch = epoch
      /\ QuietBooks
  BY EvaluateCases
<1>2. \/ /\ row.state = "none" \/ row.state = "claimed"
         /\ claim' = [claim EXCEPT ![k] = Insert(r)]
         /\ req'[r].at = "claimed" /\ req'[r].permit = NoRequest
         /\ Metered(k) => booked'[r] = "reserved"
      \/ /\ claim' = [claim EXCEPT ![k] = row]
         /\ req'[r].at = "done" /\ req'[r].permit = NoRequest
      \/ /\ claim' = [claim EXCEPT ![k] = row]
         /\ row.state = "permit_issued" /\ ~Metered(k)
         /\ OpOf[row.eval] = OpOf[r] /\ row.epoch = epoch
         /\ req'[r].at = "asking" /\ req'[r].permit = row.eval
  BY EvaluateCases
<1>3. /\ req[r].permit = NoRequest /\ ~Usable(r) /\ r # NoRequest
      /\ \A q \in Requests : req[q].permit # r
      /\ \A j \in Keys : claim[j].eval # r
  BY <1>1, IdleIsUnknown, ConstantTypes
<1>4. TypeOK' /\ claim \in [Keys -> Claims]
  BY EvaluateTypes DEF TypeOK
<1>5. Aged(claim[k], row) /\ (row.state \in {"permit_issued", "claimed"} => row = claim[k])
  BY <1>1, AdvancedAges
<1> HIDE DEF row
<1>6. \A j \in Keys : j # k => claim'[j] = claim[j]
  BY <1>1, <1>2, <1>4
<1>7. \/ /\ claim'[k] = Insert(r)
         /\ row.state = "none" \/ row.state = "claimed"
         /\ req'[r].at = "claimed" /\ req'[r].permit = NoRequest
         /\ Metered(k) => booked'[r] = "reserved"
      \/ claim'[k] = row /\ req'[r].at # "claimed"
  BY <1>1, <1>2, <1>4
<1>8. /\ Insert(r).eval = r /\ Insert(r).state = "claimed" /\ Insert(r).epoch = epoch
      /\ Insert(r).by = NoRequest /\ Insert(r).outcome = "none"
  BY DEF Insert, NoClaim
<1>9. \A q \in Requests : req[q].at # "idle" => req'[q] = req[q]
  BY <1>1
<1>10. req'[r].permit # NoRequest =>
            /\ req'[r].permit \in Requests /\ KeyOf[req'[r].permit] = k /\ OpOf[req'[r].permit] = OpOf[r]
            /\ req[req'[r].permit].at # "idle" /\ req[req'[r].permit].epoch = epoch
            /\ ~Metered(k) /\ claim[k].state = "permit_issued" /\ claim[k].eval = req'[r].permit
            /\ req'[r].at = "asking"
  BY <1>1, <1>2, <1>5 DEF RowsRight, RowRight, Claims
<1>11. RowsRight'
  <2>1. ASSUME NEW j \in Keys, Aged(claim[j], claim'[j]) PROVE RowRight(j)'
    <3>1. claim[j].state = "claimed" =>
            \A q \in Requests : req'[q].permit # req[q].permit => req'[q].permit # claim[j].eval
      <4> SUFFICES ASSUME claim[j].state = "claimed", req'[r].permit # NoRequest
                   PROVE  req'[r].permit # claim[j].eval
        BY <1>1, <1>3, <2>1 DEF RowsRight, RowRight
      <4>1. claim[j].eval # NoRequest => KeyOf[claim[j].eval] = j
        BY DEF RowsRight, RowRight
      <4> QED BY <1>10, <4>1, ConstantTypes
    <3> QED BY <1>9, <2>1, <3>1, AgedRowRight
  <2>2. ASSUME claim'[k] = Insert(r), req'[r].permit = NoRequest, req'[r].at = "claimed"
        PROVE  RowRight(k)'
    <3>1. \A q \in Requests : req'[q].permit # r
      BY <1>1, <1>3, <2>2
    <3> QED BY <1>1, <1>3, <1>8, <2>2, <3>1 DEF RowRight
  <2>3. \A j \in Keys : j # k => Aged(claim[j], claim'[j])
    BY <1>6 DEF Aged
  <2> QED BY <1>5, <1>7, <2>1, <2>2, <2>3 DEF RowsRight
<1>12. PermitsRight'
  <2>1. \A q \in Requests : req[q].permit \in Requests \cup {NoRequest}
    BY DEF TypeOK
  <2> SUFFICES ASSUME NEW q \in Requests
               PROVE  /\ req'[q].epoch <= epoch
                      /\ req'[q].at \in {"idle", "claimed"} => req'[q].permit = NoRequest
                      /\ req'[q].at \in {"asking", "answered", "permit", "redeemed", "executed"} =>
                          req'[q].permit # NoRequest
                      /\ req'[q].permit # NoRequest =>
                          /\ KeyOf[req'[q].permit] = KeyOf[q] /\ OpOf[req'[q].permit] = OpOf[q]
                          /\ req'[req'[q].permit].at # "idle"
                          /\ req'[req'[q].permit].epoch = req'[q].epoch
                          /\ Metered(KeyOf[q]) => req'[q].permit = q
                      /\ req'[q].at \in {"permit", "redeemed", "executed"} => req'[q].epoch = epoch
                      /\ req'[q].at \in {"redeemed", "executed"} => redeemed[OpOf[q]] = q
                      /\ req'[q].at = "redeemed" => LeaseMax > 0
                      /\ req'[q].at = "executed" => ledger[OpOf[q]] # NoRequest
    BY <1>1 DEF PermitsRight
  <2>2. CASE q = r
    <3>1. req'[r].at \in {"claimed", "done", "asking"} /\ (req'[r].at = "asking" => req'[r].permit # NoRequest)
      BY <1>1, <1>2, <1>5 DEF RowsRight, RowRight
    <3>2. req'[r].permit # NoRequest => req'[req'[r].permit] = req[req'[r].permit]
      BY <1>9, <1>10
    <3>3. epoch <= epoch
      BY ConstantTypes DEF TypeOK
    <3> QED BY <1>1, <1>2, <1>10, <2>2, <3>1, <3>2, <3>3
  <2>3. CASE q # r
    <3>1. req'[q] = req[q]
      BY <1>1, <2>3
    <3>2. req[q].permit # NoRequest => req'[req[q].permit] = req[req[q].permit]
      BY <1>1, <1>3, <2>1
    <3> QED BY <3>1, <3>2 DEF PermitsRight
  <2> QED BY <2>2, <2>3
<1>13. RedeemersRight' /\ LedgerRight' /\ DispositionsRight'
  <2>1. \A j \in Keys : Aged(claim[j], claim'[j]) \/ claim'[j].by = NoRequest
    BY <1>5, <1>6, <1>7, <1>8 DEF Aged
  <2>2. \A e \in Requests, q \in Requests, x \in Dispositions : Disposed(e, q, x)' => Disposed(e, q, x)
    BY <1>1, <2>1, NothingDisposed
  <2>3. \A q \in Requests :
            /\ req[q].at \in {"redeemed", "executed", "done"} => req'[q] = req[q]
            /\ req[q].at # "idle" => req'[q].epoch = req[q].epoch
            /\ req[q].permit # NoRequest => req'[q].permit = req[q].permit
            /\ req'[q].at = "redeemed" => req[q].at = "redeemed"
    BY <1>1, <1>2, <1>3
  <2> QED BY <1>1, <2>2, <2>3, OthersStay
<1>14. ASSUME NEW q \in Requests, Usable(q)'
       PROVE  Usable(q) /\ q # r /\ req'[q] = req[q]
  <2>1. q # r
    BY <1>2, <1>14 DEF Usable
  <2> QED BY <1>1, <1>14, <2>1 DEF Usable
<1>15. UsableOpen'
  <2> SUFFICES ASSUME NEW q \in Requests, Usable(q)' PROVE IsOpen(q)'
    BY DEF UsableOpen
  <2>1. Usable(q) /\ req'[q] = req[q] /\ KeyOf[q] \in Keys
    BY <1>14, ConstantTypes
  <2>2. CASE KeyOf[q] # k
    BY <1>6, <2>1, <2>2 DEF UsableOpen, IsOpen
  <2>3. CASE KeyOf[q] = k
    <3>1. row.eval = req[q].permit /\ row.state \in Open /\ req[q].last <= row.until
      BY <1>5, <2>1, <2>3, OpenAges
    <3>2. claim'[k] = row
      BY <1>7, <3>1 DEF Open
    <3> QED BY <2>1, <2>3, <3>1, <3>2 DEF IsOpen
  <2> QED BY <2>2, <2>3
<1>16. ChargesRight'
  <2>1. ASSUME NEW q \in Requests, claim'[KeyOf[q]].eval = q, InFlight(claim[KeyOf[q]], boot)',
               claim'[KeyOf[q]].state = "claimed", Metered(KeyOf[q])
        PROVE  booked'[q] = "reserved"
    <3>1. req'[q].at = "claimed" /\ KeyOf[q] \in Keys
      BY <2>1, ConstantTypes DEF InFlight
    <3>2. CASE q = r
      BY <1>7, <2>1, <3>1, <3>2
    <3>3. CASE q # r
      <4>1. Aged(claim[KeyOf[q]], claim'[KeyOf[q]])
        BY <1>5, <1>6, <1>7, <1>8, <2>1, <3>1, <3>3 DEF Aged
      <4> QED BY <1>1, <2>1, <3>1, <3>3, <4>1, FlightCharges
    <3> QED BY <3>2, <3>3
  <2>2. /\ \A q \in Requests : Usable(q) /\ Metered(KeyOf[q]) => booked'[q] \in Charged
        /\ EffectIsCharged'
    BY <1>1, QuietCharges
  <2> QED BY <1>14, <2>1, <2>2 DEF ChargesRight
<1>17. Kept
  <2>1. \A j \in Keys : \/ Aged(claim[j], claim'[j])
                        \/ claim'[j].outcome # "unredeemed" /\ req[claim'[j].eval].at = "idle"
    BY <1>1, <1>5, <1>6, <1>7, <1>8 DEF Aged
  <2>2. \A e \in Requests, q \in Requests, x \in Dispositions : Disposed(e, q, x)' => Disposed(e, q, x)
    <3>1. \A j \in Keys : Aged(claim[j], claim'[j]) \/ claim'[j].by = NoRequest
      BY <1>5, <1>6, <1>7, <1>8 DEF Aged
    <3> QED BY <1>1, <3>1, NothingDisposed
  <2>3. \A q \in Requests :
            /\ req[q].at # "idle" => req'[q].at # "idle"
            /\ req'[q].at \in {"redeemed", "executed"} => req'[q] = req[q]
    BY <1>1, <1>2
  <2>4. /\ \A e \in Requests : TookEffect(e)' => TookEffect(e)
        /\ now' >= now
    BY <1>1, ConstantTypes DEF TookEffect, TypeOK
  <2> QED BY <2>1, <2>2, <2>3, <2>4, StepKept
<1> QED BY <1>4, <1>11, <1>12, <1>13, <1>15, <1>16, <1>17


-----------------------------------------------------------------------------
(* A settlement is applied                                                  *)

\* The claim it settles.
SettledRow(row, m) ==
    [row EXCEPT !.state = IF m.outcome = "completed" THEN "completed" ELSE "failed",
                !.by = m.by, !.outcome = m.outcome, !.retain = now + Horizon]

\* Either it settles an open claim of its permit, or the row only advances and
\* its reservation is at most committed.
LEMMA SettleCases ==
    ASSUME IInv, NEW m \in sent \cup confirmed, Settle(m)
    PROVE  LET k == KeyOf[m.permit]
               row == Advanced(k, boot)
               books == BookedAfter({k}, boot)
           IN /\ m.permit \in Requests /\ m.by \in Requests
              /\ m.outcome \in {"completed", "suppressed", "unredeemed"}
              /\ k \in Keys /\ boot \in Nat /\ row \in Claims /\ Aged(claim[k], row)
              /\ books \in [Requests -> Bookings]
              /\ UNCHANGED <<now, boot, req, epoch, redeemed, ledger, records, misled>>
              /\ sent' \cup confirmed' \subseteq sent \cup confirmed
              /\ m \in confirmed \/ Fresh(m)
              /\ \A q \in Requests : q # m.permit => booked'[q] = books[q]
              /\ \/ /\ row.eval = m.permit /\ row.by = NoRequest
                    /\ claim[k].eval = m.permit /\ claim[k].state \in Open /\ row.state \in Open
                    /\ m.outcome = "unredeemed" => LeaseOver(row)
                    /\ claim' = [claim EXCEPT ![k] = SettledRow(row, m)]
                    /\ booked'[m.permit] = SettledBooking(books[m.permit], m.outcome)
                 \/ /\ claim' = [claim EXCEPT ![k] = row]
                    /\ \/ booked'[m.permit] = books[m.permit]
                       \/ /\ booked'[m.permit] = "committed"
                          /\ booked[m.permit] = "reserved" => row.eval = m.permit /\ row.by # NoRequest
<1> USE DEF IInv
<1> DEFINE k == KeyOf[m.permit]
           row == Advanced(k, boot)
           books == BookedAfter({k}, boot)
<1>1. /\ m.permit \in Requests /\ m.by \in Requests
      /\ m.outcome \in {"completed", "suppressed", "unredeemed"}
      /\ k \in Keys /\ boot \in Nat /\ boot \in 1 .. MaxBoots
  BY ConstantTypes DEF TypeOK, Settlements
<1>2. row \in Claims /\ Aged(claim[k], row) /\ books \in [Requests -> Bookings]
  BY <1>1, AdvancedAges, SweepTypes
<1>3. /\ UNCHANGED <<now, boot, req, epoch, redeemed, ledger, records, misled>>
      /\ sent' \cup confirmed' \subseteq sent \cup confirmed
      /\ m \in confirmed \/ Fresh(m)
      /\ ApplySettlement(m)
  BY DEF Settle, pepVars
<1> HIDE DEF row, books
<1>4. \/ /\ claim[k].eval = m.permit /\ row.eval = m.permit /\ row.by = NoRequest
         /\ Settleable(row, m.outcome)
         /\ claim' = [claim EXCEPT ![k] = SettledRow(row, m)]
         /\ booked' = [books EXCEPT ![m.permit] = SettledBooking(@, m.outcome)]
      \/ /\ claim' = [claim EXCEPT ![k] = row]
         /\ \E from \in SUBSET {"reserved", "held", "released"} :
                /\ from # {} => from = {"released"} \/ (row.eval = m.permit /\ row.by # NoRequest)
                /\ booked' = IF booked[m.permit] \in from
                             THEN [books EXCEPT ![m.permit] = "committed"] ELSE books
  <2>1. CASE /\ claim[k].eval = m.permit /\ row.eval = m.permit /\ row.by = NoRequest
             /\ Settleable(row, m.outcome)
             /\ claim' = [claim EXCEPT ![k] = SettledRow(row, m)]
             /\ booked' = [books EXCEPT ![m.permit] = SettledBooking(@, m.outcome)]
    BY <2>1
  <2>2. CASE /\ claim[k].eval = m.permit /\ row.eval = m.permit /\ row.by # NoRequest
             /\ claim' = [claim EXCEPT ![k] = row]
             /\ CommitBooking(m.permit, IF m.outcome = "completed"
                                        THEN {"reserved", "held", "released"} ELSE {})
    BY <2>2 DEF CommitBooking, books
  <2>3. CASE /\ claim' = [claim EXCEPT ![k] = row]
             /\ CommitBooking(m.permit,
                   IF m.outcome = "completed" /\ claim[k].eval = m.permit THEN {"released"} ELSE {})
    BY <2>3 DEF CommitBooking, books
  <2> QED BY <1>3, <2>1, <2>2, <2>3 DEF ApplySettlement, SettledRow, row, books
<1>5. \/ /\ row.eval = m.permit /\ row.by = NoRequest
         /\ claim[k].eval = m.permit /\ claim[k].state \in Open /\ row.state \in Open
         /\ m.outcome = "unredeemed" => LeaseOver(row)
         /\ claim' = [claim EXCEPT ![k] = SettledRow(row, m)]
         /\ booked' = [books EXCEPT ![m.permit] = SettledBooking(@, m.outcome)]
      \/ /\ claim' = [claim EXCEPT ![k] = row]
         /\ \/ booked' = books
            \/ /\ booked' = [books EXCEPT ![m.permit] = "committed"]
               /\ booked[m.permit] = "reserved" => row.eval = m.permit /\ row.by # NoRequest
  <2>1. claim[k] \in Claims
    BY <1>1 DEF TypeOK
  <2>2. Settleable(row, m.outcome) => row.state \in Open /\ (m.outcome = "unredeemed" => LeaseOver(row))
    BY DEF Settleable, ProofTaken, Open
  <2>3. row.state \in Open => claim[k].state \in Open
    BY <1>2, <2>1, AgedRow
  <2> QED BY <1>4, <2>2, <2>3
<1>6. /\ \A q \in Requests : q # m.permit => booked'[q] = books[q]
      /\ booked' = [books EXCEPT ![m.permit] = SettledBooking(@, m.outcome)] =>
            booked'[m.permit] = SettledBooking(books[m.permit], m.outcome)
      /\ booked' = [books EXCEPT ![m.permit] = "committed"] => booked'[m.permit] = "committed"
  BY <1>1, <1>2, <1>5
<1> QED BY <1>1, <1>2, <1>3, <1>5, <1>6 DEF row, books, k

\* No permit in use is settled: a disposition is of an attempt that is over, a
\* proof is taken only once no permit of the claim can be used.
LEMMA SettledIsUnused ==
    ASSUME IInv, NEW m \in sent \cup confirmed, m.permit \in Requests, m.by \in Requests,
           m.outcome \in {"completed", "suppressed", "unredeemed"},
           NEW q \in Requests, Usable(q), NEW row, Aged(claim[KeyOf[q]], row),
           m.outcome = "unredeemed" => LeaseOver(row)
    PROVE  req[q].permit # m.permit
<1> USE DEF IInv
<1> SUFFICES ASSUME req[q].permit = m.permit PROVE FALSE
  OBVIOUS
<1>1. CASE m.outcome = "unredeemed"
  <2>1. req[q].last <= row.until /\ now <= req[q].last /\ now > row.until + LeaseMax
    BY <1>1, OpenAges DEF LeaseOver, Usable
  <2>2. row.until = claim[KeyOf[q]].until
    BY OpenAges, AgedRow, ConstantTypes DEF UsableOpen, IsOpen, TypeOK
  <2>3. now \in Nat /\ req[q].last \in Nat /\ row.until \in Nat /\ LeaseMax \in Nat
    BY <2>2, ConstantTypes DEF TypeOK, Claims
  <2> QED BY <2>1, <2>3
<1>2. CASE m.outcome \in Dispositions
  <2>1. Disposed(m.permit, m.by, m.outcome)
    BY DEF Disposed
  <2>2. /\ req[m.by].at \in {"executed", "done"}
        /\ req[m.permit].epoch = epoch => redeemed[OpOf[m.permit]] = m.by
    BY <1>2, <2>1 DEF DispositionsRight
  <2>3. /\ req[q].at \in {"permit", "redeemed"} /\ req[q].epoch = epoch
        /\ req[q].at = "permit" => redeemed[OpOf[q]] = NoRequest
        /\ req[q].at = "redeemed" => redeemed[OpOf[q]] = q
    BY DEF Usable, PermitsRight
  <2>4. OpOf[m.permit] = OpOf[q] /\ req[m.permit].epoch = epoch
    BY <2>3, ConstantTypes DEF PermitsRight
  <2> QED BY <2>2, <2>3, <2>4, ConstantTypes
<1> QED BY <1>1, <1>2 DEF Dispositions


LEMMA SettleKeeps ==
    ASSUME IInv, NEW m \in sent \cup confirmed, Settle(m)
    PROVE  IInv' /\ Kept
<1> USE DEF IInv
<1> DEFINE k == KeyOf[m.permit]
           row == Advanced(k, boot)
           books == BookedAfter({k}, boot)
           settles == /\ row.eval = m.permit /\ row.by = NoRequest
                      /\ claim[k].eval = m.permit /\ claim[k].state \in Open /\ row.state \in Open
                      /\ m.outcome = "unredeemed" => LeaseOver(row)
                      /\ claim' = [claim EXCEPT ![k] = SettledRow(row, m)]
                      /\ booked'[m.permit] = SettledBooking(books[m.permit], m.outcome)
           advances == /\ claim' = [claim EXCEPT ![k] = row]
                       /\ \/ booked'[m.permit] = books[m.permit]
                          \/ /\ booked'[m.permit] = "committed"
                             /\ booked[m.permit] = "reserved" => row.eval = m.permit /\ row.by # NoRequest
<1>1. /\ m.permit \in Requests /\ m.by \in Requests
      /\ m.outcome \in {"completed", "suppressed", "unredeemed"}
      /\ k \in Keys /\ boot \in Nat /\ row \in Claims /\ Aged(claim[k], row)
      /\ books \in [Requests -> Bookings]
      /\ UNCHANGED <<now, boot, req, epoch, redeemed, ledger, records, misled>>
      /\ sent' \cup confirmed' \subseteq sent \cup confirmed
      /\ m \in confirmed \/ Fresh(m)
      /\ \A q \in Requests : q # m.permit => booked'[q] = books[q]
      /\ settles \/ advances
  BY SettleCases
<1>2. /\ TypeOK' /\ claim \in [Keys -> Claims] /\ claim[k] \in Claims
      /\ m.by # NoRequest /\ m.permit # NoRequest
  BY <1>1, SettleTypes, ConstantTypes DEF TypeOK
<1>3. /\ RowRight(k)
      /\ row.state \in Open => row.by = NoRequest
      /\ row.state = "claimed" => row = claim[k]
  <2>1. RowRight(k) /\ claim[k] \in Claims /\ Aged(claim[k], row)
    BY <1>1, <1>2 DEF RowsRight
  <2>2. claim[k].state \in Open => claim[k].by = NoRequest
    BY ONLY <2>1 DEF RowRight, Open
  <2>3. /\ row.state \in Open => claim[k].state \in Open
        /\ row.state = "claimed" => row = claim[k]
        /\ claim[k].state \in Open => row.by = claim[k].by
    BY ONLY <2>1, AgedRow
  <2> QED BY ONLY <2>1, <2>2, <2>3
<1>4. \A q \in Requests :
            \/ books[q] = booked[q]
            \/ books[q] = "held" /\ ~(claim[KeyOf[q]].eval = q /\ claim[KeyOf[q]].state = "claimed")
            \/ /\ claim[KeyOf[q]].eval = q /\ claim[KeyOf[q]].state = "claimed"
               /\ claim[KeyOf[q]].boot # boot
  BY DEF BookedAfter, Swept, Unknown
<1> HIDE DEF row, books
<1>5. SettledRow(row, m) = [row EXCEPT !.state = IF m.outcome = "completed" THEN "completed" ELSE "failed",
                                      !.by = m.by, !.outcome = m.outcome, !.retain = now + Horizon]
  BY DEF SettledRow
<1>6. /\ SettledRow(row, m).eval = row.eval /\ SettledRow(row, m).epoch = row.epoch
      /\ SettledRow(row, m).by = m.by /\ SettledRow(row, m).outcome = m.outcome
      /\ SettledRow(row, m).state = IF m.outcome = "completed" THEN "completed" ELSE "failed"
  BY <1>1, <1>5 DEF Claims
<1> HIDE DEF settles, advances
<1>7. /\ \A j \in Keys : j # k => claim'[j] = claim[j]
      /\ settles => claim'[k] = SettledRow(row, m)
      /\ advances => claim'[k] = row
  BY <1>1, <1>2 DEF settles, advances
<1>8. Quiet /\ now' >= now
  BY <1>1, ConstantTypes DEF Quiet, TypeOK
<1>9. \A q \in Requests : Usable(q)' <=> Usable(q)
  BY <1>1 DEF Usable
<1>10. RowsRight'
  <2>1. ASSUME NEW j \in Keys, Aged(claim[j], claim'[j]) PROVE RowRight(j)'
    BY <1>1, <2>1, AgedRowRight
  <2>2. ASSUME settles PROVE RowRight(k)'
    <3>1. /\ KeyOf[m.permit] = k /\ req[m.permit].at # "idle" /\ claim[k].epoch = req[m.permit].epoch
      BY <1>1, <1>2, <1>3, <2>2 DEF settles, RowRight
    <3>2. row.epoch = claim[k].epoch
      BY <1>1, <1>2, <2>2, AgedRow DEF settles
    <3> QED BY <1>1, <1>2, <1>6, <1>7, <2>2, <3>1, <3>2 DEF settles, RowRight
  <2>3. \A j \in Keys : j # k => Aged(claim[j], claim'[j])
    BY <1>7 DEF Aged
  <2> QED BY <1>1, <1>7, <2>1, <2>2, <2>3 DEF RowsRight
<1>11. PermitsRight' /\ RedeemersRight' /\ LedgerRight'
  BY <1>1, <1>2, <1>8, QuietPermits
<1>12. ASSUME settles, NEW q \in Requests, Usable(q)
       PROVE  req[q].permit # m.permit
  <2>1. CASE KeyOf[q] = k
    BY <1>1, <1>12, <2>1, SettledIsUnused DEF settles
  <2>2. CASE KeyOf[q] # k
    BY <1>2, <1>12, <2>2 DEF Usable, PermitsRight
  <2> QED BY <2>1, <2>2
<1>13. UsableOpen'
  <2> SUFFICES ASSUME NEW q \in Requests, Usable(q) PROVE IsOpen(q)'
    BY <1>9 DEF UsableOpen
  <2>1. KeyOf[q] \in Keys
    BY ConstantTypes
  <2>2. CASE KeyOf[q] # k
    BY <1>1, <1>7, <2>1, <2>2 DEF UsableOpen, IsOpen
  <2>3. CASE KeyOf[q] = k
    <3>1. row.eval = req[q].permit /\ row.state \in Open /\ req[q].last <= row.until
      BY <1>1, <2>3, OpenAges
    <3>2. ~settles
      BY <1>12, <3>1 DEF settles
    <3> QED BY <1>1, <1>7, <2>3, <3>1, <3>2 DEF IsOpen
  <2> QED BY <2>2, <2>3
<1>14. \A e \in Requests, r \in Requests, x \in Dispositions : Disposed(e, r, x)' => Disposed(e, r, x)
  <2>1. ASSUME NEW e \in Requests, NEW r \in Requests, NEW x \in Dispositions, Disposed(e, r, x)'
        PROVE  Disposed(e, r, x)
    <3>1. CASE settles /\ KeyOf[e] = k
      <4>1. ASSUME claim'[k].eval = e, claim'[k].by = r, claim'[k].outcome = x
            PROVE  Disposed(e, r, x)
        <5>1. e = m.permit /\ r = m.by /\ x = m.outcome
          BY <1>6, <1>7, <3>1, <4>1 DEF settles
        <5> QED BY <5>1 DEF Disposed
      <4> QED BY <1>1, <2>1, <3>1, <4>1 DEF Disposed
    <3>2. CASE ~(settles /\ KeyOf[e] = k)
      <4>1. KeyOf[e] \in Keys /\ Aged(claim[KeyOf[e]], claim'[KeyOf[e]])
        BY <1>1, <1>7, <3>2, ConstantTypes DEF Aged
      <4>2. [permit |-> e, by |-> r, outcome |-> x] \in records' => Disposed(e, r, x)
        BY <1>1 DEF Disposed
      <4>3. \A n \in sent' \cup confirmed' :
                n.permit = e /\ n.by = r /\ n.outcome = x => Disposed(e, r, x)
        BY <1>1 DEF Disposed
      <4>4. ASSUME claim'[KeyOf[e]].eval = e, claim'[KeyOf[e]].by = r, claim'[KeyOf[e]].outcome = x
            PROVE  Disposed(e, r, x)
        <5>1. claim[KeyOf[e]] \in Claims /\ claim'[KeyOf[e]] # NoClaim
          BY <4>1, <4>4, ConstantTypes DEF NoClaim, TypeOK
        <5>2. claim[KeyOf[e]].eval = e /\ claim[KeyOf[e]].by = r /\ claim[KeyOf[e]].outcome = x
          BY <4>1, <4>4, <5>1, AgedRow
        <5> QED BY <5>2 DEF Disposed
      <4> QED BY <2>1, <4>2, <4>3, <4>4 DEF Disposed
    <3> QED BY <3>1, <3>2
  <2> QED BY <2>1
<1>15. DispositionsRight'
  BY <1>1, <1>2, <1>8, <1>14, QuietDispositions
<1>16. ChargesRight'
  <2>1. ASSUME NEW q \in Requests, claim'[KeyOf[q]].eval = q, InFlight(claim[KeyOf[q]], boot)',
               claim'[KeyOf[q]].state = "claimed", Metered(KeyOf[q])
        PROVE  booked'[q] = "reserved"
    <3>1. KeyOf[q] \in Keys
      BY ConstantTypes
    <3>2. ~(settles /\ KeyOf[q] = k)
      BY <1>6, <1>7, <2>1
    <3>3. claim'[KeyOf[q]] = claim[KeyOf[q]] /\ (KeyOf[q] = k => row = claim[k])
      BY <1>1, <1>3, <1>7, <2>1, <3>1, <3>2
    <3>4. booked[q] = "reserved" /\ claim[KeyOf[q]].boot = boot
      BY <1>1, <2>1, <3>3 DEF ChargesRight, InFlight
    <3>5. books[q] = "reserved"
      BY <1>4, <2>1, <3>3, <3>4
    <3>6. q = m.permit => advances /\ row.by = NoRequest
      BY <1>1, <2>1, <3>2, <3>3 DEF RowsRight, RowRight
    <3> QED BY <1>1, <3>4, <3>5, <3>6 DEF advances
  <2>2. ASSUME NEW q \in Requests, Usable(q), Metered(KeyOf[q])
        PROVE  booked'[q] \in Charged
    <3>1. booked[q] \in Charged /\ claim[KeyOf[q]].state \in Open /\ req[q].permit = q
      BY <2>2 DEF ChargesRight, UsableOpen, IsOpen, PermitsRight, Usable
    <3>2. books[q] \in Charged
      BY <1>4, <3>1 DEF Charged, Open
    <3>3. q = m.permit => advances
      BY <1>1, <1>12, <2>2, <3>1
    <3> QED BY <1>1, <3>2, <3>3 DEF advances, Charged
  <2>3. EffectIsCharged'
    <3> SUFFICES ASSUME NEW o \in Ops, ledger[o] # NoRequest, Metered(KeyOf[ledger[o]]),
                        ledger[o] \notin misled
                 PROVE  booked'[ledger[o]] \in Charged
      BY <1>1 DEF EffectIsCharged
    <3> DEFINE e == ledger[o]
    <3>1. e \in Requests /\ booked[e] \in Charged
      BY DEF ChargesRight, EffectIsCharged, TypeOK
    <3>2. ~(claim[KeyOf[e]].eval = e /\ claim[KeyOf[e]].state = "claimed")
      BY <3>1, ConstantTypes DEF LedgerRight, RowsRight, RowRight
    <3>3. books[e] \in Charged
      BY <1>4, <3>1, <3>2 DEF Charged
    <3>4. CASE e # m.permit
      BY <1>1, <3>1, <3>3, <3>4
    <3>5. CASE e = m.permit /\ advances
      BY <3>3, <3>5 DEF advances, Charged
    <3>6. CASE e = m.permit /\ settles
      <4>1. m.outcome # "suppressed"
        <5>1. m.outcome = "suppressed" => Disposed(m.permit, m.by, "suppressed")
          BY DEF Disposed
        <5> QED BY <1>1, <3>6, <5>1 DEF DispositionsRight, Dispositions, TookEffect
      <4>2. booked'[e] = SettledBooking(books[e], m.outcome)
        BY <3>6 DEF settles
      <4> QED BY <1>1, <3>3, <4>1, <4>2 DEF SettledBooking, Charged
    <3> QED BY <1>1, <3>4, <3>5, <3>6
  <2> QED BY <1>9, <2>1, <2>2, <2>3 DEF ChargesRight
<1>17. Kept
  <2>1. \A j \in Keys :
            \/ Aged(claim[j], claim'[j])
            \/ /\ claim'[j].eval = claim[j].eval /\ claim'[j].until = claim[j].until
               /\ claim'[j].outcome # "unredeemed" \/ Proved(j)
    <3>1. CASE advances
      BY <1>1, <1>7, <3>1 DEF Aged
    <3>2. CASE settles
      <4>1. row.until = claim[k].until /\ SettledRow(row, m).until = row.until
        BY <1>1, <1>2, <1>5, <3>2, AgedRow DEF settles, Claims
      <4>2. m.outcome = "unredeemed" => Proved(k)
        BY <1>1, <3>2, <4>1 DEF settles, Proved, LeaseOver
      <4> QED BY <1>6, <1>7, <3>2, <4>1, <4>2 DEF settles, Aged
    <3> QED BY <1>1, <3>1, <3>2
  <2>2. \A r \in Requests :
            /\ req[r].at # "idle" => req'[r].at # "idle"
            /\ req'[r].at \in {"redeemed", "executed"} => req'[r] = req[r]
    BY <1>1
  <2>3. \A e \in Requests : TookEffect(e)' => TookEffect(e)
    BY <1>1 DEF TookEffect
  <2> QED BY <1>8, <1>14, <2>1, <2>2, <2>3, StepKept
<1> QED BY <1>2, <1>10, <1>11, <1>13, <1>16, <1>17, <1>15

-----------------------------------------------------------------------------
(* The theorems                                                             *)

\* No claim, request, effect or record at first.
LEMMA InitIInv ==
    ASSUME Init PROVE IInv
<1> USE ConstantTypes DEF Init
<1>1. TypeOK
  BY DEF TypeOK, Reqs, Charged
<1>2. RowsRight
  BY DEF RowsRight, RowRight, NoClaim
<1>3. PermitsRight
  BY DEF PermitsRight, Idle
<1>4. RedeemersRight /\ LedgerRight
  BY DEF RedeemersRight, LedgerRight
<1>5. \A r \in Requests : ~Usable(r)
  BY DEF Usable, Idle
<1>6. \A e \in Requests, r \in Requests, x \in Dispositions : ~Disposed(e, r, x)
  BY DEF Disposed, NoClaim
<1>7. DispositionsRight
  BY <1>6 DEF DispositionsRight
<1>8. ChargesRight
  BY <1>5 DEF ChargesRight, EffectIsCharged, NoClaim
<1> QED BY <1>1, <1>2, <1>3, <1>4, <1>5, <1>7, <1>8 DEF IInv, UsableOpen

\* Every step keeps it.
LEMMA StepIInv ==
    ASSUME IInv, [Next]_vars PROVE IInv' /\ Kept
<1>1. ASSUME NEW r \in Requests,
             \/ Evaluate(r) \/ Persist(r) \/ PersistFails(r)
             \/ AnswerConsumption(r) \/ Retransmit(r)
             \/ Redeem(r) \/ Refuse(r) \/ Suppress(r) \/ Commit(r) \/ Report(r)
             \/ OperatorExecuted(r) \/ OperatorNotExecuted(r)
      PROVE  IInv' /\ Kept
  BY <1>1, EvaluateKeeps, PersistKeeps, PersistFailsKeeps, RefuseKeeps, RetransmitKeeps,
     RedeemKeeps, ReportKeeps, CommitKeeps, OperatorKeeps
<1>2. ASSUME NEW m \in sent \cup confirmed, AskRedeemer(m) \/ Settle(m) \/ Lose(m)
      PROVE  IInv' /\ Kept
  <2>1. AskRedeemer(m) \/ Lose(m) => m \in sent
    BY DEF AskRedeemer, Lose
  <2> QED BY <1>2, <2>1, CallKeeps, SettleKeeps
<1>3. ASSUME NEW k \in Keys, Reconcile(k) PROVE IInv' /\ Kept
  BY <1>3, ReconcileKeeps
<1>4. CASE Sweep \/ RestartPDP \/ RestartPEP \/ Tick \/ UNCHANGED vars
  BY <1>4, SweepKeeps, RestartPDPKeeps, RestartPEPKeeps, TickKeeps
<1> QED BY <1>1, <1>2, <1>3, <1>4 DEF Next

\* Every variable keeps to its range, whatever the constants.
THEOREM TypeCorrect == Spec => []TypeOK
<1>1. Init => IInv
  BY InitIInv
<1>2. IInv /\ [Next]_vars => IInv'
  BY StepIInv
<1>3. IInv => TypeOK
  BY DEF IInv
<1> QED BY <1>1, <1>2, <1>3, PTL DEF Spec

\* While a permit can still bring about an effect its claim is open and for that
\* permit: neither a settlement, nor the end of the reconciliation window, nor
\* another evaluation of the key has taken the row from under it.
THEOREM PermitsInUseAreOpen == Spec => []UsableIsOpen
<1>1. Init => IInv
  BY InitIInv
<1>2. IInv /\ [Next]_vars => IInv'
  BY StepIInv
<1>3. IInv => UsableIsOpen
  BY DEF IInv, UsableOpen, IsOpen, UsableIsOpen, Open
<1> QED BY <1>1, <1>2, <1>3, PTL DEF Spec

\* An effect under a metered permit stays charged through restarts, lost
\* settlements, sweeps and reconciliation, but for an operator's wrong answer.
THEOREM EffectsStayCharged == Spec => []EffectIsCharged
<1>1. Init => IInv
  BY InitIInv
<1>2. IInv /\ [Next]_vars => IInv'
  BY StepIInv
<1>3. IInv => EffectIsCharged
  BY DEF IInv, ChargesRight
<1> QED BY <1>1, <1>2, <1>3, PTL DEF Spec


\* A permit leaves the decision point only while the file has it as issued, by
\* this process, to the store that will redeem it, and not settled: also when the
\* enforcement point was asked first and the row could move meanwhile.
THEOREM PermitsLeaveAsIssued == Spec => LeavesAsIssued
<1>1. ASSUME IInv, [Next]_vars, NEW r \in Requests, req'[r].at = "permit", req[r].at # "permit"
      PROVE  LET row == claim'[KeyOf[r]] IN
             /\ row.eval = req'[r].permit /\ row.state = "permit_issued"
             /\ row.boot = boot /\ row.epoch = epoch /\ row.by = NoRequest
  <2> USE DEF IInv
  <2> DEFINE k == KeyOf[r]
  <2>1. k \in Keys /\ boot \in Nat /\ claim \in [Keys -> Claims] /\ req \in [Requests -> Reqs]
    BY <1>1, ConstantTypes DEF TypeOK, Reqs
  <2>2. Persist(r) \/ Retransmit(r)
    <3>1. ASSUME NEW q \in Requests,
                 \/ PersistFails(q) \/ AnswerConsumption(q) \/ Redeem(q) \/ Refuse(q)
                 \/ Suppress(q) \/ Commit(q) \/ Report(q)
          PROVE  FALSE
      <4>1. \/ req' = Ended(q) \/ req' = [req EXCEPT ![q].at = "answered"]
            \/ req' = [req EXCEPT ![q].at = "executed"]
            \/ req' = [req EXCEPT ![q].at = "redeemed",
                                  ![q].last = IF @ < now + LeaseMax THEN @ ELSE now + LeaseMax]
        BY <3>1 DEF PersistFails, AnswerConsumption, Redeem, Refuse, Suppress, Commit, Report, Dispose
      <4>2. CASE q # r
        <5>1. req'[r] = req[r]
          BY <2>1, <4>1, <4>2 DEF Ended
        <5> QED BY <1>1, <5>1
      <4>3. CASE q = r
        <5>1. req'[r].at \in {"done", "answered", "executed", "redeemed"}
          BY <2>1, <4>1, <4>3 DEF Ended, Reqs
        <5> QED BY <1>1, <5>1
      <4> QED BY <4>2, <4>3
    <3>2. ASSUME NEW q \in Requests, Evaluate(q) PROVE FALSE
      <4>1. (q # r => req'[r] = req[r]) /\ req'[q].at \in {"claimed", "done", "asking"}
        BY <1>1, <3>2, EvaluateCases
      <4> QED BY <1>1, <4>1
    <3>3. ASSUME NEW q \in Requests, q # r, Persist(q) \/ Retransmit(q) PROVE FALSE
      <4>1. \/ \E e, t : Answered(q, e, t)
            \/ req' = Ended(q)
        BY <3>3 DEF Persist, Retransmit
      <4>2. req'[r] = req[r]
        <5>1. CASE req' = Ended(q)
          BY <2>1, <3>3, <5>1 DEF Ended
        <5>2. CASE \E e, t : Answered(q, e, t)
          BY <1>1, <3>3, <5>2, Answers
        <5> QED BY <4>1, <5>1, <5>2
      <4> QED BY <1>1, <4>2
    <3>4. ASSUME \/ \E q \in Requests : OperatorExecuted(q) \/ OperatorNotExecuted(q)
                 \/ \E m \in sent \cup confirmed : AskRedeemer(m) \/ Settle(m) \/ Lose(m)
                 \/ \E j \in Keys : Reconcile(j)
                 \/ Sweep \/ Tick \/ UNCHANGED vars
          PROVE  FALSE
      <4>1. req' = req
        BY <3>4 DEF OperatorExecuted, OperatorNotExecuted, AskRedeemer, Settle, Lose, Reconcile,
                    Sweep, Tick, vars
      <4> QED BY <1>1, <4>1
    <3>5. ASSUME RestartPDP \/ RestartPEP PROVE FALSE
      <4>1. req'[r] = req[r] \/ req'[r] = [req[r] EXCEPT !.at = "done"]
        BY <3>5 DEF RestartPDP, RestartPEP
      <4>2. req'[r].at = req[r].at \/ req'[r].at = "done"
        BY <2>1, <4>1 DEF Reqs
      <4> QED BY <1>1, <4>2
    <3> QED BY <1>1, <3>1, <3>2, <3>3, <3>4, <3>5 DEF Next
  <2>3. CASE Persist(r)
    <3>1. /\ claim[k].eval = r /\ claim[k].state = "claimed" /\ claim[k].boot = boot
          /\ claim' = [claim EXCEPT ![k].state = "permit_issued"]
          /\ Answered(r, r, claim[k].until)
      BY <2>3 DEF Persist
    <3>2. req[r].epoch = epoch /\ req'[r].permit = r
      BY <1>1, <3>1, Answers
    <3>3. claim[k].epoch = req[r].epoch /\ claim[k].by = NoRequest
      BY <1>1, <2>1, <3>1, ConstantTypes DEF RowsRight, RowRight
    <3>4. claim'[k] = [claim[k] EXCEPT !.state = "permit_issued"]
      BY <2>1, <3>1
    <3> QED BY <2>1, <3>1, <3>2, <3>3, <3>4 DEF Claims
  <2>4. CASE Retransmit(r)
    <3> DEFINE row == Advanced(k, boot)
    <3>1. req'[r].at # "done"
      BY <1>1
    <3>2. req' # Ended(r)
      BY <2>1, <3>1 DEF Ended, Reqs
    <3>3. /\ claim' = [claim EXCEPT ![k] = row]
          /\ StillIssued(r, row) /\ Answered(r, row.eval, row.until)
      BY <2>4, <3>2 DEF Retransmit, AdvanceOnly
    <3>4. row.eval = req[r].permit /\ row.state = "permit_issued" /\ row.epoch = req[r].epoch
      BY <3>3 DEF StillIssued, Retransmittable
    <3>5. row = claim[k] /\ claim[k].boot = boot
      BY <1>1, <2>1, <3>4, AdvancedAges
    <3> HIDE DEF row
    <3>6. req[r].epoch = epoch /\ req'[r].permit = row.eval
      BY <1>1, <3>3, Answers
    <3>7. row.by = NoRequest
      BY <1>1, <2>1, <3>4, <3>5 DEF RowsRight, RowRight
    <3> QED BY <2>1, <3>3, <3>4, <3>5, <3>6, <3>7
  <2> QED BY <2>2, <2>3, <2>4
<1>2. IInv /\ [Next]_vars =>
        [\A r \in Requests :
            req'[r].at = "permit" /\ req[r].at # "permit" =>
                LET row == claim'[KeyOf[r]] IN
                /\ row.eval = req'[r].permit /\ row.state = "permit_issued"
                /\ row.boot = boot /\ row.epoch = epoch /\ row.by = NoRequest]_vars
  BY <1>1
<1>3. Init => IInv
  BY InitIInv
<1>4. IInv /\ [Next]_vars => IInv'
  BY StepIInv
<1> QED BY <1>2, <1>3, <1>4, PTL DEF Spec, LeavesAsIssued

-----------------------------------------------------------------------------
(* Verdicts, where a message is refused before a lease can pass since it was  *)
(* signed: ReplayWindow <= LeaseMax.                                          *)

\* A proof of no redemption signed after the permit's validity is true while the
\* claim is the permit's; so is a verdict; and nothing has been contradicted.
ProofsRight ==
    /\ \A m \in sent : m.outcome = "unredeemed" =>
        /\ m.issued <= now /\ req[m.permit].at # "idle"
        /\ Row(m.permit).eval = m.permit /\ m.issued >= Row(m.permit).until => Untouched(m.permit)
    /\ \A m \in confirmed : m.outcome # "unredeemed"
    /\ \A k \in Keys : claim[k].outcome = "unredeemed" => Untouched(claim[k].eval)
    /\ conflicts = {}

\* The reconciler proves nothing of a permit that was redeemed.
LEMMA ProofOffered ==
    ASSUME IInv, NEW e \in Requests, req[e].epoch = epoch, ~Consumed(e)
    PROVE  Untouched(e)
<1> USE DEF IInv
<1>1. \A o \in Ops : ~(redeemed[o] # NoRequest /\ RedeemedPermit(o) = e)
  BY DEF Consumed
<1>2. ~TookEffect(e)
  BY <1>1, ConstantTypes DEF TookEffect, LedgerRight
<1>3. ASSUME NEW r \in Requests, req[r].permit = e, req[r].at \in {"redeemed", "executed"}
      PROVE  FALSE
  <2>1. redeemed[OpOf[r]] = r /\ OpOf[r] \in Ops
    BY <1>3, ConstantTypes DEF PermitsRight
  <2> QED BY <1>1, <1>3, <2>1, ConstantTypes DEF RedeemedPermit
<1>4. ASSUME NEW r \in Requests, NEW x \in Dispositions, Disposed(e, r, x)
      PROVE  FALSE
  <2>1. redeemed[OpOf[e]] = r /\ req[r].permit = e /\ OpOf[e] \in Ops
    BY <1>4, ConstantTypes DEF DispositionsRight
  <2> QED BY <1>1, <2>1, ConstantTypes DEF RedeemedPermit
<1> QED BY <1>2, <1>3, <1>4 DEF Untouched

\* Once its validity has passed, a permit nothing was done under is spent.
LEMMA UntouchedIsSpent ==
    ASSUME IInv, NEW e \in Requests, Untouched(e), Row(e).eval = e,
           Row(e).until <= now \/ Row(e).state \notin Open
    PROVE  Spent(e)
<1> USE DEF IInv
<1> SUFFICES ASSUME NEW r \in Requests, Usable(r), req[r].permit = e PROVE FALSE
  BY DEF Spent
<1>1. req[r].at = "permit" /\ now < req[r].last
  BY DEF Usable, Untouched
<1>2. KeyOf[r] = KeyOf[e] /\ KeyOf[e] \in Keys
  BY ConstantTypes DEF PermitsRight
<1>3. req[r].last <= Row(e).until /\ Row(e).state \in Open
  BY <1>2 DEF UsableOpen, IsOpen, Row
<1>4. now \in Nat /\ req[r].last \in Nat /\ Row(e).until \in Nat
  BY <1>2, ConstantTypes DEF TypeOK, Claims, Row
<1> QED BY <1>1, <1>3, <1>4

\* A settlement contradicts no verdict.
LEMMA NoConflict ==
    ASSUME IInv, ProofsRight, NEW m \in sent \cup confirmed, Settle(m)
    PROVE  conflicts' = conflicts
<1> USE DEF IInv
<1> DEFINE k == KeyOf[m.permit]
           row == Advanced(k, boot)
<1>1. /\ m.permit \in Requests /\ m.by \in Requests /\ k \in Keys /\ row \in Claims
      /\ m.outcome \in {"completed", "suppressed", "unredeemed"} /\ Aged(claim[k], row)
  BY SettleCases
<1> HIDE DEF row
<1> SUFFICES ASSUME claim[k].eval = m.permit, row.eval = m.permit, row.by # NoRequest,
                    m.outcome # "unredeemed", row.by # m.by \/ row.outcome # m.outcome
             PROVE  FALSE
  BY DEF Settle, ApplySettlement, row
<1>2. Disposed(m.permit, m.by, m.outcome) /\ m.outcome \in Dispositions
  BY <1>1 DEF Disposed, Dispositions
<1>3. claim[k] \in Claims /\ row # NoClaim
  BY <1>1, ConstantTypes DEF TypeOK, NoClaim
<1>4. row.by = claim[k].by /\ row.outcome = claim[k].outcome
  BY <1>1, <1>3, AgedRow
<1>5. claim[k].by \in Requests /\ claim[k].outcome \in Dispositions \cup {"unredeemed"}
  BY <1>1, <1>3, <1>4 DEF RowsRight, RowRight, Claims, Dispositions
<1>6. CASE claim[k].outcome \in Dispositions
  <2>1. Disposed(m.permit, claim[k].by, claim[k].outcome)
    BY DEF Disposed
  <2> QED BY <1>1, <1>2, <1>4, <1>5, <1>6, <2>1 DEF DispositionsRight
<1>7. CASE claim[k].outcome = "unredeemed"
  BY <1>1, <1>2, <1>7 DEF ProofsRight, Untouched
<1> QED BY <1>5, <1>6, <1>7


\* A settlement of no redemption was there before, or is a proof just signed for
\* a permit that the store knows nobody redeemed.
LEMMA StepSettlements ==
    ASSUME IInv, ProofsRight, [Next]_vars
    PROVE  /\ conflicts' = conflicts
           /\ \A m \in confirmed' : m.outcome # "unredeemed"
           /\ \A m \in sent' : m.outcome = "unredeemed" =>
                \/ m \in sent
                \/ /\ m.permit \in Requests /\ m.issued = now /\ now' = now
                   /\ Row(m.permit).eval = m.permit /\ req[m.permit].at # "idle"
                   /\ Untouched(m.permit)
<1> USE DEF IInv
<1>1. \A m \in confirmed : m.outcome # "unredeemed"
  BY DEF ProofsRight
<1>2. CASE /\ conflicts' = conflicts /\ confirmed' \subseteq confirmed
           /\ \A m \in sent' : m \in sent \/ m.outcome # "unredeemed"
  BY <1>1, <1>2
<1>3. ASSUME NEW r \in Requests,
             \/ Evaluate(r) \/ Persist(r) \/ PersistFails(r)
             \/ AnswerConsumption(r) \/ Retransmit(r)
             \/ Redeem(r) \/ Refuse(r) \/ Commit(r)
             \/ OperatorExecuted(r) \/ OperatorNotExecuted(r)
      PROVE  UNCHANGED <<conflicts, confirmed, sent>>
  BY <1>3 DEF Evaluate, Persist, PersistFails, AnswerConsumption, Retransmit, Redeem, Refuse,
              Commit, OperatorExecuted, OperatorNotExecuted, pdpVars
<1>4. ASSUME NEW r \in Requests, Suppress(r) \/ Report(r)
      PROVE  /\ conflicts' = conflicts /\ confirmed' \subseteq confirmed
             /\ \A m \in sent' : m \in sent \/ m.outcome # "unredeemed"
  <2>1. PICK x \in Dispositions : Dispose(r, x)
    BY <1>4 DEF Suppress, Report, Dispositions
  <2>2. \A m \in sent' : m \in sent \/ m = Issue(RecordOf(r, x))
    BY <2>1 DEF Dispose
  <2>3. Issue(RecordOf(r, x)).outcome = x /\ x # "unredeemed"
    BY DEF Issue, RecordOf, Dispositions
  <2>4. UNCHANGED <<conflicts, confirmed>>
    BY <1>4 DEF Suppress, Report, pdpVars
  <2> QED BY <2>2, <2>3, <2>4
<1>5. ASSUME NEW m \in sent \cup confirmed, AskRedeemer(m)
      PROVE  /\ conflicts' = conflicts /\ sent' \subseteq sent
             /\ \A n \in confirmed' : n.outcome # "unredeemed"
  <2>1. m.outcome = "suppressed" /\ confirmed' \subseteq confirmed \cup {m}
    BY <1>5 DEF AskRedeemer
  <2> QED BY <1>1, <1>5, <2>1 DEF AskRedeemer, pdpVars
<1>6. ASSUME NEW m \in sent \cup confirmed, Settle(m) \/ Lose(m)
      PROVE  conflicts' = conflicts /\ confirmed' \subseteq confirmed /\ sent' \subseteq sent
  BY <1>6, NoConflict DEF Settle, Lose, pdpVars
<1>7. ASSUME NEW k \in Keys, Reconcile(k)
      PROVE  /\ UNCHANGED <<conflicts, confirmed>>
             /\ \A m \in sent' : m.outcome = "unredeemed" =>
                \/ m \in sent
                \/ /\ m.permit \in Requests /\ m.issued = now /\ now' = now
                   /\ Row(m.permit).eval = m.permit /\ req[m.permit].at # "idle"
                   /\ Untouched(m.permit)
  <2>1. UNCHANGED <<conflicts, confirmed, now>>
    BY <1>7 DEF Reconcile
  <2>2. PICK e \in Requests : \E m \in Offers(e) :
            /\ claim[k].eval = e /\ KeyOf[e] = k /\ req[e].epoch = epoch
            /\ sent' = sent \cup {Issue(m)}
    BY <1>7, ReconcileOffers
  <2>3. PICK m \in Offers(e) :
            /\ claim[k].eval = e /\ KeyOf[e] = k /\ req[e].epoch = epoch
            /\ sent' = sent \cup {Issue(m)}
    BY <2>2
  <2>4. /\ m = [permit |-> e, by |-> m.by, outcome |-> m.outcome]
        /\ m.outcome = "unredeemed" => ~Consumed(e)
    BY <2>3, OfferedIsTrue
  <2>5. /\ Issue(m).permit = e /\ Issue(m).outcome = m.outcome /\ Issue(m).issued = now
    BY <2>4 DEF Issue
  <2>6. m.outcome = "unredeemed" => Untouched(e)
    BY <2>3, <2>4, ProofOffered
  <2>7. Row(e).eval = e /\ req[e].at # "idle"
    BY <2>3, ConstantTypes DEF Row, RowsRight, RowRight
  <2> QED BY <2>1, <2>3, <2>5, <2>6, <2>7
<1>8. CASE Sweep \/ RestartPDP \/ RestartPEP \/ Tick \/ UNCHANGED vars
  <2>1. conflicts' = conflicts /\ sent' = sent /\ confirmed' \subseteq confirmed
    BY <1>8 DEF Sweep, RestartPDP, RestartPEP, Tick, vars, pdpVars
  <2> QED BY <1>1, <2>1
<1> QED BY <1>1, <1>2, <1>3, <1>4, <1>5, <1>6, <1>7, <1>8 DEF Next

LEMMA StepProofs ==
    ASSUME IInv, IInv', Kept, ProofsRight, [Next]_vars, ReplayWindow <= LeaseMax
    PROVE  ProofsRight'
<1> USE DEF IInv
<1>1. now \in Nat /\ now' \in Nat /\ now' >= now /\ ReplayWindow \in Nat /\ LeaseMax \in Nat
  BY ConstantTypes DEF TypeOK, Kept
<1>2. \A e \in Requests : KeyOf[e] \in Keys /\ Row(e).until \in Nat
  BY ConstantTypes DEF Row, TypeOK, Claims
<1>3. ASSUME NEW e \in Requests, Untouched(e), Row(e).eval = e,
             Row(e).until <= now \/ Row(e).state \notin Open
      PROVE  Untouched(e)'
  BY <1>3, UntouchedIsSpent DEF Kept
<1>4. \A m \in sent \cup sent' : m.permit \in Requests /\ m.issued \in Nat
  BY DEF TypeOK, Settlements
<1>5. ASSUME NEW m \in sent', m.outcome = "unredeemed"
      PROVE  /\ m.issued <= now' /\ req'[m.permit].at # "idle"
             /\ Row(m.permit)'.eval = m.permit /\ m.issued >= Row(m.permit)'.until =>
                    Untouched(m.permit)'
  <2> DEFINE e == m.permit
  <2>1. /\ m.issued <= now /\ req[e].at # "idle"
        /\ Row(e).eval = e /\ m.issued >= Row(e).until => Untouched(e)
    BY <1>1, <1>5, StepSettlements DEF ProofsRight
  <2>2. m.issued <= now' /\ req'[e].at # "idle"
    BY <1>1, <1>4, <2>1 DEF Kept
  <2>3. ASSUME Row(e)'.eval = e, m.issued >= Row(e)'.until PROVE Untouched(e)'
    <3>1. Row(e).eval = e /\ Row(e)'.until = Row(e).until
      BY <1>2, <1>4, <2>1, <2>3 DEF Kept, Row
    <3>2. Row(e).until <= now
      BY <1>1, <1>2, <1>4, <2>1, <2>3, <3>1
    <3> QED BY <1>3, <1>4, <2>1, <2>3, <3>1, <3>2
  <2> QED BY <2>2, <2>3
<1>6. ASSUME NEW k \in Keys, claim'[k].outcome = "unredeemed"
      PROVE  Untouched(claim[k].eval)'
  <2>1. claim[k].eval = claim'[k].eval /\ (claim[k].outcome = "unredeemed" \/ Proved(k))
    BY <1>6 DEF Kept
  <2>2. PICK e \in Requests : claim[k].eval = e /\ claim'[k].eval = e /\ KeyOf[e] = k
    <3>1. claim[k] \in Claims /\ RowRight(k)'
      BY DEF TypeOK, RowsRight
    <3>2. claim'[k].eval # NoRequest /\ KeyOf[claim'[k].eval] = k
      BY <1>6, <3>1 DEF RowRight
    <3> QED BY <2>1, <3>1, <3>2 DEF Claims
  <2>3. ASSUME claim[k].outcome = "unredeemed" PROVE Untouched(e)'
    <3>1. claim[k].state \notin Open
      BY <2>3 DEF RowsRight, RowRight, Open
    <3>2. Untouched(e)
      BY <2>2, <2>3 DEF ProofsRight
    <3> QED BY <1>3, <2>1, <2>2, <3>1, <3>2 DEF Row
  <2>4. ASSUME Proved(k) PROVE Untouched(e)'
    <3>1. PICK m \in sent : m.permit = e /\ m.outcome = "unredeemed" /\ Fresh(m)
      BY <2>2, <2>4 DEF Proved, ProofsRight
    <3>2. now > Row(e).until + LeaseMax /\ now - m.issued <= ReplayWindow
      BY <2>2, <2>4, <3>1 DEF Proved, LeaseOver, Row, Fresh
    <3>3. m.issued >= Row(e).until /\ Row(e).until <= now
      BY <1>1, <1>2, <1>4, <2>2, <3>2
    <3>4. Untouched(e) /\ Row(e).eval = e
      BY <2>2, <3>1, <3>3 DEF ProofsRight, Row
    <3> QED BY <1>3, <2>1, <2>2, <3>3, <3>4
  <2>5. Untouched(e)'
    BY <2>1, <2>3, <2>4
  <2> QED BY <2>2, <2>5, Zenon
<1>7. (\A m \in confirmed' : m.outcome # "unredeemed") /\ conflicts' = {}
  BY StepSettlements DEF ProofsRight
<1> QED BY <1>5, <1>6, <1>7 DEF ProofsRight

LEMMA InitProofs ==
    ASSUME Init PROVE ProofsRight
  BY DEF Init, ProofsRight, NoClaim

\* A settled claim's verdict is what happened: its operation took effect if it
\* is completed, its permit never did if it is failed.
LEMMA VerdictsFollow ==
    ASSUME IInv, ProofsRight PROVE VerdictIsTrue
<1> USE DEF IInv
<1> SUFFICES ASSUME NEW k \in Keys
             PROVE  /\ claim[k].state = "completed" => ledger[OpOf[claim[k].eval]] # NoRequest
                    /\ claim[k].state = "failed" => ~TookEffect(claim[k].eval)
  BY DEF VerdictIsTrue
<1>1. claim[k] \in Claims
  BY DEF TypeOK
<1>2. ASSUME claim[k].state \in {"completed", "failed"}
      PROVE  /\ claim[k].eval \in Requests /\ KeyOf[claim[k].eval] = k /\ claim[k].by \in Requests
             /\ claim[k].outcome \in Dispositions =>
                    Disposed(claim[k].eval, claim[k].by, claim[k].outcome)
  <2>1. /\ claim[k].eval \in Requests /\ KeyOf[claim[k].eval] = k /\ claim[k].by \in Requests
    BY <1>1, <1>2 DEF RowsRight, RowRight, Claims
  <2> QED BY <2>1 DEF Disposed
<1>3. CASE claim[k].state = "completed"
  <2>1. claim[k].outcome = "completed"
    BY <1>3 DEF RowsRight, RowRight
  <2> QED BY <1>2, <1>3, <2>1 DEF DispositionsRight, Dispositions
<1>4. CASE claim[k].state = "failed"
  <2>1. claim[k].outcome \in {"suppressed", "unredeemed"}
    BY <1>4 DEF RowsRight, RowRight
  <2>2. CASE claim[k].outcome = "suppressed"
    BY <1>2, <1>4, <2>2 DEF DispositionsRight, Dispositions
  <2>3. CASE claim[k].outcome = "unredeemed"
    BY <1>4, <2>3 DEF ProofsRight, Untouched
  <2> QED BY <1>4, <2>1, <2>2, <2>3
<1> QED BY <1>3, <1>4

LEMMA StepVerdicts ==
    ASSUME ReplayWindow <= LeaseMax, IInv, ProofsRight, [Next]_vars
    PROVE  IInv' /\ ProofsRight'
  BY StepIInv, StepProofs

\* A settled claim's verdict is true of the effect, in whatever order reports,
\* late records and proofs arrive, if no message older than a lease is taken.
THEOREM VerdictsAreTrue ==
    ASSUME ReplayWindow <= LeaseMax
    PROVE  Spec => []VerdictIsTrue
<1>1. Init => IInv /\ ProofsRight
  BY InitIInv, InitProofs
<1>2. IInv /\ ProofsRight /\ [Next]_vars => IInv' /\ ProofsRight'
  BY StepVerdicts
<1>3. IInv /\ ProofsRight => VerdictIsTrue
  BY VerdictsFollow
<1> QED BY <1>1, <1>2, <1>3, PTL DEF Spec

\* No report, late record or proof contradicts another, in whatever order they
\* arrive, if no message older than a lease is taken.
THEOREM RecordsNeverConflict ==
    ASSUME ReplayWindow <= LeaseMax
    PROVE  Spec => []NeverConflicting
<1>1. Init => IInv /\ ProofsRight
  BY InitIInv, InitProofs
<1>2. IInv /\ ProofsRight /\ [Next]_vars => IInv' /\ ProofsRight'
  BY StepVerdicts
<1>3. ProofsRight => NeverConflicting
  BY DEF ProofsRight, NeverConflicting
<1> QED BY <1>1, <1>2, <1>3, PTL DEF Spec

-----------------------------------------------------------------------------
(* The total of a counter: a fold over a finite set, by the least number of *)
(* members for which a statement fails                                      *)

\* The sum a counter's total is.
Total(S) == MapThenSumSet(LAMBDA r : Amount[r], S)

\* One step of the fold: the amount of the member it takes, and the rest.
First(s) == CHOOSE r \in s : TRUE
Added(f, s) == IF s = {} THEN 0 ELSE Amount[First(s)] + f[s \ {First(s)}]

Sums(D, f) == f = [s \in D |-> Added(f, s)]

\* The subsets of S of at most n members.
UpTo(S, n) == {s \in SUBSET S : Cardinality(s) <= n}

LEMMA LeastNumber ==
    ASSUME NEW T \in SUBSET Nat, T # {}
    PROVE  \E n \in T : \A m \in T : n <= m
<1> DEFINE R == OpToRel(<, Nat)
<1>1. \A x, y \in Nat : y < x => <<y, x>> \in R
  BY DEF OpToRel
<1>2. IsWellFoundedOn(R, Nat)
  BY ONLY NatLessThanWellFounded DEF R
<1> HIDE DEF R
<1>3. PICK n \in T : \A m \in T : <<m, n>> \notin R
  BY <1>2, WFMin
<1>4. \A m \in T : ~(m < n)
  BY <1>1, <1>3
<1> QED BY <1>4

LEMMA TakeFirst ==
    ASSUME NEW S, IsFiniteSet(S), NEW s \in SUBSET S, s # {}
    PROVE  /\ First(s) \in s /\ s \ {First(s)} \in SUBSET S
           /\ Cardinality(s) \in Nat /\ Cardinality(s \ {First(s)}) \in Nat
           /\ Cardinality(s \ {First(s)}) = Cardinality(s) - 1
<1>1. First(s) \in s
  BY DEF First
<1>2. IsFiniteSet(s)
  BY FS_Subset
<1> QED BY <1>1, <1>2, FS_RemoveElement, FS_CardinalityType

LEMMA SumsExist ==
    ASSUME NEW S, IsFiniteSet(S)
    PROVE  \E f : Sums(SUBSET S, f)
<1> DEFINE without == {n \in Nat : ~ \E f : Sums(UpTo(S, n), f)}
<1>1. without = {}
  <2> SUFFICES ASSUME without # {} PROVE FALSE
    OBVIOUS
  <2>1. without \in SUBSET Nat
    OBVIOUS
  <2> HIDE DEF without
  <2>2. PICK n \in without : \A m \in without : n <= m
    BY <2>1, LeastNumber
  <2>3. n \in Nat /\ ~ \E f : Sums(UpTo(S, n), f)
    BY <2>2 DEF without
  <2>4. CASE n = 0
    <3> DEFINE g == [s \in UpTo(S, n) |-> 0]
    <3>1. \A s \in UpTo(S, n) : s = {}
      <4> SUFFICES ASSUME NEW s \in UpTo(S, n), s # {} PROVE FALSE
        OBVIOUS
      <4>1. s \in SUBSET S /\ Cardinality(s) <= n
        BY DEF UpTo
      <4>2. Cardinality(s) \in Nat /\ Cardinality(s \ {First(s)}) \in Nat
            /\ Cardinality(s \ {First(s)}) = Cardinality(s) - 1
        BY <4>1, TakeFirst
      <4> QED BY <2>4, <4>1, <4>2
    <3>2. Sums(UpTo(S, n), g)
      BY <3>1 DEF Sums, Added
    <3> QED BY <2>3, <3>2
  <2>5. CASE n # 0
    <3>1. n - 1 \in Nat /\ n - 1 \notin without
      BY <2>2, <2>3, <2>5
    <3>2. PICK f : Sums(UpTo(S, n - 1), f)
      BY <3>1 DEF without
    <3> DEFINE g == [s \in UpTo(S, n) |-> Added(f, s)]
    <3>3. \A s \in UpTo(S, n - 1) : f[s] = Added(f, s) /\ s \in UpTo(S, n)
      <4>1. \A s \in UpTo(S, n - 1) : f[s] = Added(f, s)
        BY <3>2 DEF Sums
      <4>2. ASSUME NEW s \in UpTo(S, n - 1) PROVE s \in UpTo(S, n)
        <5>1. s \in SUBSET S /\ Cardinality(s) <= n - 1 /\ Cardinality(s) \in Nat
          BY FS_Subset, FS_CardinalityType DEF UpTo
        <5> QED BY <2>3, <5>1 DEF UpTo
      <4> QED BY <4>1, <4>2
    <3>4. ASSUME NEW s \in UpTo(S, n) PROVE Added(f, s) = Added(g, s)
      <4>1. CASE s = {}
        BY <4>1 DEF Added
      <4>2. CASE s # {}
        <5> DEFINE t == s \ {First(s)}
        <5>1. s \in SUBSET S /\ Cardinality(s) <= n
          BY DEF UpTo
        <5>2. /\ t \in SUBSET S
              /\ Cardinality(s) \in Nat /\ Cardinality(t) \in Nat
              /\ Cardinality(t) = Cardinality(s) - 1
          BY <4>2, <5>1, TakeFirst
        <5>3. t \in UpTo(S, n - 1)
          BY <2>3, <5>1, <5>2 DEF UpTo
        <5> HIDE DEF t
        <5>4. f[t] = g[t]
          BY <3>3, <5>3
        <5> HIDE DEF g
        <5> QED BY <4>2, <5>4 DEF Added, t
      <4> QED BY <4>1, <4>2
    <3>5. g = [s \in UpTo(S, n) |-> Added(g, s)]
      BY <3>4
    <3> QED BY <2>3, <3>5 DEF Sums
  <2> QED BY <2>4, <2>5
<1>2. Cardinality(S) \in Nat
  BY FS_CardinalityType
<1>3. UpTo(S, Cardinality(S)) = SUBSET S
  BY FS_Subset DEF UpTo
<1> QED BY <1>1, <1>2, <1>3

\* The fold over S and the fold over a subset agree on what is within both.
LEMMA SumsAgree ==
    ASSUME NEW S, IsFiniteSet(S), NEW T \in SUBSET S, NEW f, NEW g,
           Sums(SUBSET S, f), Sums(SUBSET T, g)
    PROVE  f[T] = g[T]
<1> DEFINE apart == {n \in Nat : \E s \in SUBSET T : Cardinality(s) = n /\ f[s] # g[s]}
<1>0. IsFiniteSet(T)
  BY FS_Subset
<1>1. apart = {}
  <2> SUFFICES ASSUME apart # {} PROVE FALSE
    OBVIOUS
  <2>1. apart \in SUBSET Nat
    OBVIOUS
  <2> HIDE DEF apart
  <2>2. PICK n \in apart : \A m \in apart : n <= m
    BY <2>1, LeastNumber
  <2>3. PICK s \in SUBSET T : Cardinality(s) = n /\ f[s] # g[s]
    BY <2>2 DEF apart
  <2>4. f[s] = Added(f, s) /\ g[s] = Added(g, s)
    BY DEF Sums
  <2>5. CASE s = {}
    BY <2>3, <2>4, <2>5 DEF Added
  <2>6. CASE s # {}
    <3> DEFINE t == s \ {First(s)}
    <3>1. /\ t \in SUBSET T
          /\ Cardinality(s) \in Nat /\ Cardinality(t) \in Nat
          /\ Cardinality(t) = Cardinality(s) - 1
      BY <1>0, <2>6, TakeFirst
    <3>2. Cardinality(t) \notin apart
      BY <2>2, <2>3, <3>1
    <3>3. f[t] = g[t]
      BY <3>1, <3>2 DEF apart
    <3> QED BY <2>3, <2>4, <2>6, <3>3 DEF Added
  <2> QED BY <2>5, <2>6
<1>2. Cardinality(T) \in Nat
  BY <1>0, FS_CardinalityType
<1> QED BY <1>1, <1>2

\* What the fold computes.
LEMMA TotalIs ==
    ASSUME NEW S, IsFiniteSet(S)
    PROVE  Total(S) = IF S = {} THEN 0 ELSE Amount[First(S)] + Total(S \ {First(S)})
<1> DEFINE Fold(T) == CHOOSE f : f = [s \in SUBSET T |->
                          IF s = {} THEN 0
                          ELSE Amount[CHOOSE r \in s : TRUE] + f[s \ {CHOOSE r \in s : TRUE}]]
<1>1. \A T : Total(T) = Fold(T)[T]
  BY DEF Total, MapThenSumSet, MapThenFoldSet
<1>2. ASSUME NEW T, IsFiniteSet(T)
      PROVE  Sums(SUBSET T, Fold(T))
  <2>1. Fold(T) = CHOOSE f : Sums(SUBSET T, f)
    BY DEF Sums, Added, First
  <2> HIDE DEF Fold
  <2> QED BY <1>2, <2>1, SumsExist
<1> HIDE DEF Fold
<1>3. Sums(SUBSET S, Fold(S))
  BY <1>2
<1>4. Total(S) = Added(Fold(S), S)
  BY <1>1, <1>3 DEF Sums
<1>5. CASE S = {}
  BY <1>4, <1>5 DEF Added
<1>6. CASE S # {}
  <2> DEFINE T == S \ {First(S)}
  <2>1. T \in SUBSET S /\ IsFiniteSet(T)
    BY FS_Subset
  <2> HIDE DEF T
  <2>2. Sums(SUBSET T, Fold(T))
    BY <1>2, <2>1
  <2>3. Fold(S)[T] = Fold(T)[T]
    BY <1>3, <2>1, <2>2, SumsAgree
  <2>4. Total(T) = Fold(S)[T]
    BY <1>1, <2>3
  <2> QED BY <1>4, <1>6, <2>4 DEF Added, T
<1> QED BY <1>5, <1>6

LEMMA TotalIsNumber ==
    ASSUME NEW S \in SUBSET Requests, IsFiniteSet(S)
    PROVE  Total(S) \in Nat
<1> DEFINE bad == {n \in Nat : \E T \in SUBSET S : Cardinality(T) = n /\ Total(T) \notin Nat}
<1>1. bad = {}
  <2> SUFFICES ASSUME bad # {} PROVE FALSE
    OBVIOUS
  <2>1. bad \in SUBSET Nat
    OBVIOUS
  <2> HIDE DEF bad
  <2>2. PICK n \in bad : \A m \in bad : n <= m
    BY <2>1, LeastNumber
  <2>3. PICK T \in SUBSET S : Cardinality(T) = n /\ Total(T) \notin Nat
    BY <2>2 DEF bad
  <2>4. IsFiniteSet(T)
    BY FS_Subset
  <2>10. Total({}) = 0
    BY FS_EmptySet, TotalIs
  <2>5. T # {}
    BY <2>3, <2>10
  <2> DEFINE rest == T \ {First(T)}
  <2>6. /\ First(T) \in T /\ rest \in SUBSET S
        /\ Cardinality(T) \in Nat /\ Cardinality(rest) \in Nat
        /\ Cardinality(rest) = Cardinality(T) - 1
    BY <2>5, TakeFirst
  <2>7. Total(T) = Amount[First(T)] + Total(rest)
    BY <2>4, <2>5, TotalIs
  <2> HIDE DEF rest
  <2>8. Total(rest) \in Nat
    BY <2>2, <2>3, <2>6 DEF bad
  <2>9. Amount[First(T)] \in Nat
    BY <2>6, ChargeAssumption
  <2> QED BY <2>3, <2>7, <2>8, <2>9
<1>2. Cardinality(S) \in Nat
  BY FS_CardinalityType
<1> QED BY <1>1, <1>2

\* The total does not depend on the order of the fold.
LEMMA TotalWithout ==
    ASSUME NEW S \in SUBSET Requests, IsFiniteSet(S), NEW x \in S
    PROVE  Total(S) = Amount[x] + Total(S \ {x})
<1> DEFINE bad == {n \in Nat : \E T \in SUBSET S : \E y \in T :
                       Cardinality(T) = n /\ Total(T) # Amount[y] + Total(T \ {y})}
<1>1. bad = {}
  <2> SUFFICES ASSUME bad # {} PROVE FALSE
    OBVIOUS
  <2>1. bad \in SUBSET Nat
    OBVIOUS
  <2> HIDE DEF bad
  <2>2. PICK n \in bad : \A m \in bad : n <= m
    BY <2>1, LeastNumber
  <2>13. PICK T \in SUBSET S : \E y \in T :
          Cardinality(T) = n /\ Total(T) # Amount[y] + Total(T \ {y})
    BY <2>2 DEF bad
  <2>3. PICK y \in T : Cardinality(T) = n /\ Total(T) # Amount[y] + Total(T \ {y})
    BY <2>13
  <2> DEFINE z == First(T)
  <2>4. IsFiniteSet(T) /\ IsFiniteSet(T \ {y}) /\ T # {}
    BY <2>3, FS_Subset
  <2>5. /\ z \in T /\ T \ {z} \in SUBSET S
        /\ Cardinality(T) \in Nat /\ Cardinality(T \ {z}) \in Nat
        /\ Cardinality(T \ {z}) = Cardinality(T) - 1
    BY <2>4, TakeFirst
  <2>6. /\ Cardinality(T \ {y}) \in Nat /\ Cardinality(T \ {y}) = Cardinality(T) - 1
    BY <2>4, FS_RemoveElement, FS_CardinalityType
  <2>7. Total(T) = Amount[z] + Total(T \ {z})
    BY <2>4, TotalIs
  <2> HIDE DEF z
  <2>8. y # z
    BY <2>3, <2>7
  <2> DEFINE both == (T \ {y}) \ {z}
  <2>9. both = (T \ {z}) \ {y}
    OBVIOUS
  <2>10. IsFiniteSet(both) /\ both \in SUBSET Requests
    BY FS_Subset
  <2>15. \A U \in SUBSET S : Cardinality(U) = n - 1 /\ n - 1 \in Nat =>
            \A v \in U : Total(U) = Amount[v] + Total(U \ {v})
    <3> SUFFICES ASSUME NEW U \in SUBSET S, Cardinality(U) = n - 1, n - 1 \in Nat,
                        NEW v \in U, Total(U) # Amount[v] + Total(U \ {v})
                 PROVE  FALSE
      OBVIOUS
    <3>1. n - 1 \in bad
      BY DEF bad
    <3>2. n \in Nat /\ n <= n - 1
      BY <2>1, <2>2, <3>1
    <3> QED BY <3>2
  <2>11. Total(T \ {z}) = Amount[y] + Total(both)
    <3>1. T \ {z} \in SUBSET S /\ y \in T \ {z}
      BY <2>5, <2>8
    <3> QED BY <2>3, <2>5, <2>9, <2>15, <3>1
  <2>12. Total(T \ {y}) = Amount[z] + Total(both)
    <3>1. T \ {y} \in SUBSET S /\ z \in T \ {y}
      BY <2>5, <2>8
    <3> QED BY <2>3, <2>5, <2>6, <2>15, <3>1
  <2>14. Total(both) \in Nat /\ Amount[y] \in Nat /\ Amount[z] \in Nat
    BY <2>5, <2>10, TotalIsNumber, ChargeAssumption
  <2> QED BY <2>3, <2>7, <2>11, <2>12, <2>14
<1>2. Cardinality(S) \in Nat
  BY FS_CardinalityType
<1> QED BY <1>1, <1>2

\* A part of a set has no greater total.
LEMMA TotalOfPart ==
    ASSUME NEW S \in SUBSET Requests, IsFiniteSet(S), NEW T \in SUBSET S
    PROVE  Total(T) <= Total(S)
<1> DEFINE bad == {n \in Nat : \E U \in SUBSET S :
                       /\ Cardinality(U) = n /\ T \in SUBSET U
                       /\ ~(Total(T) <= Total(U))}
<1>0. \A U \in SUBSET S : IsFiniteSet(U) /\ Total(U) \in Nat
  BY FS_Subset, TotalIsNumber
<1>1. bad = {}
  <2> SUFFICES ASSUME bad # {} PROVE FALSE
    OBVIOUS
  <2>1. bad \in SUBSET Nat
    OBVIOUS
  <2> HIDE DEF bad
  <2>2. PICK n \in bad : \A m \in bad : n <= m
    BY <2>1, LeastNumber
  <2>3. PICK U \in SUBSET S : /\ Cardinality(U) = n /\ T \in SUBSET U
                              /\ ~(Total(T) <= Total(U))
    BY <2>2 DEF bad
  <2>4. T # U
    BY <1>0, <2>3
  <2>5. PICK x \in U : x \notin T
    BY <2>3, <2>4
  <2>6. /\ U \ {x} \in SUBSET S /\ T \in SUBSET (U \ {x})
        /\ Cardinality(U) \in Nat /\ Cardinality(U \ {x}) \in Nat
        /\ Cardinality(U \ {x}) = Cardinality(U) - 1
    BY <1>0, <2>3, <2>5, FS_RemoveElement, FS_CardinalityType
  <2>7. Total(T) <= Total(U \ {x})
    BY <2>2, <2>3, <2>6 DEF bad
  <2>8. Total(U) = Amount[x] + Total(U \ {x})
    BY <1>0, TotalWithout
  <2>9. Total(U \ {x}) \in Nat /\ Total(T) \in Nat /\ Amount[x] \in Nat
    BY <1>0, <2>5, <2>6, ChargeAssumption
  <2> QED BY <2>3, <2>7, <2>8, <2>9
<1>2. Cardinality(S) \in Nat
  BY FS_CardinalityType
<1> QED BY <1>1, <1>2

-----------------------------------------------------------------------------
(* The counters stay within their limits                                    *)

\* What a counter's total is over.
Bearing(books, c) ==
    {r \in Requests : c \in ChargedTo[KeyOf[r]] /\ books[r] \in Charged}

LEMMA UsedIs ==
    ASSUME NEW books, NEW c
    PROVE  Used(books, c) = Total(Bearing(books, c))
  BY DEF Used, Total, Bearing

LEMMA UsedOfPart ==
    ASSUME NEW books, NEW after, NEW c, Bearing(after, c) \subseteq Bearing(books, c)
    PROVE  /\ Used(books, c) \in Nat /\ Used(after, c) \in Nat
           /\ Used(after, c) <= Used(books, c)
<1>1. /\ Bearing(books, c) \in SUBSET Requests /\ IsFiniteSet(Bearing(books, c))
      /\ Bearing(after, c) \in SUBSET Requests /\ IsFiniteSet(Bearing(after, c))
  BY FiniteAssumption, FS_Subset DEF Bearing
<1>2. /\ Total(Bearing(books, c)) \in Nat /\ Total(Bearing(after, c)) \in Nat
      /\ Total(Bearing(after, c)) <= Total(Bearing(books, c))
  BY <1>1, TotalIsNumber, TotalOfPart
<1> QED BY <1>2, UsedIs

LEMMA UsedWithOne ==
    ASSUME NEW books, NEW after, NEW c, NEW e \in Requests,
           Bearing(after, c) \subseteq Bearing(books, c) \cup {e}
    PROVE  Used(after, c) <= Used(books, c) + Amount[e]
<1> DEFINE A == Bearing(after, c)
           B == Bearing(books, c)
<1>0. A \in SUBSET Requests /\ B \in SUBSET Requests
  BY DEF Bearing
<1>1. /\ A \in SUBSET Requests /\ IsFiniteSet(A) /\ IsFiniteSet(A \ {e})
      /\ B \in SUBSET Requests /\ IsFiniteSet(B) /\ A \ {e} \in SUBSET Requests
  BY <1>0, FiniteAssumption, FS_Subset
<1> HIDE DEF A, B
<1>2. Total(A \ {e}) <= Total(B)
  <2>1. A \ {e} \in SUBSET B
    BY DEF A, B
  <2> QED BY <1>1, <2>1, TotalOfPart
<1>3. Total(A) = Amount[e] + Total(A \ {e}) \/ Total(A) = Total(A \ {e})
  <2>1. CASE e \in A
    BY <1>1, <2>1, TotalWithout
  <2>2. CASE e \notin A
    <3>1. A \ {e} = A
      BY <2>2
    <3> QED BY <3>1
  <2> QED BY <2>1, <2>2
<1>4. /\ Total(A) \in Nat /\ Total(B) \in Nat /\ Total(A \ {e}) \in Nat
      /\ Amount[e] \in Nat
  BY <1>1, TotalIsNumber, ChargeAssumption
<1>5. Total(A) <= Total(B) + Amount[e]
  BY <1>2, <1>3, <1>4
<1> QED BY <1>5, UsedIs DEF A, B

\* Bookings that charge nothing new keep every counter where it may be.
LEMMA FewerWithin ==
    ASSUME WithinLimit, overspent' = overspent,
           \A r \in Requests : booked'[r] \in Charged => booked[r] \in Charged
    PROVE  WithinLimit'
<1> SUFFICES ASSUME NEW c \in Counters, c \notin overspent
             PROVE  Used(booked', c) <= Limit[c]
  BY DEF WithinLimit
<1>1. Bearing(booked', c) \subseteq Bearing(booked, c)
  BY DEF Bearing
<1>2. /\ Used(booked, c) \in Nat /\ Used(booked', c) \in Nat
      /\ Used(booked', c) <= Used(booked, c)
  BY <1>1, UsedOfPart
<1>3. Used(booked, c) <= Limit[c] /\ Limit[c] \in Nat
  BY ChargeAssumption DEF WithinLimit
<1> QED BY <1>2, <1>3

\* A commit after a release reports every counter it takes over its limit.
LEMMA CommittedWithin ==
    ASSUME TypeOK, WithinLimit, NEW e \in Requests,
           overspent' = overspent \cup Overspend(e),
           booked[e] \in Charged \cup {"released"} \/ booked'[e] \notin Charged,
           \A r \in Requests : r # e /\ booked'[r] \in Charged => booked[r] \in Charged
    PROVE  WithinLimit'
<1> SUFFICES ASSUME NEW c \in Counters, c \notin overspent'
             PROVE  Used(booked', c) <= Limit[c]
  BY DEF WithinLimit
<1>0. Limit[c] \in Nat /\ Used(booked, c) <= Limit[c]
  BY ChargeAssumption DEF WithinLimit
<1>1. CASE Bearing(booked', c) \subseteq Bearing(booked, c)
  <2>1. /\ Used(booked, c) \in Nat /\ Used(booked', c) \in Nat
        /\ Used(booked', c) <= Used(booked, c)
    BY <1>1, UsedOfPart
  <2> QED BY <1>0, <2>1
<1>2. CASE ~(Bearing(booked', c) \subseteq Bearing(booked, c))
  <2> DEFINE after == [booked EXCEPT ![e] = "committed"]
  <2>1. booked[e] = "released" /\ c \in ChargedTo[KeyOf[e]]
    BY <1>2 DEF Bearing
  <2>2. /\ after[e] = "committed"
        /\ \A r \in Requests : r # e => after[r] = booked[r]
    BY DEF TypeOK
  <2>3. ~(Used(after, c) > Limit[c])
    BY <2>1 DEF Overspend
  <2> HIDE DEF after
  <2>4. Bearing(booked', c) \subseteq Bearing(after, c)
    BY <2>2 DEF Bearing, Charged
  <2>5. /\ Used(after, c) \in Nat /\ Used(booked', c) \in Nat
        /\ Used(booked', c) <= Used(after, c)
    BY <2>4, UsedOfPart
  <2> QED BY <1>0, <2>3, <2>5
<1> QED BY <1>1, <1>2

LEMMA BookedAfterFewer ==
    ASSUME NEW ks, NEW b, NEW r \in Requests, BookedAfter(ks, b)[r] \in Charged
    PROVE  booked[r] \in Charged
  BY DEF BookedAfter, Charged

LEMMA SweptWithin ==
    ASSUME WithinLimit, NEW b, SweepNow(b), overspent' = overspent
    PROVE  WithinLimit'
<1>1. ASSUME NEW r \in Requests, booked'[r] \in Charged
      PROVE  booked[r] \in Charged
  <2>1. booked'[r] = "void" \/ booked'[r] = BookedAfter(Keys, b)[r]
    BY DEF SweepNow
  <2> QED BY <1>1, <2>1, BookedAfterFewer DEF Charged
<1> QED BY <1>1, FewerWithin

\* A reservation is made only where every counter it charges has room.
LEMMA EvaluateWithin ==
    ASSUME TypeOK, WithinLimit, NEW r \in Requests, Evaluate(r)
    PROVE  WithinLimit'
<1> DEFINE k == KeyOf[r]
           row == Advanced(k, boot)
           books == BookedAfter({k}, boot)
           abandoned == IF row.state = "claimed" /\ books[row.eval] = "reserved"
                        THEN [books EXCEPT ![row.eval] = "void"] ELSE books
<1>1. /\ overspent' = overspent
      /\ \/ Fits(abandoned, r) /\ booked' = Reserve(r, abandoned)
         \/ booked' = abandoned
         \/ booked' = books
  BY DEF Evaluate, AdvanceOnly
<1>2. /\ \A q \in Requests : abandoned[q] \in {books[q], "void"}
      /\ DOMAIN abandoned = Requests
  BY DEF BookedAfter
<1>3. ASSUME NEW q \in Requests
      PROVE  /\ books[q] \in Charged => booked[q] \in Charged
             /\ abandoned[q] \in Charged => booked[q] \in Charged
  <2>1. books[q] \in Charged => booked[q] \in Charged
    BY BookedAfterFewer
  <2> HIDE DEF abandoned, books
  <2> QED BY <1>2, <2>1 DEF Charged
<1> HIDE DEF abandoned, books
<1>4. CASE booked' = books \/ booked' = abandoned
  BY <1>1, <1>3, <1>4, FewerWithin
<1>5. CASE Fits(abandoned, r) /\ booked' = Reserve(r, abandoned)
  <2>1. \A q \in Requests : q # r => booked'[q] = abandoned[q]
    BY <1>5 DEF Reserve
  <2> SUFFICES ASSUME NEW c \in Counters, c \notin overspent
               PROVE  Used(booked', c) <= Limit[c]
    BY <1>1 DEF WithinLimit
  <2>2. Limit[c] \in Nat /\ Used(booked, c) <= Limit[c]
    BY ChargeAssumption DEF WithinLimit
  <2>3. Bearing(abandoned, c) \subseteq Bearing(booked, c)
    BY <1>3 DEF Bearing
  <2>4. /\ Used(abandoned, c) \in Nat /\ Used(booked, c) \in Nat
        /\ Used(abandoned, c) <= Used(booked, c)
    BY <2>3, UsedOfPart
  <2>5. CASE c \in ChargedTo[KeyOf[r]]
    <3>1. Used(abandoned, c) + Amount[r] <= Limit[c]
      BY <1>5, <2>5 DEF Fits
    <3>2. Bearing(booked', c) \subseteq Bearing(abandoned, c) \cup {r}
      BY <2>1 DEF Bearing
    <3>3. Used(booked', c) <= Used(abandoned, c) + Amount[r]
      BY <3>2, UsedWithOne
    <3>4. Used(booked', c) \in Nat /\ Amount[r] \in Nat
      BY UsedOfPart, ChargeAssumption
    <3> QED BY <2>2, <2>4, <3>1, <3>3, <3>4
  <2>6. CASE c \notin ChargedTo[KeyOf[r]]
    <3>1. Bearing(booked', c) \subseteq Bearing(abandoned, c)
      BY <2>1, <2>6 DEF Bearing
    <3>2. /\ Used(booked', c) \in Nat /\ Used(booked', c) <= Used(abandoned, c)
      BY <3>1, UsedOfPart
    <3> QED BY <2>2, <2>4, <3>2
  <2> QED BY <2>5, <2>6
<1> QED BY <1>1, <1>4, <1>5

LEMMA SettleWithin ==
    ASSUME TypeOK, WithinLimit, NEW m \in sent \cup confirmed, Settle(m)
    PROVE  WithinLimit'
<1> DEFINE k == KeyOf[m.permit]
           e == m.permit
           books == BookedAfter({k}, boot)
<1>1. e \in Requests /\ m.outcome \in {"completed", "suppressed", "unredeemed"}
  BY DEF TypeOK, Settlements
<1>2. ApplySettlement(m)
  BY DEF Settle
<1>3. \A q \in Requests : books[q] \in Charged => booked[q] \in Charged
  BY BookedAfterFewer
<1>4. DOMAIN books = Requests /\ (booked[e] = "released" => books[e] = "released")
  BY <1>1 DEF BookedAfter
<1>5. \/ /\ booked' = [books EXCEPT ![e] = SettledBooking(@, m.outcome)]
         /\ overspent' = overspent \cup (IF m.outcome = "completed" THEN Overspend(e) ELSE {})
      \/ /\ booked[e] \in {"reserved", "held", "released"}
         /\ booked' = [books EXCEPT ![e] = "committed"]
         /\ overspent' = overspent \cup Overspend(e)
      \/ booked' = books /\ overspent' = overspent
  <2>1. \/ /\ booked' = [books EXCEPT ![e] = SettledBooking(@, m.outcome)]
           /\ overspent' = overspent \cup (IF m.outcome = "completed" THEN Overspend(e) ELSE {})
        \/ CommitBooking(e, IF m.outcome = "completed" THEN {"reserved", "held", "released"} ELSE {})
        \/ CommitBooking(e, IF m.outcome = "completed" /\ claim[k].eval = m.permit
                            THEN {"released"} ELSE {})
    BY <1>2, Zenon DEF ApplySettlement
  <2>2. ASSUME NEW from \in SUBSET {"reserved", "held", "released"}, CommitBooking(e, from)
        PROVE  \/ /\ booked[e] \in {"reserved", "held", "released"}
                  /\ booked' = [books EXCEPT ![e] = "committed"]
                  /\ overspent' = overspent \cup Overspend(e)
               \/ booked' = books /\ overspent' = overspent
    <3>1. CASE booked[e] \in from
      BY <2>2, <3>1 DEF CommitBooking
    <3>2. CASE booked[e] \notin from
      BY <2>2, <3>2 DEF CommitBooking
    <3> QED BY <3>1, <3>2
  <2>3. CASE CommitBooking(e, IF m.outcome = "completed" THEN {"reserved", "held", "released"} ELSE {})
    <3> DEFINE from == IF m.outcome = "completed" THEN {"reserved", "held", "released"} ELSE {}
    <3>1. from \in SUBSET {"reserved", "held", "released"}
      OBVIOUS
    <3>2. CommitBooking(e, from)
      BY <2>3
    <3> HIDE DEF from
    <3> QED BY <2>2, <3>1, <3>2
  <2>4. CASE CommitBooking(e, IF m.outcome = "completed" /\ claim[k].eval = m.permit
                              THEN {"released"} ELSE {})
    <3> DEFINE from == IF m.outcome = "completed" /\ claim[k].eval = m.permit
                       THEN {"released"} ELSE {}
    <3>1. from \in SUBSET {"reserved", "held", "released"}
      OBVIOUS
    <3>2. CommitBooking(e, from)
      BY <2>4
    <3> HIDE DEF from
    <3> QED BY <2>2, <3>1, <3>2
  <2> QED BY <2>1, <2>3, <2>4
<1> HIDE DEF books
<1>6. CASE /\ booked' = [books EXCEPT ![e] = SettledBooking(@, m.outcome)]
           /\ overspent' = overspent \cup (IF m.outcome = "completed" THEN Overspend(e) ELSE {})
  <2>1. \A q \in Requests : q # e => booked'[q] = books[q]
    BY <1>4, <1>6
  <2>2. booked'[e] = SettledBooking(books[e], m.outcome)
    BY <1>1, <1>4, <1>6
  <2>3. CASE m.outcome = "completed"
    <3>1. booked'[e] \in Charged => books[e] \in Charged \cup {"released"}
      BY <2>2 DEF SettledBooking, Charged
    <3>2. books[e] = "released" => booked[e] = "released"
      BY <1>1 DEF books, BookedAfter, Swept
    <3>3. booked[e] \in Charged \cup {"released"} \/ booked'[e] \notin Charged
      BY <1>1, <1>3, <3>1, <3>2
    <3> QED BY <1>1, <1>3, <1>6, <2>1, <2>3, <3>3, CommittedWithin
  <2>4. CASE m.outcome # "completed"
    <3>1. booked'[e] \in Charged => books[e] \in Charged
      BY <2>2, <2>4 DEF SettledBooking, Charged
    <3>2. overspent' = overspent
      BY <1>6, <2>4
    <3> QED BY <1>3, <2>1, <3>1, <3>2, FewerWithin
  <2> QED BY <2>3, <2>4
<1>7. CASE /\ booked[e] \in {"reserved", "held", "released"}
           /\ booked' = [books EXCEPT ![e] = "committed"]
           /\ overspent' = overspent \cup Overspend(e)
  <2>1. \A q \in Requests : q # e => booked'[q] = books[q]
    BY <1>4, <1>7
  <2>2. booked[e] \in Charged \cup {"released"}
    BY <1>7 DEF Charged
  <2> QED BY <1>1, <1>3, <1>7, <2>1, <2>2, CommittedWithin
<1>8. CASE booked' = books /\ overspent' = overspent
  BY <1>3, <1>8, FewerWithin
<1> QED BY <1>5, <1>6, <1>7, <1>8

LEMMA StepWithin ==
    ASSUME IInv, WithinLimit, [Next]_vars PROVE WithinLimit'
<1>0. TypeOK
  BY DEF IInv
<1>1. ASSUME UNCHANGED <<booked, overspent>> PROVE WithinLimit'
  BY <1>1 DEF WithinLimit
<1>2. ASSUME NEW r \in Requests, Evaluate(r) PROVE WithinLimit'
  BY <1>0, <1>2, EvaluateWithin
<1>3. ASSUME NEW r \in Requests, NEW b, NEW ks, booked' = BookedAfter(ks, b), overspent' = overspent
      PROVE  WithinLimit'
  BY <1>3, BookedAfterFewer, FewerWithin
<1>4. ASSUME NEW r \in Requests, Persist(r) \/ Redeem(r) \/ Refuse(r) \/ Suppress(r)
                                 \/ Commit(r) \/ Report(r)
      PROVE  WithinLimit'
  BY <1>1, <1>4 DEF Persist, Redeem, Refuse, Suppress, Commit, Report, pdpVars
<1>5. ASSUME NEW r \in Requests, PersistFails(r) PROVE WithinLimit'
  <2>1. /\ overspent' = overspent
        /\ booked' = [booked EXCEPT ![r] = "void"] \/ booked' = booked
    BY <1>5 DEF PersistFails
  <2>2. \A q \in Requests : booked'[q] \in Charged => booked[q] \in Charged
    BY <1>0, <2>1 DEF TypeOK, Charged
  <2> QED BY <2>1, <2>2, FewerWithin
<1>6. ASSUME NEW r \in Requests, AnswerConsumption(r) \/ Retransmit(r) PROVE WithinLimit'
  <2>1. /\ overspent' = overspent
        /\ booked' = booked \/ \E ks : booked' = BookedAfter(ks, boot)
    BY <1>6 DEF AnswerConsumption, Retransmit, AdvanceOnly, pdpVars
  <2> QED BY <1>1, <1>3, <1>6, <2>1
<1>7. ASSUME NEW r \in Requests, OperatorExecuted(r) PROVE WithinLimit'
  <2>1. /\ overspent' = overspent \cup Overspend(r)
        /\ booked[r] \in Charged \cup {"released"}
        /\ booked' = [booked EXCEPT ![r] = "committed"]
    BY <1>7 DEF OperatorExecuted, Charged
  <2>2. \A q \in Requests : q # r => booked'[q] = booked[q]
    BY <1>0, <2>1 DEF TypeOK
  <2> QED BY <1>0, <2>1, <2>2, CommittedWithin
<1>8. ASSUME NEW r \in Requests, OperatorNotExecuted(r) PROVE WithinLimit'
  <2>1. overspent' = overspent /\ booked' = [booked EXCEPT ![r] = "released"]
    BY <1>8 DEF OperatorNotExecuted
  <2>2. \A q \in Requests : booked'[q] \in Charged => booked[q] \in Charged
    BY <1>0, <2>1 DEF TypeOK, Charged
  <2> QED BY <2>1, <2>2, FewerWithin
<1>9. ASSUME NEW m \in sent \cup confirmed, AskRedeemer(m) \/ Lose(m) PROVE WithinLimit'
  BY <1>1, <1>9 DEF AskRedeemer, Lose, pdpVars
<1>10. ASSUME NEW m \in sent \cup confirmed, Settle(m) PROVE WithinLimit'
  BY <1>0, <1>10, SettleWithin
<1>11. ASSUME NEW k \in Keys, Reconcile(k) PROVE WithinLimit'
  <2>1. SweepNow(boot) /\ overspent' = overspent
    BY <1>11 DEF Reconcile
  <2> QED BY <2>1, SweptWithin
<1>12. ASSUME NEW b, SweepNow(b), overspent' = overspent PROVE WithinLimit'
  BY <1>12, SweptWithin
<1>13. CASE Sweep \/ RestartPDP
  BY <1>12, <1>13 DEF Sweep, RestartPDP
<1>14. CASE RestartPEP \/ Tick \/ UNCHANGED vars
  BY <1>1, <1>14 DEF RestartPEP, Tick, vars, pdpVars
<1> QED BY <1>2, <1>4, <1>5, <1>6, <1>7, <1>8, <1>9, <1>10, <1>11, <1>13, <1>14 DEF Next

\* No counter goes over its limit, through any order of evaluations,
\* settlements, sweeps and operators' answers, but by an effect whose
\* reservation was wrongly released, and that overspend is reported.
THEOREM CountersStayWithin == Spec => []WithinLimit
<1>1. Init => IInv /\ WithinLimit
  <2> SUFFICES ASSUME Init, NEW c \in Counters PROVE Used(booked, c) <= Limit[c]
    BY InitIInv DEF WithinLimit
  <2>1. Bearing(booked, c) = {}
    BY DEF Init, Bearing, Charged
  <2>2. Used(booked, c) = 0
    BY <2>1, UsedIs, TotalIs, FS_EmptySet
  <2> QED BY <2>2, ChargeAssumption
<1>2. IInv /\ WithinLimit /\ [Next]_vars => IInv' /\ WithinLimit'
  BY StepIInv, StepWithin
<1> QED BY <1>1, <1>2, PTL DEF Spec

=============================================================================
