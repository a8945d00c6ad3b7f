------------------------ MODULE LifecycleRequests_proofs ------------------------
(***************************************************************************)
(* One decision and one answer per nonce and window, for any number of     *)
(* exchanges and requests and any retention.                               *)
(***************************************************************************)
EXTENDS LifecycleRequests, SequenceTheorems, TLAPS

Last == decided[Len(decided)]

\* The row, expired or not, retains the last decision for its whole window.
RowIsLast ==
    IF row = None THEN decided = <<>>
    ELSE /\ decided # <<>>
         /\ row.request = Last.request /\ row.status = Last.status /\ row.seen = Last.seen
         /\ row.expires = Last.seen.at + Window(Last)
         /\ ~row.final => row.status = "ok"

\* Nothing is decided ahead of the clock.
PastDecisions == \A i \in 1 .. Len(decided) : decided[i].seen.at <= now

\* A pending exchange reports the decision the row retains, within its window.
PendingOnRow ==
    \A x \in Exchanges : exchange[x].at \in Pending =>
        /\ row # None /\ row.status = "ok"
        /\ row.request = exchange[x].request /\ row.seen = exchange[x].seen
        /\ exchange[x].until = row.expires /\ now <= row.expires
        /\ row.seen.at <= exchange[x].arrived /\ exchange[x].arrived <= row.expires

\* A response in the window of the last decision is the one the row retains.
AnsweredFromRow ==
    \A x \in Responses :
        decided # <<>> /\ Covers(Last, exchange[x].arrived)
           => row.final /\ exchange[x].answer = Response(row)

IInv ==
    /\ TypeOK /\ OneDecision /\ OneAnswer
    /\ RowIsLast /\ PastDecisions /\ PendingOnRow /\ AnsweredFromRow


Decisions == [request : Requests, status : {"ok", "refused"}, seen : Observations]
ExchangeType ==
    [at : {"idle", "answered", "lost"} \cup Pending, request : Requests \cup {None},
     arrived : Nat, until : Nat, seen : Observations, answer : Answers]

-----------------------------------------------------------------------------
(* Types                                                                   *)

LEMMA ConstantTypes ==
    /\ Operation \in [Requests -> Operations] /\ Expected \in [Requests -> Nat]
    /\ Retention \in Nat /\ Validity \in Nat /\ Horizon \in Nat
    /\ None \notin Rows
BY RequestAssumption

LEMMA WindowType == ASSUME NEW d PROVE Window(d) \in Nat
BY ConstantTypes DEF Window

LEMMA NothingType == Nothing \in Observations /\ Unserved \in Answers /\ Divergent \in Answers
BY DEF Nothing, Unserved, Divergent, Observations, Answers, States, Live

LEMMA ObservedType ==
    ASSUME NEW m \in [state : States, version : Nat, contained : BOOLEAN], now \in Nat
    PROVE  Observed(m) \in Observations /\ Observed(m).at = now
BY DEF Observed, Observations

LEMMA ResponseType ==
    ASSUME NEW kept \in Rows
    PROVE  Response(kept) \in Answers /\ Response(kept) # Divergent
BY DEF Response, Rows, Answers, Divergent

LEMMA CommittedType ==
    ASSUME TypeOK, NEW r \in Requests
    PROVE  Committed(r) \in [state : States, version : Nat, contained : BOOLEAN]
<1> DEFINE Mission == [state : States, version : Nat, contained : BOOLEAN]
<1>1. Operation[r] \in Operations
  BY ConstantTypes
<1>2. mission \in Mission /\ mission.version + 1 \in Nat
  BY DEF TypeOK
<1>3. CASE Operation[r] = "contain"
  <2>1. [mission EXCEPT !.contained = TRUE, !.version = @ + 1] \in Mission
    BY <1>2
  <2> QED BY <2>1, <1>2, <1>3, Zenon DEF Committed
<1>4. CASE Operation[r] # "contain"
  <2>1. Target[Operation[r]] \in States
    BY <1>1, <1>4 DEF Target, Operations, States, Live
  <2>2. [mission EXCEPT !.state = Target[Operation[r]], !.version = @ + 1] \in Mission
    BY <2>1, <1>2
  <2> QED BY <2>2, <1>2, <1>4, Zenon DEF Committed
<1> QED BY <1>3, <1>4

\* Answer gives the exchange its request, its arrival and its answer.
LEMMA AnswerEffect ==
    ASSUME TypeOK, NEW x \in Exchanges, NEW r \in Requests, NEW a \in Answers, Answer(x, r, a)
    PROVE  /\ exchange' \in [Exchanges -> ExchangeType]
           /\ \A y \in Exchanges \ {x} : exchange'[y] = exchange[y]
           /\ exchange'[x].at = "answered" /\ exchange'[x].request = r
           /\ exchange'[x].arrived = now /\ exchange'[x].answer = a
<1> DEFINE e == [exchange[x] EXCEPT !.at = "answered", !.request = r, !.arrived = now, !.answer = a]
<1>1. exchange \in [Exchanges -> ExchangeType] /\ now \in Nat
  BY DEF TypeOK, ExchangeType
<1>2. exchange' = [exchange EXCEPT ![x] = e]
  BY DEF Answer
<1>3. e \in ExchangeType /\ e.at = "answered" /\ e.request = r /\ e.arrived = now /\ e.answer = a
  BY <1>1 DEF ExchangeType
<1> HIDE DEF e
<1> QED BY <1>1, <1>2, <1>3

\* Await gives it what it will report, and until when.
LEMMA AwaitEffect ==
    ASSUME TypeOK, NEW x \in Exchanges, NEW r \in Requests, NEW phase \in Pending,
           NEW seen \in Observations, NEW until \in Nat, Await(x, r, phase, seen, until)
    PROVE  /\ exchange' \in [Exchanges -> ExchangeType]
           /\ \A y \in Exchanges \ {x} : exchange'[y] = exchange[y]
           /\ exchange'[x].at = phase /\ exchange'[x].request = r
           /\ exchange'[x].arrived = now /\ exchange'[x].seen = seen /\ exchange'[x].until = until
<1> DEFINE e == [exchange[x] EXCEPT !.at = phase, !.request = r, !.arrived = now,
                                    !.seen = seen, !.until = until]
<1>1. exchange \in [Exchanges -> ExchangeType] /\ now \in Nat
  BY DEF TypeOK, ExchangeType
<1>2. exchange' = [exchange EXCEPT ![x] = e]
  BY DEF Await
<1>3. /\ e \in ExchangeType /\ e.at = phase /\ e.request = r /\ e.arrived = now
      /\ e.seen = seen /\ e.until = until
  BY <1>1 DEF ExchangeType
<1> HIDE DEF e
<1> QED BY <1>1, <1>2, <1>3

-----------------------------------------------------------------------------
(* What the row says of the decisions                                      *)

LEMMA DecisionTypes ==
    ASSUME TypeOK
    PROVE  /\ decided \in Seq(Decisions) /\ Len(decided) \in Nat
           /\ \A i \in 1 .. Len(decided) :
                 decided[i] \in Decisions /\ i \in Nat /\ decided[i].seen.at \in Nat
<1>1. decided \in Seq(Decisions)
  BY DEF TypeOK, Decisions
<1>2. Len(decided) \in Nat /\ \A i \in 1 .. Len(decided) : decided[i] \in Decisions /\ i \in Nat
  BY <1>1
<1>3. \A d \in Decisions : d.seen.at \in Nat
  BY DEF Decisions, Observations
<1> QED BY <1>1, <1>2, <1>3

LEMMA LastIsDecision ==
    ASSUME TypeOK, decided # <<>>
    PROVE  /\ Len(decided) \in Nat \ {0} /\ Len(decided) \in 1 .. Len(decided)
           /\ Last \in Decisions /\ Last.seen.at \in Nat
<1>1. Len(decided) \in Nat \ {0}
  BY DecisionTypes
<1>2. Len(decided) \in 1 .. Len(decided)
  BY <1>1
<1> QED BY <1>1, <1>2, DecisionTypes DEF Last

\* A row within its window covers every arrival from its decision on.
LEMMA RowCovers ==
    ASSUME TypeOK, RowIsLast, row # None, NEW t \in Nat, row.seen.at <= t, t <= row.expires
    PROVE  decided # <<>> /\ Covers(Last, t)
<1>1. decided # <<>> /\ row.seen = Last.seen /\ row.expires = Last.seen.at + Window(Last)
  BY DEF RowIsLast
<1> QED BY <1>1 DEF Covers

\* Where the nonce is free, every earlier window is over.
LEMMA FreeNonce ==
    ASSUME TypeOK, OneDecision, RowIsLast, Found = None, NEW i \in 1 .. Len(decided)
    PROVE  now > decided[i].seen.at + Window(decided[i])
<1>1. decided # <<>> /\ Len(decided) \in Nat /\ decided[i] \in Decisions /\ i \in Nat
  BY DecisionTypes
<1>2. row # None
  BY <1>1 DEF RowIsLast
<1>3. row \in Rows
  BY <1>2 DEF TypeOK
<1>4. now > row.expires /\ row.expires = Last.seen.at + Window(Last)
  BY <1>2 DEF Found, Unexpired, RowIsLast
<1>5. Last \in Decisions /\ Last.seen.at \in Nat /\ decided[i].seen.at \in Nat /\ now \in Nat
  BY <1>1, LastIsDecision, DecisionTypes DEF TypeOK
<1>6. CASE i = Len(decided)
  BY <1>4, <1>6 DEF Last
<1>7. CASE i # Len(decided)
  <2>1. i < Len(decided) /\ Len(decided) \in 1 .. Len(decided)
    BY <1>1, <1>7
  <2>2. Last.seen.at > decided[i].seen.at + Window(decided[i])
    BY <2>1 DEF OneDecision, Last
  <2> QED BY <2>2, <1>4, <1>5, WindowType
<1> QED BY <1>6, <1>7

-----------------------------------------------------------------------------
(* Steps that decide nothing                                               *)

Divergence(x) ==
    exchange[x].at = "answered" /\ exchange[x].answer = Divergent
        => \E i \in 1 .. Len(decided) :
              Covers(decided[i], exchange[x].arrived) /\ decided[i].request # exchange[x].request

Reported(x) ==
    \E i \in 1 .. Len(decided) :
          /\ Covers(decided[i], exchange[x].arrived)
          /\ decided[i].request = exchange[x].request
          /\ decided[i].status = exchange[x].answer.status
          /\ decided[i].seen = exchange[x].answer.seen

Alike(x, y) ==
    \A i \in 1 .. Len(decided) :
          Covers(decided[i], exchange[x].arrived) /\ Covers(decided[i], exchange[y].arrived)
             => exchange[x].answer = exchange[y].answer

LEMMA AnswerParts ==
    OneAnswer <=> /\ \A x \in Responses : Reported(x)
                  /\ \A x, y \in Responses : Alike(x, y)
                  /\ \A x \in Exchanges : Divergence(x)
BY Zenon DEF OneAnswer, Reported, Alike, Divergence

\* What one pending exchange owes to the row.
OnRow(x) ==
    exchange[x].at \in Pending =>
        /\ row # None /\ row.status = "ok"
        /\ row.request = exchange[x].request /\ row.seen = exchange[x].seen
        /\ exchange[x].until = row.expires /\ now <= row.expires
        /\ row.seen.at <= exchange[x].arrived /\ exchange[x].arrived <= row.expires

\* One exchange moves, and the row at most gets its bytes.
LEMMA Frame ==
    ASSUME IInv, TypeOK', decided' = decided, now' = now,
           \/ row' = row
           \/ /\ row # None /\ row' # None /\ ~row.final /\ row'.final
              /\ row'.request = row.request /\ row'.status = row.status
              /\ row'.seen = row.seen /\ row'.expires = row.expires,
           NEW x \in Exchanges,
           \A y \in Exchanges \ {x} : exchange'[y] = exchange[y],
           OnRow(x)', Divergence(x)',
           x \in Responses' =>
              /\ row # None /\ row'.final /\ exchange'[x].answer = Response(row')
              /\ exchange'[x].request = row.request /\ Covers(Last, exchange'[x].arrived)
    PROVE  IInv'
<1>1. OneDecision'
  BY DEF IInv, OneDecision, Covers, Window
<1>2. RowIsLast'
  BY DEF IInv, RowIsLast, Last, Window
<1>3. PendingOnRow'
  <2> SUFFICES ASSUME NEW y \in Exchanges PROVE OnRow(y)'
    BY DEF PendingOnRow, OnRow
  <2>1. CASE y = x
    BY <2>1
  <2>2. CASE y # x
    <3>1. OnRow(y) /\ exchange'[y] = exchange[y]
      BY <2>2 DEF IInv, PendingOnRow, OnRow
    <3> QED BY <3>1 DEF OnRow
  <2> QED BY <2>1, <2>2
<1>4. \A y \in Responses' \ {x} : y \in Responses /\ exchange'[y] = exchange[y]
  BY DEF Responses
<1>5. row = None \/ (row'.status = row.status /\ row'.seen = row.seen /\ row'.request = row.request)
  OBVIOUS
<1>6. x \in Responses' =>
         /\ decided # <<>> /\ Len(decided) \in 1 .. Len(decided)
         /\ row.request = Last.request /\ row.status = Last.status /\ row.seen = Last.seen
  BY LastIsDecision DEF IInv, RowIsLast
<1>7. \A y \in Responses' : Reported(y)'
  <2> SUFFICES ASSUME NEW y \in Responses' PROVE Reported(y)'
    OBVIOUS
  <2>1. CASE y = x
    <3>1. /\ exchange'[x].answer.status = Last.status /\ exchange'[x].answer.seen = Last.seen
          /\ exchange'[x].request = Last.request /\ Covers(Last, exchange'[x].arrived)
      BY <2>1, <1>5, <1>6 DEF Response
    <3> QED BY <3>1, <2>1, <1>6 DEF Reported, Last, Covers, Window
  <2>2. CASE y # x
    BY <2>2, <1>4, AnswerParts DEF IInv, Reported, Covers, Window
  <2> QED BY <2>1, <2>2
<1>8. AnsweredFromRow'
  <2> SUFFICES ASSUME NEW y \in Responses', decided # <<>>, Covers(Last, exchange'[y].arrived)
               PROVE  row'.final /\ exchange'[y].answer = Response(row')
    BY DEF AnsweredFromRow, Last, Covers, Window
  <2>1. CASE y = x
    BY <2>1
  <2>2. CASE y # x
    <3>1. row.final /\ exchange'[y].answer = Response(row)
      BY <2>2, <1>4 DEF IInv, AnsweredFromRow
    <3> QED BY <3>1
  <2> QED BY <2>1, <2>2
<1>9. \A y, z \in Responses' : Alike(y, z)'
  <2> SUFFICES ASSUME NEW y \in Responses', NEW z \in Responses', NEW i \in 1 .. Len(decided),
                      Covers(decided[i], exchange'[y].arrived), Covers(decided[i], exchange'[z].arrived)
               PROVE  exchange'[y].answer = exchange'[z].answer
    BY DEF Alike, Covers, Window
  <2>1. CASE y # x /\ z # x
    BY <2>1, <1>4, AnswerParts DEF IInv, Alike
  <2>2. CASE y = x \/ z = x
    <3>1. i = Len(decided)
      <4>1. PICK t \in Nat : Covers(decided[i], t) /\ Covers(Last, t)
        <5>1. exchange'[x].arrived \in Nat
          BY DEF TypeOK
        <5> QED BY <5>1, <2>2
      <4>2. i \in Nat /\ Len(decided) \in Nat /\ i <= Len(decided)
        BY DecisionTypes DEF IInv
      <4>3. decided[i].seen.at \in Nat /\ Last.seen.at \in Nat
        BY DecisionTypes, LastIsDecision, <1>6, <2>2 DEF IInv
      <4>4. ASSUME i # Len(decided) PROVE FALSE
        <5>1. Last.seen.at > decided[i].seen.at + Window(decided[i])
          BY <4>2, <4>4, <1>6, <2>2 DEF IInv, OneDecision, Last
        <5> QED BY <5>1, <4>1, <4>3, WindowType DEF Covers
      <4> QED BY <4>4
    <3>2. /\ Covers(Last, exchange'[y].arrived) /\ Covers(Last, exchange'[z].arrived)
          /\ decided' # <<>>
      BY <3>1, <1>6, <2>2 DEF Last
    <3> QED BY <3>2, <1>8 DEF AnsweredFromRow, Last, Covers, Window
  <2> QED BY <2>1, <2>2
<1>10. \A y \in Exchanges : Divergence(y)'
  <2> SUFFICES ASSUME NEW y \in Exchanges PROVE Divergence(y)'
    OBVIOUS
  <2>1. CASE y = x
    BY <2>1
  <2>2. CASE y # x
    BY <2>2, AnswerParts DEF IInv, Divergence, Covers, Window
  <2> QED BY <2>1, <2>2
<1>11. OneAnswer'
  BY <1>7, <1>9, <1>10 DEF OneAnswer, Reported, Alike, Divergence
<1>12. PastDecisions'
  BY DEF IInv, PastDecisions
<1> QED BY <1>1, <1>2, <1>3, <1>8, <1>11, <1>12 DEF IInv

-----------------------------------------------------------------------------
(* Steps that decide                                                       *)

\* While an exchange is pending, its nonce is not free.
LEMMA PendingHoldsNonce ==
    ASSUME IInv, Found = None, NEW x \in Exchanges
    PROVE  exchange[x].at \notin Pending
<1> SUFFICES ASSUME exchange[x].at \in Pending PROVE FALSE
  OBVIOUS
<1>1. row # None /\ now <= row.expires
  BY DEF IInv, PendingOnRow
<1>2. now \in Nat /\ row.expires \in Nat
  BY <1>1 DEF IInv, TypeOK, Rows
<1> QED BY <1>1, <1>2 DEF Found, Unexpired

\* The nonce is free, and one exchange decides and writes the row.
LEMMA Decide ==
    ASSUME IInv, TypeOK', now' = now, Found = None,
           NEW d \in Decisions, d.seen.at = now, decided' = Append(decided, d),
           row' # None, row'.request = d.request, row'.status = d.status, row'.seen = d.seen,
           row'.expires = now + Window(d), ~row'.final => row'.status = "ok",
           NEW x \in Exchanges,
           \A y \in Exchanges \ {x} : exchange'[y] = exchange[y],
           OnRow(x)', exchange'[x].at = "answered" => exchange'[x].answer # Divergent,
           x \in Responses' =>
              /\ row'.final /\ exchange'[x].answer = Response(row')
              /\ exchange'[x].request = d.request /\ exchange'[x].arrived = now
    PROVE  IInv'
<1> DEFINE n == Len(decided)
<1>1. /\ n \in Nat /\ Len(decided') = n + 1 /\ decided'[n + 1] = d
      /\ \A i \in 1 .. n : decided'[i] = decided[i] /\ i \in 1 .. n + 1
      /\ \A i \in 1 .. n + 1 : i = n + 1 \/ i \in 1 .. n
      /\ n + 1 \in 1 .. n + 1 /\ decided' # <<>>
  BY DecisionTypes DEF IInv
<1>2. Last' = d
  BY <1>1 DEF Last
<1>3. \A i \in 1 .. n : now > decided[i].seen.at + Window(decided[i])
  BY FreeNonce DEF IInv
<1>4. \A y \in Responses' \ {x} : y \in Responses /\ exchange'[y] = exchange[y]
  BY DEF Responses
<1>5. now \in Nat /\ \A y \in Exchanges : exchange'[y].arrived \in Nat /\ exchange[y].arrived \in Nat
  BY DEF IInv, TypeOK
<1>6. \A y \in Responses : ~Covers(d, exchange[y].arrived)
  <2> SUFFICES ASSUME NEW y \in Responses, Covers(d, exchange[y].arrived) PROVE FALSE
    OBVIOUS
  <2>1. PICK i \in 1 .. n : Covers(decided[i], exchange[y].arrived)
    BY AnswerParts DEF IInv, Reported
  <2>2. y \in Exchanges /\ decided[i].seen.at \in Nat
    BY DecisionTypes DEF IInv, Responses
  <2> QED BY <2>1, <2>2, <1>3, <1>5, WindowType DEF Covers
<1>7. \A i \in 1 .. n : ~Covers(decided[i], now)
  <2> TAKE i \in 1 .. n
  <2>1. decided[i].seen.at \in Nat
    BY DecisionTypes DEF IInv
  <2> QED BY <2>1, <1>3, <1>5, WindowType DEF Covers
<1> HIDE DEF n
<1>8. OneDecision'
  <2> SUFFICES ASSUME NEW i \in 1 .. n + 1, NEW j \in 1 .. n + 1, i < j
               PROVE  decided'[j].seen.at > decided'[i].seen.at + Window(decided'[i])
    BY <1>1 DEF OneDecision, Window
  <2>1. i \in 1 .. n
    BY <1>1
  <2>2. CASE j = n + 1
    BY <2>1, <2>2, <1>1, <1>3
  <2>3. CASE j \in 1 .. n
    BY <2>1, <2>3, <1>1 DEF IInv, OneDecision, n
  <2> QED BY <2>2, <2>3, <1>1
<1>9. RowIsLast'
  BY <1>1, <1>2 DEF RowIsLast, Window
<1>10. PendingOnRow'
  <2> SUFFICES ASSUME NEW y \in Exchanges PROVE OnRow(y)'
    BY DEF PendingOnRow, OnRow
  <2>1. CASE y # x
    BY <2>1, PendingHoldsNonce DEF OnRow
  <2> QED BY <2>1
<1>11. \A y \in Responses' : Reported(y)'
  <2> SUFFICES ASSUME NEW y \in Responses' PROVE Reported(y)'
    OBVIOUS
  <2>1. CASE y = x
    <3>1. Covers(d, exchange'[x].arrived)
      BY <2>1, <1>5, WindowType DEF Covers
    <3>2. exchange'[x].answer.status = d.status /\ exchange'[x].answer.seen = d.seen
      BY <2>1 DEF Response
    <3> QED BY <3>1, <3>2, <2>1, <1>1 DEF Reported, Covers, Window
  <2>2. CASE y # x
    <3>1. PICK i \in 1 .. n : /\ Covers(decided[i], exchange[y].arrived)
                              /\ decided[i].request = exchange[y].request
                              /\ decided[i].status = exchange[y].answer.status
                              /\ decided[i].seen = exchange[y].answer.seen
      BY <2>2, <1>4, AnswerParts DEF IInv, Reported, n
    <3>2. decided'[i] = decided[i] /\ i \in 1 .. Len(decided')
      BY <1>1
    <3> QED BY <3>1, <3>2, <2>2, <1>4 DEF Reported, Covers, Window
  <2> QED BY <2>1, <2>2
<1>12. AnsweredFromRow'
  <2> SUFFICES ASSUME NEW y \in Responses', Covers(d, exchange'[y].arrived)
               PROVE  row'.final /\ exchange'[y].answer = Response(row')
    BY <1>2 DEF AnsweredFromRow, Covers, Window
  <2>1. CASE y # x
    BY <2>1, <1>4, <1>6
  <2> QED BY <2>1
<1>13. \A y, z \in Responses' : Alike(y, z)'
  <2> SUFFICES ASSUME NEW y \in Responses', NEW z \in Responses', NEW i \in 1 .. n + 1,
                      Covers(decided'[i], exchange'[y].arrived),
                      Covers(decided'[i], exchange'[z].arrived)
               PROVE  exchange'[y].answer = exchange'[z].answer
    BY <1>1 DEF Alike, Covers, Window
  <2>1. CASE i = n + 1
    BY <2>1, <1>1, <1>2, <1>12 DEF AnsweredFromRow, Covers, Window
  <2>2. CASE i \in 1 .. n
    <3>1. decided'[i] = decided[i]
      BY <2>2, <1>1
    <3>2. y # x /\ z # x
      BY <3>1, <2>2, <1>7
    <3>3. /\ Alike(y, z) /\ exchange'[y] = exchange[y] /\ exchange'[z] = exchange[z]
          /\ Covers(decided[i], exchange[y].arrived) /\ Covers(decided[i], exchange[z].arrived)
      BY <3>1, <3>2, <1>4, AnswerParts DEF IInv
    <3> QED BY <3>3, <2>2 DEF Alike, n
  <2> QED BY <2>1, <2>2, <1>1
<1>14. \A y \in Exchanges : Divergence(y)'
  <2> SUFFICES ASSUME NEW y \in Exchanges, exchange'[y].at = "answered",
                      exchange'[y].answer = Divergent
               PROVE  \E i \in 1 .. Len(decided') :
                         /\ Covers(decided'[i], exchange'[y].arrived)
                         /\ decided'[i].request # exchange'[y].request
    BY NothingType DEF Divergence, Divergent, Nothing, Covers, Window
  <2>1. y # x /\ exchange'[y] = exchange[y]
    OBVIOUS
  <2>2. PICK i \in 1 .. n : /\ Covers(decided[i], exchange[y].arrived)
                            /\ decided[i].request # exchange[y].request
    BY <2>1, AnswerParts DEF IInv, Divergence, n
  <2>3. decided'[i] = decided[i] /\ i \in 1 .. Len(decided')
    BY <1>1
  <2> QED BY <2>1, <2>2, <2>3
<1>15. OneAnswer'
  BY <1>11, <1>13, <1>14 DEF OneAnswer, Reported, Alike, Divergence
<1>16. PastDecisions'
  <2> SUFFICES ASSUME NEW i \in 1 .. n + 1 PROVE decided'[i].seen.at <= now
    BY <1>1 DEF PastDecisions
  <2>1. CASE i = n + 1
    BY <2>1, <1>1, <1>5
  <2>2. CASE i \in 1 .. n
    BY <2>2, <1>1 DEF IInv, PastDecisions, n
  <2> QED BY <2>1, <2>2, <1>1
<1> QED BY <1>8, <1>9, <1>10, <1>12, <1>15, <1>16 DEF IInv

-----------------------------------------------------------------------------
(* The actions                                                             *)

\* What an exchange that finds the row may rely on.
LEMMA FoundRow ==
    ASSUME IInv, Found # None
    PROVE  /\ Found = row /\ row \in Rows /\ decided # <<>> /\ Covers(Last, now)
           /\ row.seen.at <= now /\ now <= row.expires
           /\ Len(decided) \in 1 .. Len(decided) /\ Last.request = row.request
<1>1. Found = row /\ row # None /\ ~(now > row.expires)
  BY DEF Found, Unexpired
<1>2. row \in Rows /\ now \in Nat /\ row.expires \in Nat
  BY <1>1 DEF IInv, TypeOK, Rows
<1>3. decided # <<>> /\ row.seen = Last.seen /\ Last.request = row.request
  BY <1>1 DEF IInv, RowIsLast
<1>4. Len(decided) \in 1 .. Len(decided) /\ Last.seen.at <= now
  BY <1>3, LastIsDecision DEF IInv, PastDecisions, Last
<1> QED BY <1>1, <1>2, <1>3, <1>4, RowCovers DEF IInv

\* Nothing but the exchange's own record changes.
Untouched == UNCHANGED <<now, mission, row, decided, moves, crashes>>

LEMMA UntouchedTypes ==
    ASSUME TypeOK, Untouched, exchange' \in [Exchanges -> ExchangeType]
    PROVE  TypeOK'
BY DEF TypeOK, Untouched, ExchangeType

LEMMA StepTurnAway ==
    ASSUME IInv, NEW x \in Exchanges, NEW r \in Requests, TurnAway(x, r)
    PROVE  IInv'
<1>1. Untouched /\ Answer(x, r, Unserved) /\ TypeOK
  BY DEF TurnAway, Untouched, IInv
<1>2. /\ exchange' \in [Exchanges -> ExchangeType]
      /\ \A y \in Exchanges \ {x} : exchange'[y] = exchange[y]
      /\ exchange'[x].at = "answered" /\ exchange'[x].answer = Unserved
  BY <1>1, AnswerEffect, NothingType
<1>3. TypeOK' /\ decided' = decided /\ now' = now /\ row' = row
  BY <1>1, <1>2, UntouchedTypes DEF Untouched
<1>4. x \notin Responses' /\ OnRow(x)' /\ Divergence(x)'
  BY <1>2 DEF Responses, OnRow, Pending, Divergence, Unserved, Divergent
<1> QED BY <1>2, <1>3, <1>4, Frame

LEMMA StepRefuseDivergent ==
    ASSUME IInv, NEW x \in Exchanges, NEW r \in Requests, RefuseDivergent(x, r)
    PROVE  IInv'
<1>1. Untouched /\ Answer(x, r, Divergent) /\ TypeOK /\ Found # None /\ Found.request # r
  BY DEF RefuseDivergent, Untouched, IInv
<1>2. /\ exchange' \in [Exchanges -> ExchangeType]
      /\ \A y \in Exchanges \ {x} : exchange'[y] = exchange[y]
      /\ exchange'[x].at = "answered" /\ exchange'[x].answer = Divergent
      /\ exchange'[x].request = r /\ exchange'[x].arrived = now
  BY <1>1, AnswerEffect, NothingType
<1>3. TypeOK' /\ decided' = decided /\ now' = now /\ row' = row
  BY <1>1, <1>2, UntouchedTypes DEF Untouched
<1>4. Covers(Last, now) /\ Last.request # r /\ Len(decided) \in 1 .. Len(decided)
  BY <1>1, FoundRow
<1>5. x \notin Responses' /\ OnRow(x)'
  BY <1>2 DEF Responses, OnRow, Pending, Divergent
<1>6. Divergence(x)'
  BY <1>2, <1>3, <1>4 DEF Divergence, Last, Covers, Window
<1> QED BY <1>2, <1>3, <1>5, <1>6, Frame

LEMMA StepReplay ==
    ASSUME IInv, NEW x \in Exchanges, NEW r \in Requests, Replay(x, r)
    PROVE  IInv'
<1>1. /\ Untouched /\ Answer(x, r, Response(Found)) /\ TypeOK
      /\ Found # None /\ Found.request = r /\ Found.final
  BY DEF Replay, Untouched, IInv
<1>2. Found = row /\ row \in Rows /\ Covers(Last, now)
  BY <1>1, FoundRow
<1>3. /\ exchange' \in [Exchanges -> ExchangeType]
      /\ \A y \in Exchanges \ {x} : exchange'[y] = exchange[y]
      /\ exchange'[x].at = "answered" /\ exchange'[x].answer = Response(row)
      /\ exchange'[x].request = r /\ exchange'[x].arrived = now
  BY <1>1, <1>2, AnswerEffect, ResponseType
<1>4. TypeOK' /\ decided' = decided /\ now' = now /\ row' = row
  BY <1>1, <1>3, UntouchedTypes DEF Untouched
<1>5. OnRow(x)' /\ Divergence(x)'
  BY <1>2, <1>3, ResponseType DEF OnRow, Pending, Divergence
<1>6. row # None /\ row'.final /\ exchange'[x].answer = Response(row')
      /\ exchange'[x].request = row.request /\ Covers(Last, exchange'[x].arrived)
  BY <1>1, <1>2, <1>3, <1>4
<1> QED BY <1>3, <1>4, <1>5, <1>6, Frame

LEMMA StepRecover ==
    ASSUME IInv, NEW x \in Exchanges, NEW r \in Requests, Recover(x, r)
    PROVE  IInv'
<1>1. /\ Untouched /\ Await(x, r, "signing", Found.seen, Found.expires) /\ TypeOK
      /\ Found # None /\ Found.request = r /\ ~Found.final
  BY DEF Recover, Untouched, IInv
<1>2. Found = row /\ row \in Rows /\ row.seen.at <= now /\ now <= row.expires
  BY <1>1, FoundRow
<1>3. row.seen \in Observations /\ row.expires \in Nat /\ row.status = "ok" /\ row # None
  BY <1>1, <1>2 DEF Rows, IInv, RowIsLast
<1>4. /\ exchange' \in [Exchanges -> ExchangeType]
      /\ \A y \in Exchanges \ {x} : exchange'[y] = exchange[y]
      /\ exchange'[x].at = "signing" /\ exchange'[x].request = r /\ exchange'[x].arrived = now
      /\ exchange'[x].seen = row.seen /\ exchange'[x].until = row.expires
  BY <1>1, <1>2, <1>3, AwaitEffect DEF Pending
<1>5. TypeOK' /\ decided' = decided /\ now' = now /\ row' = row
  BY <1>1, <1>4, UntouchedTypes DEF Untouched
<1>6. x \notin Responses' /\ Divergence(x)'
  BY <1>4 DEF Responses, Divergence
<1>7. OnRow(x)'
  BY <1>1, <1>2, <1>3, <1>4, <1>5 DEF OnRow
<1> QED BY <1>4, <1>5, <1>6, <1>7, Frame

\* The claim of a commit lasts for the window the commit opens.
LEMMA ClaimEffect ==
    ASSUME TypeOK, NEW r \in Requests, NEW seen \in Observations
    PROVE  LET claim == Claimed(r, seen)
               d == [request |-> r, status |-> "ok", seen |-> seen]
           IN /\ claim \in Rows /\ claim.request = r /\ claim.status = "ok" /\ claim.seen = seen
              /\ claim.final = FALSE /\ claim.expires = ClaimedUntil(r)
              /\ ClaimedUntil(r) \in Nat /\ ClaimedUntil(r) = now + Window(d)
              /\ d \in Decisions
<1>1. now \in Nat /\ Retention \in Nat /\ Validity \in Nat
  BY ConstantTypes DEF TypeOK
<1>2. ClaimedUntil(r) \in Nat
  BY <1>1 DEF ClaimedUntil
<1>3. ClaimedUntil(r) = now + Window([request |-> r, status |-> "ok", seen |-> seen])
  BY <1>1 DEF ClaimedUntil, Window
<1> QED BY <1>2, <1>3 DEF Claimed, Rows, Decisions

LEMMA AppendType ==
    ASSUME TypeOK, NEW d \in Decisions PROVE Append(decided, d) \in Seq(Decisions)
BY DecisionTypes

LEMMA StepExecute ==
    ASSUME IInv, NEW x \in Exchanges, NEW r \in Requests, Execute(x, r)
    PROVE  IInv'
<1> DEFINE seen == Observed(mission')
           d == [request |-> r, status |-> "ok", seen |-> seen]
           phase == IF mission'.state \in Live THEN "signing" ELSE "granting"
<1>1. /\ Found = None /\ mission' = Committed(r) /\ row' = Claimed(r, seen) /\ TypeOK
      /\ Await(x, r, phase, seen, ClaimedUntil(r)) /\ decided' = Append(decided, d)
      /\ now' = now /\ moves' = moves /\ crashes' = crashes
  BY DEF Execute, IInv
<1>2. /\ mission' \in [state : States, version : Nat, contained : BOOLEAN]
      /\ now \in Nat /\ seen \in Observations /\ seen.at = now
  BY <1>1, CommittedType, ObservedType DEF TypeOK
<1>3. phase \in Pending
  BY DEF Pending
<1> HIDE DEF seen, phase
<1>4. /\ row' \in Rows /\ row'.request = r /\ row'.status = "ok" /\ row'.seen = seen
      /\ row'.final = FALSE /\ row'.expires = ClaimedUntil(r)
      /\ ClaimedUntil(r) \in Nat /\ ClaimedUntil(r) = now + Window(d) /\ d \in Decisions
  <2>1. TypeOK /\ seen \in Observations /\ row' = Claimed(r, seen)
    BY <1>1, <1>2
  <2>2. /\ Claimed(r, seen) \in Rows /\ Claimed(r, seen).request = r
        /\ Claimed(r, seen).status = "ok" /\ Claimed(r, seen).seen = seen
        /\ Claimed(r, seen).final = FALSE /\ Claimed(r, seen).expires = ClaimedUntil(r)
        /\ ClaimedUntil(r) \in Nat /\ ClaimedUntil(r) = now + Window(d) /\ d \in Decisions
    BY ONLY <2>1, ClaimEffect
  <2> QED BY ONLY <2>1, <2>2
<1>5. /\ exchange' \in [Exchanges -> ExchangeType]
      /\ \A y \in Exchanges \ {x} : exchange'[y] = exchange[y]
      /\ exchange'[x].at = phase /\ exchange'[x].request = r /\ exchange'[x].arrived = now
      /\ exchange'[x].seen = seen /\ exchange'[x].until = ClaimedUntil(r)
  BY <1>1, <1>2, <1>3, <1>4, AwaitEffect
<1>6. TypeOK'
  BY <1>1, <1>2, <1>4, <1>5, AppendType DEF TypeOK, ExchangeType, Decisions
<1>7. row' # None
  BY <1>4, ConstantTypes
<1>8. x \notin Responses' /\ exchange'[x].at # "answered"
  BY <1>3, <1>5 DEF Responses, Pending
<1>9. now <= ClaimedUntil(r)
  BY <1>2, <1>4, WindowType
<1>10. OnRow(x)'
  BY <1>1, <1>2, <1>4, <1>5, <1>7, <1>9 DEF OnRow
<1>11. d.request = r /\ d.status = "ok" /\ d.seen = seen
  OBVIOUS
<1> HIDE DEF d
<1> QED BY <1>1, <1>2, <1>4, <1>5, <1>6, <1>7, <1>8, <1>10, <1>11, Decide

LEMMA StepRefuse ==
    ASSUME IInv, NEW x \in Exchanges, NEW r \in Requests, Refuse(x, r)
    PROVE  IInv'
<1> DEFINE seen == Observed(mission)
           refusal == [status |-> "refused", seen |-> seen, by |-> Same]
           d == [request |-> r, status |-> "refused", seen |-> seen]
<1>1. /\ Found = None /\ row' = Recorded(Found, r, refusal) /\ TypeOK
      /\ Answer(x, r, Delivered(r, refusal, row')) /\ decided' = Append(decided, d)
      /\ now' = now /\ mission' = mission /\ moves' = moves /\ crashes' = crashes
  BY DEF Refuse, IInv
<1>2. now \in Nat /\ Retention \in Nat /\ seen \in Observations /\ seen.at = now
  BY <1>1, ObservedType, ConstantTypes DEF TypeOK
<1> HIDE DEF seen
<1>3. row' = [request |-> r, status |-> "refused", seen |-> seen,
              final |-> TRUE, by |-> Same, expires |-> now + Retention]
  BY <1>1 DEF Recorded, Unexpired
<1>4. /\ row' \in Rows /\ row'.request = r /\ row'.status = "refused" /\ row'.seen = seen
      /\ row'.final = TRUE /\ row'.expires = now + Retention
  BY <1>2, <1>3 DEF Rows
<1>5. Delivered(r, refusal, row') = Response(row')
  BY <1>4 DEF Delivered
<1>6. /\ exchange' \in [Exchanges -> ExchangeType]
      /\ \A y \in Exchanges \ {x} : exchange'[y] = exchange[y]
      /\ exchange'[x].at = "answered" /\ exchange'[x].answer = Response(row')
      /\ exchange'[x].request = r /\ exchange'[x].arrived = now
  BY <1>1, <1>4, <1>5, AnswerEffect, ResponseType
<1>7. d \in Decisions /\ d.request = r /\ d.status = "refused" /\ d.seen = seen
      /\ Window(d) = Retention
  BY <1>2 DEF Decisions, Window
<1> HIDE DEF d
<1>8. TypeOK'
  BY <1>1, <1>4, <1>6, <1>7, AppendType DEF TypeOK, ExchangeType, Decisions
<1>9. row' # None /\ exchange'[x].answer # Divergent
  BY <1>4, <1>6, ConstantTypes, ResponseType
<1>10. OnRow(x)'
  BY <1>6 DEF OnRow, Pending
<1> QED BY <1>1, <1>2, <1>4, <1>6, <1>7, <1>8, <1>9, <1>10, Decide

LEMMA StepEndGrant ==
    ASSUME IInv, NEW x \in Exchanges, EndGrant(x)
    PROVE  IInv'
<1>1. /\ Untouched /\ TypeOK /\ exchange[x].at = "granting"
      /\ exchange' = [exchange EXCEPT ![x].at = "signing"]
  BY DEF EndGrant, Untouched, IInv
<1>2. exchange \in [Exchanges -> ExchangeType]
  BY <1>1 DEF TypeOK, ExchangeType
<1>3. /\ exchange' \in [Exchanges -> ExchangeType]
      /\ \A y \in Exchanges \ {x} : exchange'[y] = exchange[y]
      /\ exchange'[x] = [exchange[x] EXCEPT !.at = "signing"]
  BY <1>1, <1>2 DEF ExchangeType, Pending
<1>4. /\ exchange'[x].at = "signing" /\ exchange'[x].request = exchange[x].request
      /\ exchange'[x].arrived = exchange[x].arrived
      /\ exchange'[x].seen = exchange[x].seen /\ exchange'[x].until = exchange[x].until
  BY <1>2, <1>3 DEF ExchangeType
<1>5. TypeOK' /\ decided' = decided /\ now' = now /\ row' = row
  BY <1>1, <1>3, UntouchedTypes DEF Untouched
<1>6. OnRow(x)
  BY DEF IInv, PendingOnRow, OnRow
<1>7. x \notin Responses' /\ Divergence(x)' /\ OnRow(x)'
  BY <1>1, <1>4, <1>5, <1>6 DEF Responses, Divergence, OnRow, Pending
<1> QED BY <1>3, <1>5, <1>7, Frame

LEMMA StepFail ==
    ASSUME IInv, NEW x \in Exchanges, Fail(x)
    PROVE  IInv'
<1>1. /\ Untouched /\ TypeOK
      /\ exchange' = [exchange EXCEPT ![x].at = "answered", ![x].answer = Unserved]
  BY DEF Fail, Untouched, IInv
<1>2. exchange \in [Exchanges -> ExchangeType]
  BY <1>1 DEF TypeOK, ExchangeType
<1>3. /\ exchange' \in [Exchanges -> ExchangeType]
      /\ \A y \in Exchanges \ {x} : exchange'[y] = exchange[y]
      /\ exchange'[x].at = "answered" /\ exchange'[x].answer = Unserved
  BY <1>1, <1>2, NothingType DEF ExchangeType
<1>4. TypeOK' /\ decided' = decided /\ now' = now /\ row' = row
  BY <1>1, <1>3, UntouchedTypes DEF Untouched
<1>5. x \notin Responses' /\ OnRow(x)' /\ Divergence(x)'
  BY <1>3 DEF Responses, OnRow, Pending, Divergence, Unserved, Divergent
<1> QED BY <1>3, <1>4, <1>5, Frame

LEMMA StepDeliver ==
    ASSUME IInv, NEW x \in Exchanges, Deliver(x)
    PROVE  IInv'
<1> DEFINE r == exchange[x].request
           response == [status |-> "ok", seen |-> exchange[x].seen,
                        by |-> IF Signed(r) THEN x ELSE Same]
           a == Delivered(r, response, row')
<1>1. /\ exchange[x].at = "signing" /\ row' = Recorded(row, r, response) /\ TypeOK
      /\ exchange' = [exchange EXCEPT ![x].at = "answered", ![x].answer = a]
      /\ now' = now /\ mission' = mission /\ decided' = decided
      /\ moves' = moves /\ crashes' = crashes
  BY DEF Deliver, IInv
<1>2. /\ row # None /\ row.status = "ok" /\ row.request = r /\ row.seen = exchange[x].seen
      /\ now <= row.expires
      /\ row.seen.at <= exchange[x].arrived /\ exchange[x].arrived <= row.expires
  BY <1>1 DEF IInv, PendingOnRow, Pending
<1>3. row \in Rows /\ now \in Nat /\ row.expires \in Nat
  BY <1>2 DEF IInv, TypeOK, Rows
<1>4. response \in [status : {"ok"}, seen : Observations, by : Exchanges \cup {Same}]
      /\ response.status = "ok" /\ response.seen = row.seen
  BY <1>2, <1>3 DEF Rows
<1> HIDE DEF response
<1>5. /\ row' \in Rows /\ row'.final = TRUE /\ row'.request = row.request
      /\ row'.status = row.status /\ row'.seen = row.seen /\ row'.expires = row.expires
      /\ row' = row \/ ~row.final
  <2>1. CASE row.final = FALSE
    <3>1. row' = [row EXCEPT !.final = TRUE, !.status = response.status,
                             !.seen = response.seen, !.by = response.by]
      BY <1>1, <1>2, <2>1 DEF Recorded
    <3> QED BY <3>1, <2>1, <1>2, <1>3, <1>4 DEF Rows
  <2>2. CASE row.final # FALSE
    <3>1. row.final = TRUE
      BY <2>2, <1>3 DEF Rows
    <3>2. Unexpired(row) = row
      BY <1>2, <1>3 DEF Unexpired
    <3>3. row' = row
      BY <1>1, <1>2, <2>2, <3>2 DEF Recorded
    <3> QED BY <3>1, <3>3, <1>3
  <2> QED BY <2>1, <2>2
<1>6. a = Response(row') /\ row' # None
  BY <1>2, <1>5, ConstantTypes DEF Delivered
<1>7. exchange \in [Exchanges -> ExchangeType] /\ a \in Answers /\ a # Divergent
  BY <1>1, <1>5, <1>6, ResponseType DEF TypeOK, ExchangeType
<1> HIDE DEF a
<1>8. /\ exchange' \in [Exchanges -> ExchangeType]
      /\ \A y \in Exchanges \ {x} : exchange'[y] = exchange[y]
      /\ exchange'[x].at = "answered" /\ exchange'[x].answer = a
      /\ exchange'[x].request = r /\ exchange'[x].arrived = exchange[x].arrived
  BY <1>1, <1>7 DEF ExchangeType
<1>9. TypeOK'
  BY <1>1, <1>5, <1>8 DEF TypeOK, ExchangeType
<1>10. OnRow(x)' /\ Divergence(x)'
  BY <1>7, <1>8 DEF OnRow, Pending, Divergence
<1>11. Covers(Last, exchange'[x].arrived)
  BY <1>1, <1>2, <1>7, <1>8, RowCovers DEF IInv, ExchangeType
<1>12. row' = row \/ ( /\ row # None /\ row' # None /\ ~row.final /\ row'.final
                       /\ row'.request = row.request /\ row'.status = row.status
                       /\ row'.seen = row.seen /\ row'.expires = row.expires )
  BY <1>2, <1>5, <1>6
<1>13. /\ row # None /\ row'.final /\ exchange'[x].answer = Response(row')
       /\ exchange'[x].request = row.request
  BY <1>2, <1>5, <1>6, <1>8
<1> QED BY <1>1, <1>8, <1>9, <1>10, <1>11, <1>12, <1>13, Frame

\* The steps of the environment, and those that change nothing.
LEMMA StepQuiet ==
    ASSUME IInv, Move \/ Crash \/ Tick \/ UNCHANGED vars
    PROVE  IInv'
<1>1. /\ row' = row /\ decided' = decided /\ now <= now' /\ now' \in Nat
      /\ exchange' \in [Exchanges -> ExchangeType]
      /\ \A y \in Exchanges : \/ exchange'[y] = exchange[y]
                              \/ exchange'[y].at = "lost"
      /\ now' = now \/ \A y \in Exchanges : exchange[y].at \in Pending => now' <= exchange[y].until
      /\ TypeOK'
  <2>1. exchange \in [Exchanges -> ExchangeType] /\ now \in Nat
    BY DEF IInv, TypeOK, ExchangeType
  <2>2. CASE Move
    <3>1. /\ mission \in [state : States, version : Nat, contained : BOOLEAN] /\ moves \in Nat
      BY DEF IInv, TypeOK
    <3>2. PICK s \in States : mission' = [mission EXCEPT !.state = s, !.version = @ + 1]
      BY <2>2 DEF Move, States, Live
    <3>3. mission.version + 1 \in Nat
      BY <3>1
    <3>4. mission' \in [state : States, version : Nat, contained : BOOLEAN]
      BY <3>1, <3>2, <3>3
    <3>5. /\ row' = row /\ decided' = decided /\ now' = now /\ exchange' = exchange
          /\ moves' = moves + 1 /\ crashes' = crashes
      BY <2>2 DEF Move
    <3>6. TypeOK'
      BY <3>1, <3>4, <3>5 DEF IInv, TypeOK
    <3> QED BY <2>1, <3>5, <3>6
  <2>3. CASE Crash
    <3>1. \A y \in Exchanges : [exchange[y] EXCEPT !.at = "lost"] \in ExchangeType
      BY <2>1 DEF ExchangeType
    <3>2. exchange' \in [Exchanges -> ExchangeType]
      BY <2>1, <2>3, <3>1 DEF Crash
    <3>3. \A y \in Exchanges : \/ exchange'[y] = exchange[y]
                               \/ exchange'[y].at = "lost"
      BY <2>1, <2>3 DEF Crash, ExchangeType
    <3>4. TypeOK'
      BY <2>3, <3>2 DEF Crash, IInv, TypeOK, ExchangeType
    <3> QED BY <2>1, <2>3, <3>2, <3>3, <3>4 DEF Crash
  <2>4. CASE Tick
    <3>1. now' \in Nat /\ now <= now'
      BY <2>1, <2>4 DEF Tick
    <3>2. TypeOK'
      BY <2>4, <3>1 DEF Tick, IInv, TypeOK
    <3>3. \A y \in Exchanges : exchange[y].at \in Pending => now' <= exchange[y].until
      <4> SUFFICES ASSUME NEW y \in Exchanges, exchange[y].at \in Pending
                   PROVE  now' <= exchange[y].until
        OBVIOUS
      <4>1. exchange[y].until \in Nat /\ now < exchange[y].until
        BY <2>1, <2>4 DEF Tick, ExchangeType
      <4> QED BY <4>1, <2>1, <2>4 DEF Tick
    <3> QED BY <2>1, <2>4, <3>1, <3>2, <3>3 DEF Tick
  <2>5. CASE UNCHANGED vars
    BY <2>1, <2>5 DEF vars, IInv, TypeOK
  <2> QED BY <2>2, <2>3, <2>4, <2>5
<1>2. OneDecision' /\ RowIsLast'
  BY <1>1 DEF IInv, OneDecision, RowIsLast, Last, Covers, Window
<1>3. PastDecisions'
  <2> SUFFICES ASSUME NEW i \in 1 .. Len(decided) PROVE decided[i].seen.at <= now'
    BY <1>1 DEF PastDecisions
  <2>1. decided[i].seen.at \in Nat /\ decided[i].seen.at <= now /\ now \in Nat
    BY DecisionTypes DEF IInv, PastDecisions, TypeOK
  <2> QED BY <1>1, <2>1
<1>4. PendingOnRow'
  <2> SUFFICES ASSUME NEW y \in Exchanges PROVE OnRow(y)'
    BY DEF PendingOnRow, OnRow
  <2>1. OnRow(y)
    BY DEF IInv, PendingOnRow, OnRow
  <2>2. CASE exchange'[y].at = "lost"
    BY <2>2 DEF OnRow, Pending
  <2>3. CASE exchange'[y] = exchange[y]
    BY <2>1, <2>3, <1>1 DEF OnRow
  <2> QED BY <1>1, <2>2, <2>3
<1>5. \A y \in Responses' : y \in Responses /\ exchange'[y] = exchange[y]
  BY <1>1 DEF Responses
<1>6. AnsweredFromRow'
  BY <1>1, <1>5 DEF IInv, AnsweredFromRow, Last, Covers, Window
<1>7. /\ \A y \in Responses' : Reported(y)'
      /\ \A y, z \in Responses' : Alike(y, z)'
  BY <1>1, <1>5, AnswerParts DEF IInv, Reported, Alike, Covers, Window
<1>8. \A y \in Exchanges : Divergence(y)'
  <2> SUFFICES ASSUME NEW y \in Exchanges PROVE Divergence(y)'
    OBVIOUS
  <2>1. Divergence(y)
    BY AnswerParts DEF IInv
  <2>2. CASE exchange'[y].at = "lost"
    BY <2>2 DEF Divergence
  <2>3. CASE exchange'[y] = exchange[y]
    BY <2>1, <2>3, <1>1 DEF Divergence, Covers, Window
  <2> QED BY <1>1, <2>2, <2>3
<1>9. OneAnswer'
  BY <1>7, <1>8 DEF OneAnswer, Reported, Alike, Divergence
<1> QED BY <1>1, <1>2, <1>3, <1>4, <1>6, <1>9 DEF IInv

-----------------------------------------------------------------------------
(* The invariant, and what follows from it                                 *)

LEMMA InitIInv == Init => IInv
<1> SUFFICES ASSUME Init PROVE IInv
  OBVIOUS
<1>1. Fresh \in ExchangeType /\ Fresh.at = "idle"
  BY NothingType DEF Fresh, ExchangeType, Pending
<1> HIDE DEF Fresh
<1>2. decided = <<>> /\ Len(decided) = 0 /\ row = None /\ now = 0
      /\ exchange = [x \in Exchanges |-> Fresh]
  BY DEF Init
<1>3. \A x \in Exchanges : exchange[x].at = "idle"
  BY <1>1, <1>2
<1>4. exchange \in [Exchanges -> ExchangeType] /\ decided \in Seq(Decisions)
  BY <1>1, <1>2
<1>5. TypeOK
  <2>1. mission \in [state : Live, version : {1}, contained : BOOLEAN] /\ moves = 0 /\ crashes = 0
    BY DEF Init
  <2>2. mission \in [state : States, version : Nat, contained : BOOLEAN]
    BY <2>1 DEF States
  <2> QED BY <1>2, <1>4, <2>1, <2>2 DEF TypeOK, ExchangeType, Decisions
<1>6. OneDecision /\ RowIsLast /\ PastDecisions
  BY <1>2 DEF OneDecision, RowIsLast, PastDecisions
<1>7. PendingOnRow
  BY <1>3 DEF PendingOnRow, Pending
<1>8. OneAnswer /\ AnsweredFromRow
  BY <1>3 DEF OneAnswer, AnsweredFromRow, Responses
<1> QED BY <1>5, <1>6, <1>7, <1>8 DEF IInv

LEMMA StepIInv == IInv /\ [Next]_vars => IInv'
<1> SUFFICES ASSUME IInv, [Next]_vars PROVE IInv'
  OBVIOUS
<1>1. ASSUME NEW x \in Exchanges, NEW r \in Requests, Arrive(x, r) PROVE IInv'
  BY <1>1, StepTurnAway, StepRefuseDivergent, StepReplay, StepRecover, StepExecute, StepRefuse
  DEF Arrive
<1>2. ASSUME NEW x \in Exchanges, EndGrant(x) \/ Deliver(x) \/ Fail(x) PROVE IInv'
  BY <1>2, StepEndGrant, StepDeliver, StepFail
<1>3. CASE Move \/ Crash \/ Tick \/ UNCHANGED vars
  BY <1>3, StepQuiet
<1> QED BY <1>1, <1>2, <1>3 DEF Next

\* Every variable keeps its type, whatever is sent, fails or is lost.
THEOREM TypeCorrect == Spec => []TypeOK
<1>1. IInv => TypeOK
  BY DEF IInv
<1> QED BY <1>1, InitIInv, StepIInv, PTL DEF Spec

\* The endpoint decides once per nonce and window: a committed operation is
\* never executed again, nor a refused one later admitted, for a retransmission.
THEOREM NonceDecidesOnce == Spec => []OneDecision
<1>1. IInv => OneDecision
  BY DEF IInv
<1> QED BY <1>1, InitIInv, StepIInv, PTL DEF Spec

\* The original exchange and every retransmission answer with the same bytes,
\* and these report what was decided on that request.
THEOREM NonceAnswersOnce == Spec => []OneAnswer
<1>1. IInv => OneAnswer
  BY DEF IInv
<1> QED BY <1>1, InitIInv, StepIInv, PTL DEF Spec

=============================================================================
