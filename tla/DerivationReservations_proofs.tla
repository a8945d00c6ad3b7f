------------------- MODULE DerivationReservations_proofs -------------------
(* Proofs that the derivation count is exact, that no operation identity    *)
(* gets two artifacts, and that the counter, the ledger and the map of      *)
(* derivations in flight implement the derivation budget, for any           *)
(* operations, any requests and any limit.                                  *)
EXTENDS DerivationReservations, FiniteSetTheorems, TLAPS

CallerRecord ==
    [at : At, op : Operations, on : Callers \cup {NoCaller}, fresh : BOOLEAN]

\* The queue's type is left out: that a waiting caller is in it is not needed.
Typed ==
    /\ count \in 0..Limit
    /\ ledger \in [Operations -> Row]
    /\ owner \in [Operations -> Callers \cup {NoCaller}]
    /\ caller \in [Callers -> CallerRecord]
    /\ signed \in [Operations -> Nat]
    /\ delivered \in [Operations -> SUBSET Nat]
    /\ spent \in Nat

\* Who owns an operation has an attempt of it, settled or not.
OwnersAttempt ==
    \A op \in Operations : owner[op] # NoCaller =>
        /\ caller[owner[op]].op = op
        /\ caller[owner[op]].at \in {"minting", "done", "failed"}

\* A signature is under way for an owner, on a row it can still settle.
MintersOwn ==
    \A c \in Callers : caller[c].at = "minting" =>
        /\ owner[caller[c].op] = c
        /\ ledger[caller[c].op].state \in Unsettled

\* Nobody waits for the single call of an identity made up for it.
WaitersNamed ==
    \A c \in Callers : caller[c].at = "waiting" => caller[c].op \notin Anonymous

\* What is out can be replayed.
Replayable ==
    \A op \in Operations \ Anonymous :
        ledger[op].state = "released" => ledger[op].completion # 0

AtMostOne ==
    \A op \in Operations : delivered[op] = {} \/ \E a \in Nat : delivered[op] = {a}

\* Who mints what.
Exclusive == OwnersAttempt /\ MintersOwn /\ WaitersNamed

\* What is out.
Accounted == Replayable /\ AtMostOne /\ DeliveredIsPaidFor

\* The inductive invariant. The count alone is inductive under Typed; that one
\* identity gets one artifact rests on who owns it and on what is replayable.
IInv == Typed /\ CountConservation /\ Exclusive /\ Accounted

-----------------------------------------------------------------------------
(* Books                                                                    *)

\* Both counted sets are finite.
LEMMA Finite ==
    /\ IsFiniteSet(Counted) /\ Cardinality(Counted) \in Nat
    /\ IsFiniteSet(Tokens) /\ Cardinality(Tokens) \in Nat
<1>1. IsFiniteSet(Counted)
  <2>1. Counted \in SUBSET Operations
    BY DEF Counted
  <2> QED BY <2>1, FS_Subset, FiniteAssumption
<1>2. IsFiniteSet(Tokens)
  <2>1. Tokens \in SUBSET Callers
    BY DEF Tokens
  <2> QED BY <2>1, FS_Subset, FiniteAssumption
<1> QED BY <1>1, <1>2, FS_CardinalityType

\* A step that moves nothing in either set moves no count.
LEMMA BooksKept ==
    ASSUME CountConservation, Counted' = Counted, Tokens' = Tokens,
           count' = count, spent' = spent
    PROVE  CountConservation'
  BY DEF CountConservation

\* A reservation and its count.
LEMMA BooksReserved ==
    ASSUME Typed, CountConservation, NEW op \in Operations, op \notin Counted,
           Counted' = Counted \cup {op}, Tokens' = Tokens,
           count' = count + 1, spent' = spent
    PROVE  CountConservation'
<1>1. Cardinality(Counted') = Cardinality(Counted) + 1
  BY Finite, FS_AddElement
<1> QED BY <1>1, Finite DEF CountConservation, Typed

\* A refund returns the count of one reservation.
LEMMA BooksRefunded ==
    ASSUME Typed, CountConservation, NEW op \in Counted,
           Counted' = Counted \ {op}, Tokens' = Tokens,
           count' = Refunded(count), spent' = spent
    PROVE  /\ CountConservation'
           /\ count' \in 0..Limit
<1>1. Cardinality(Counted') = Cardinality(Counted) - 1
  BY Finite, FS_RemoveElement
<1>2. Cardinality(Counted) > 0
  BY Finite, FS_EmptySet
<1>3. count > 0
  BY <1>2, Finite DEF CountConservation, Typed
<1> QED BY <1>1, <1>3, Finite, BoundAssumption DEF CountConservation, Typed, Refunded

\* A caller that is at no token before or after leaves the tokens alone.
LEMMA TokensKept ==
    ASSUME Typed, NEW c \in Callers, NEW r,
           caller[c].at # "token", r.at # "token",
           caller' = [caller EXCEPT ![c] = r]
    PROVE  Tokens' = Tokens
  BY DEF Typed, Tokens

-----------------------------------------------------------------------------
(* Reserving                                                                *)

\* What a call of reserveDerivation by c can do.
Held(c, op, at, fresh) ==
    /\ caller' = [caller EXCEPT ![c] = Attempt(op, at, fresh)]
    /\ UNCHANGED <<count, ledger>>
    /\ at = "minting" => ledger[op].state \in Unsettled

Admitted(c, op) ==
    /\ caller' = [caller EXCEPT ![c] = Attempt(op, "minting", TRUE)]
    /\ ~Kept(op)
    /\ count < Limit
    /\ count' = count + 1
    /\ ledger' = [ledger EXCEPT ![op] = [NoRow EXCEPT !.state = "reserved"]]

\* It ends an attempt, resumes one on an unsettled row, or admits a new one.
LEMMA ReserveOutcomes ==
    ASSUME Typed, Replayable, NEW c \in Callers, NEW op \in Operations,
           op \in Anonymous => ~Kept(op), Reserve(c, op)
    PROVE  \/ \E at \in {"minting", "done", "failed"} : Held(c, op, at, FALSE)
           \/ Admitted(c, op)
<1>1. CASE /\ Found(op) /\ ledger[op].state # "refunded" /\ ledger[op].completion = 0
           /\ caller' = [caller EXCEPT ![c] = Attempt(op, IF derivable THEN "minting" ELSE "failed", FALSE)]
           /\ UNCHANGED <<count, ledger>>
  <2>1. ledger[op].state \in Unsettled
    BY <1>1 DEF Typed, Replayable, Row, RowState, Found, Kept, Unsettled
  <2> QED BY <1>1, <2>1 DEF Held
<1>2. CASE /\ ~Kept(op) /\ derivable /\ count < Limit
           /\ count' = count + 1
           /\ ledger' = [ledger EXCEPT ![op] = [NoRow EXCEPT !.state = "reserved"]]
           /\ caller' = [caller EXCEPT ![c] = Attempt(op, "minting", TRUE)]
  BY <1>2 DEF Admitted
<1>3. CASE \/ caller' = [caller EXCEPT ![c] = Attempt(op, "done", FALSE)] /\ UNCHANGED <<count, ledger>>
           \/ caller' = [caller EXCEPT ![c] = Attempt(op, "failed", FALSE)] /\ UNCHANGED <<count, ledger>>
  BY <1>3 DEF Held
<1> QED BY <1>1, <1>2, <1>3 DEF Reserve

-----------------------------------------------------------------------------
(* exclusiveDerivation                                                      *)

\* Owning an operation nobody signs for keeps the invariant.
LEMMA OwnKeeps ==
    ASSUME IInv, NEW c \in Callers, NEW op \in Operations,
           caller[c].at \in {"idle", "waiting"},
           op \in Anonymous => ~Kept(op),
           \A d \in Callers : caller[d].at = "minting" => caller[d].op # op,
           Reserve(c, op), owner' = [owner EXCEPT ![op] = c],
           UNCHANGED <<signed, delivered, spent>>
    PROVE  IInv'
<1> USE DEF IInv
<1>1. \A o \in Operations : owner[o] # c
  BY SubsetAssumption DEF Exclusive, OwnersAttempt
<1>2. ASSUME NEW at \in {"minting", "done", "failed"}, Held(c, op, at, FALSE)
      PROVE  IInv'
  <2>1. Typed'
    BY <1>2 DEF Typed, Held, Attempt, CallerRecord, At
  <2>2. CountConservation'
    <3>1. Tokens' = Tokens
      BY <1>2, TokensKept DEF Held, Attempt
    <3>2. Counted' = Counted
      BY <1>2 DEF Held, Counted
    <3> QED BY <1>2, <3>1, <3>2, BooksKept DEF Held
  <2>3. Exclusive'
    <3>1. OwnersAttempt'
      BY <1>1, <1>2 DEF Typed, Exclusive, OwnersAttempt, Held, Attempt
    <3>2. MintersOwn'
      BY <1>2 DEF Typed, Exclusive, MintersOwn, Held, Attempt, CallerRecord
    <3>3. WaitersNamed'
      BY <1>2 DEF Typed, Exclusive, WaitersNamed, Held, Attempt
    <3> QED BY <3>1, <3>2, <3>3 DEF Exclusive
  <2>4. Accounted'
    BY <1>2 DEF Accounted, Replayable, AtMostOne, DeliveredIsPaidFor, Held
  <2> QED BY <2>1, <2>2, <2>3, <2>4
<1>3. ASSUME Admitted(c, op)
      PROVE  IInv'
  <2>1. Typed'
    <3>1. count' \in 0..Limit
      BY <1>3, BoundAssumption DEF Typed, Admitted
    <3>2. [NoRow EXCEPT !.state = "reserved"] \in Row
      BY DEF NoRow, Row, RowState
    <3>3. ledger' \in [Operations -> Row]
      BY <1>3, <3>2 DEF Typed, Admitted
    <3>4. Attempt(op, "minting", TRUE) \in CallerRecord
      BY DEF Attempt, CallerRecord, At
    <3>5. caller' \in [Callers -> CallerRecord]
      BY <1>3, <3>4 DEF Typed, Admitted
    <3> QED BY <3>1, <3>3, <3>5 DEF Typed
  <2>2. CountConservation'
    <3>1. Tokens' = Tokens
      BY <1>3, TokensKept DEF Admitted, Attempt
    <3>2. op \notin Counted /\ Counted' = Counted \cup {op}
      BY <1>3 DEF Admitted, Counted, Typed, Kept, NoRow
    <3> QED BY <1>3, <3>1, <3>2, BooksReserved DEF Admitted
  <2>3. Exclusive'
    <3>1. OwnersAttempt'
      BY <1>1, <1>3 DEF Typed, Exclusive, OwnersAttempt, Admitted, Attempt
    <3>2. MintersOwn'
      BY <1>3 DEF Typed, Exclusive, MintersOwn, Admitted, Attempt, CallerRecord, NoRow, Unsettled
    <3>3. WaitersNamed'
      BY <1>3 DEF Typed, Exclusive, WaitersNamed, Admitted, Attempt
    <3> QED BY <3>1, <3>2, <3>3 DEF Exclusive
  <2>4. Accounted'
    BY <1>3 DEF Accounted, Replayable, AtMostOne, DeliveredIsPaidFor, Admitted, Kept, NoRow, Typed
  <2> QED BY <2>1, <2>2, <2>3, <2>4
<1> QED BY <1>2, <1>3, ReserveOutcomes DEF Accounted

\* Joining the callers of an operation keeps the invariant.
LEMMA JoinKeeps ==
    ASSUME IInv, NEW c \in Callers, NEW op \in Operations, NEW others,
           \/ /\ caller[c].at = "idle"
              /\ op \in Anonymous => ~Kept(op) /\ \A d \in Callers : caller[d].at # "idle" => caller[d].op # op
           \/ /\ caller[c].at = "waiting" /\ op = caller[c].op
              /\ caller[caller[c].on].at = "failed",
           Join(c, op, others), UNCHANGED <<signed, delivered, spent>>
    PROVE  IInv'
<1> USE DEF IInv
<1>1. CASE /\ owner[op] # NoCaller
           /\ caller' = [caller EXCEPT ![c] = [at |-> "waiting", op |-> op, on |-> owner[op], fresh |-> FALSE]]
           /\ UNCHANGED <<count, ledger, owner>>
  <2>1. op \notin Anonymous
    <3>1. caller[owner[op]].op = op /\ caller[owner[op]].at # "idle" /\ owner[op] \in Callers
      BY <1>1 DEF Typed, Exclusive, OwnersAttempt
    <3> QED BY <3>1 DEF Exclusive, WaitersNamed
  <2>2. \A o \in Operations : owner[o] # c
    BY SubsetAssumption DEF Exclusive, OwnersAttempt
  <2>3. Typed'
    BY <1>1 DEF Typed, CallerRecord, At
  <2>4. CountConservation'
    <3>1. Tokens' = Tokens
      BY <1>1, TokensKept
    <3>2. Counted' = Counted
      BY <1>1 DEF Counted
    <3> QED BY <1>1, <3>1, <3>2, BooksKept
  <2>5. Exclusive'
    BY <1>1, <2>1, <2>2 DEF Typed, Exclusive, OwnersAttempt, MintersOwn, WaitersNamed
  <2>6. Accounted'
    BY <1>1 DEF Accounted, Replayable, AtMostOne, DeliveredIsPaidFor
  <2> QED BY <2>3, <2>4, <2>5, <2>6
<1>2. CASE /\ owner[op] \in {NoCaller} \cup IF caller[c].at = "waiting" THEN {caller[c].on} ELSE {}
           /\ Reserve(c, op)
           /\ owner' = [owner EXCEPT ![op] = c]
  <2>1. op \in Anonymous => ~Kept(op)
    BY DEF Exclusive, WaitersNamed
  <2>2. \A d \in Callers : caller[d].at = "minting" => caller[d].op # op
    BY <1>2, SubsetAssumption DEF Exclusive, MintersOwn
  <2> QED BY <1>2, <2>1, <2>2, OwnKeeps
<1> QED BY <1>1, <1>2 DEF Join

-----------------------------------------------------------------------------
(* The actions                                                              *)

\* A signature releases its own unsettled row, and its artifact is the only one.
LEMMA SignKeeps ==
    ASSUME IInv, NEW c \in Callers, Sign(c)
    PROVE  IInv'
<1> USE DEF IInv
<1> DEFINE op == caller[c].op
<1>1. op \in Operations /\ caller[c] \in CallerRecord
  BY DEF Typed, CallerRecord
<1>2. owner[op] = c /\ ledger[op].state \in Unsettled /\ delivered[op] = {}
  BY <1>1 DEF Sign, Exclusive, MintersOwn, Accounted, DeliveredIsPaidFor, Unsettled
<1>3. signed[op] + 1 \in Nat /\ signed[op] + 1 # 0
  BY <1>1 DEF Typed
<1>4. ledger' = [ledger EXCEPT ![op].state = "released",
                               ![op].completion = IF op \in Anonymous THEN 0 ELSE signed[op] + 1]
  BY <1>2 DEF Sign
<1>5. caller' = [caller EXCEPT ![c] = [caller[c] EXCEPT !.at = "done"]]
  BY DEF Sign
<1>6. /\ signed' = [signed EXCEPT ![op] = signed[op] + 1]
      /\ delivered' = [delivered EXCEPT ![op] = {signed[op] + 1}]
      /\ UNCHANGED <<count, owner, spent>>
  BY <1>2 DEF Sign, Typed
<1>7. caller[c].at = "minting"
  BY DEF Sign
<1> HIDE DEF op
<1>8. Typed'
  <2>1. ledger' \in [Operations -> Row]
    <3> DEFINE artifact == IF op \in Anonymous THEN 0 ELSE signed[op] + 1
    <3>1. ledger \in [Operations -> Row] /\ artifact \in Nat
      BY <1>3 DEF Typed
    <3> HIDE DEF artifact
    <3>2. [ledger[op] EXCEPT !.state = "released", !.completion = artifact] \in Row
      BY ONLY <1>1, <3>1 DEF Row, RowState
    <3>3. ledger' = [ledger EXCEPT ![op] =
                        [ledger[op] EXCEPT !.state = "released", !.completion = artifact]]
      BY ONLY <1>1, <1>4, <3>1 DEF artifact
    <3> QED BY ONLY <1>1, <3>1, <3>2, <3>3
  <2>2. caller' \in [Callers -> CallerRecord]
    BY <1>5 DEF Typed, CallerRecord, At
  <2>3. signed' \in [Operations -> Nat] /\ delivered' \in [Operations -> SUBSET Nat]
    BY <1>1, <1>3, <1>6 DEF Typed
  <2> QED BY <1>6, <2>1, <2>2, <2>3 DEF Typed
<1>9. CountConservation'
  <2>1. Tokens' = Tokens
    BY <1>5, <1>7 DEF Typed, Tokens
  <2>2. Counted' = Counted
    BY <1>1, <1>2, <1>4 DEF Typed, Row, Counted, Unsettled
  <2> QED BY <1>6, <2>1, <2>2, BooksKept
<1>10. Exclusive'
  <2>1. OwnersAttempt'
    BY <1>5, <1>6 DEF Typed, Exclusive, OwnersAttempt
  <2>2. MintersOwn'
    BY <1>1, <1>2, <1>4, <1>5, <1>6 DEF Typed, Row, CallerRecord, Exclusive, MintersOwn, Unsettled
  <2>3. WaitersNamed'
    BY <1>5 DEF Typed, Exclusive, WaitersNamed
  <2> QED BY <2>1, <2>2, <2>3 DEF Exclusive
<1>11. Accounted'
  <2>1. Replayable'
    BY <1>1, <1>3, <1>4 DEF Typed, Row, Accounted, Replayable
  <2>2. AtMostOne'
    BY <1>1, <1>3, <1>6 DEF Typed, Accounted, AtMostOne
  <2>3. DeliveredIsPaidFor'
    BY <1>1, <1>4, <1>6 DEF Typed, Row, Accounted, DeliveredIsPaidFor
  <2> QED BY <2>1, <2>2, <2>3 DEF Accounted
<1> QED BY <1>8, <1>9, <1>10, <1>11

\* A step that only moves a caller among the settled and idle, and may give up
\* what it owned, keeps the invariant.
LEMMA SettleKeeps ==
    ASSUME IInv, NEW c \in Callers, NEW r \in CallerRecord, caller[c].at # "token",
           r.at \in {"done", "failed", "idle"}, r.op = caller[c].op,
           caller' = [caller EXCEPT ![c] = r],
           \/ UNCHANGED owner /\ (r.at = "idle" => \A o \in Operations : owner[o] # c)
           \/ owner' = [owner EXCEPT ![r.op] = IF @ = c THEN NoCaller ELSE @],
           UNCHANGED <<count, ledger, signed, delivered, spent>>
    PROVE  IInv'
<1> USE DEF IInv
<1>1. Typed'
  BY DEF Typed, CallerRecord
<1>2. CountConservation'
  <2>1. Tokens' = Tokens
    BY TokensKept
  <2>2. Counted' = Counted
    BY DEF Counted
  <2> QED BY <2>1, <2>2, BooksKept
<1>3. Exclusive'
  <2>1. OwnersAttempt'
    BY DEF Typed, CallerRecord, Exclusive, OwnersAttempt
  <2>2. MintersOwn'
    BY DEF Typed, CallerRecord, Exclusive, MintersOwn
  <2>3. WaitersNamed'
    BY DEF Typed, Exclusive, WaitersNamed
  <2> QED BY <2>1, <2>2, <2>3 DEF Exclusive
<1>4. Accounted'
  BY DEF Accounted, Replayable, AtMostOne, DeliveredIsPaidFor
<1> QED BY <1>1, <1>2, <1>3, <1>4

\* A refund of a row nobody signs for once c's attempt has failed, or no longer.
LEMMA RefundKeeps ==
    ASSUME IInv, NEW op \in Operations, ledger[op].state \in Unsettled,
           NotAccepted(op),
           \/ UNCHANGED caller /\ \A d \in Callers : caller[d].at = "minting" => caller[d].op # op
           \/ \E c \in Callers : /\ caller[c].at = "minting" /\ caller[c].op = op
                                 /\ caller' = [caller EXCEPT ![c].at = "failed"],
           UNCHANGED <<owner, signed, delivered, spent>>
    PROVE  IInv'
<1> USE DEF IInv
<1>1. /\ ledger' = [ledger EXCEPT ![op].state = "refunded"]
      /\ count' = Refunded(count)
  BY DEF NotAccepted
<1>2. Tokens' = Tokens
  BY DEF Typed, CallerRecord, Tokens
<1>3. op \in Counted /\ Counted' = Counted \ {op}
  BY <1>1 DEF Typed, Row, Counted, Unsettled
<1>4. CountConservation' /\ count' \in 0..Limit
  BY <1>1, <1>2, <1>3, BooksRefunded
<1>5. Typed'
  <2>1. ledger' \in [Operations -> Row]
    BY <1>1 DEF Typed, Row, RowState
  <2>2. caller' \in [Callers -> CallerRecord]
    BY DEF Typed, CallerRecord, At
  <2> QED BY <1>4, <2>1, <2>2 DEF Typed
<1>6. Exclusive'
  <2>1. OwnersAttempt'
    BY DEF Typed, CallerRecord, Exclusive, OwnersAttempt
  <2>2. MintersOwn'
    <3>1. ASSUME NEW d \in Callers, caller'[d].at = "minting"
          PROVE  /\ caller[d].at = "minting" /\ caller'[d].op = caller[d].op
                 /\ caller[d].op # op
      BY <3>1 DEF Typed, CallerRecord, Exclusive, MintersOwn
    <3>2. \A o \in Operations \ {op} : ledger'[o].state = ledger[o].state
      BY <1>1 DEF Typed
    <3>3. \A d \in Callers : caller[d].op \in Operations
      BY DEF Typed, CallerRecord
    <3> QED BY <3>1, <3>2, <3>3 DEF Exclusive, MintersOwn
  <2>3. WaitersNamed'
    BY DEF Typed, CallerRecord, Exclusive, WaitersNamed
  <2> QED BY <2>1, <2>2, <2>3 DEF Exclusive
<1>7. Accounted'
  <2>1. delivered[op] = {}
    BY DEF Accounted, DeliveredIsPaidFor, Unsettled
  <2> QED BY <1>1, <2>1 DEF Typed, Row, Accounted, Replayable, AtMostOne, DeliveredIsPaidFor
<1> QED BY <1>4, <1>5, <1>6, <1>7

\* A failed mint settles its own fresh reservation, or leaves the row.
LEMMA MintFailsKeeps ==
    ASSUME IInv, NEW c \in Callers, MintFails(c)
    PROVE  IInv'
<1> DEFINE op == caller[c].op
<1>1. op \in Operations /\ caller[c] \in CallerRecord
  BY DEF IInv, Typed, CallerRecord
<1>2. caller' = [caller EXCEPT ![c].at = "failed"] /\ caller[c].at = "minting"
  BY DEF MintFails
<1>3. CASE caller[c].fresh /\ op \in Refunding
  <2>1. ledger[op].state \in Unsettled
    BY <1>2 DEF IInv, Exclusive, MintersOwn
  <2>2. NotAccepted(op) /\ UNCHANGED <<owner, signed, delivered, spent>>
    BY <1>3 DEF MintFails
  <2> QED BY <1>1, <1>2, <2>1, <2>2, RefundKeeps
<1>4. CASE ~(caller[c].fresh /\ op \in Refunding)
  <2>1. UNCHANGED <<count, ledger, owner, signed, delivered, spent>>
    BY <1>4 DEF MintFails
  <2> DEFINE r == [caller[c] EXCEPT !.at = "failed"]
  <2>2. r \in CallerRecord /\ r.at = "failed" /\ r.op = caller[c].op
    BY <1>1 DEF CallerRecord, At
  <2>3. caller' = [caller EXCEPT ![c] = r]
    BY <1>2
  <2> HIDE DEF r
  <2> QED BY <1>2, <2>1, <2>2, <2>3, SettleKeeps
<1> QED BY <1>3, <1>4

\* A waiter resumes with the owner's artifact, or joins again.
LEMMA WakeKeeps ==
    ASSUME IInv, NEW c \in Callers, Wake(c)
    PROVE  IInv'
<1> DEFINE op == caller[c].op
<1>1. op \in Operations /\ caller[c].at = "waiting"
  BY DEF IInv, Typed, CallerRecord, Wake
<1>2. CASE /\ caller' = [caller EXCEPT ![c] = Attempt(op, "done", FALSE)]
           /\ UNCHANGED <<count, ledger, owner>>
  <2>1. Attempt(op, "done", FALSE) \in CallerRecord
    BY <1>1 DEF Attempt, CallerRecord, At
  <2>2. Attempt(op, "done", FALSE).at = "done" /\ Attempt(op, "done", FALSE).op = op
    BY DEF Attempt
  <2>3. UNCHANGED <<signed, delivered, spent>>
    BY DEF Wake
  <2> QED BY <1>1, <1>2, <2>1, <2>2, <2>3, SettleKeeps
<1>3. CASE /\ caller[caller[c].on].at = "failed"
           /\ Join(c, op, Tail(awaiting[op]))
  <2>1. UNCHANGED <<signed, delivered, spent>>
    BY DEF Wake
  <2> QED BY <1>1, <1>3, <2>1, JoinKeeps
<1> QED BY <1>2, <1>3 DEF Wake

\* A caller that has returned owns nothing.
LEMMA ReturnKeeps ==
    ASSUME IInv, NEW c \in Callers, Return(c)
    PROVE  IInv'
<1> DEFINE op == caller[c].op
           r  == Idle(op)
<1>1. r \in CallerRecord /\ r.at = "idle" /\ r.op = caller[c].op
  BY DEF IInv, Typed, CallerRecord, Idle, At
<1>2. /\ caller' = [caller EXCEPT ![c] = r] /\ caller[c].at # "token"
      /\ owner' = [owner EXCEPT ![r.op] = IF @ = c THEN NoCaller ELSE @]
      /\ UNCHANGED <<count, ledger, signed, delivered, spent>>
  BY <1>1 DEF Return
<1> HIDE DEF r
<1> QED BY <1>1, <1>2, SettleKeeps

\* A token request counts, and keeps or returns what it counted.
LEMMA TokenKeeps ==
    ASSUME IInv, NEW c \in Callers,
           CountToken(c) \/ TokenDelivered(c) \/ TokenRefunded(c)
    PROVE  IInv'
<1> USE DEF IInv
<1>1. UNCHANGED <<ledger, owner, signed, delivered>>
  BY DEF CountToken, TokenDelivered, TokenRefunded
<1>2. /\ caller[c].at \in {"idle", "token"}
      /\ \/ caller' = [caller EXCEPT ![c].at = "token"]
         \/ caller' = [caller EXCEPT ![c].at = "idle"]
  BY DEF CountToken, TokenDelivered, TokenRefunded
<1>3. \A o \in Operations : owner[o] # c
  BY <1>2, SubsetAssumption DEF Exclusive, OwnersAttempt
<1>4. Counted' = Counted
  BY <1>1 DEF Counted
<1>5. Typed' /\ CountConservation'
  <2>1. caller' \in [Callers -> CallerRecord]
    BY <1>2 DEF Typed, CallerRecord, At
  <2>2. CASE CountToken(c)
    <3>1. c \notin Tokens /\ Tokens' = Tokens \cup {c}
      BY <2>2 DEF CountToken, Typed, CallerRecord, Tokens
    <3>2. Cardinality(Tokens') = Cardinality(Tokens) + 1
      BY <3>1, Finite, FS_AddElement
    <3>3. count' = count + 1 /\ count < Limit /\ spent' = spent
      BY <2>2 DEF CountToken
    <3> QED BY <1>1, <1>4, <2>1, <3>2, <3>3, Finite, BoundAssumption DEF Typed, CountConservation
  <2>3. CASE TokenDelivered(c) \/ TokenRefunded(c)
    <3>1. c \in Tokens /\ Tokens' = Tokens \ {c}
      BY <2>3 DEF TokenDelivered, TokenRefunded, Typed, CallerRecord, Tokens
    <3>2. Cardinality(Tokens') = Cardinality(Tokens) - 1 /\ Cardinality(Tokens) > 0
      <4>1. Cardinality(Tokens') = Cardinality(Tokens) - 1
        BY <3>1, Finite, FS_RemoveElement
      <4>2. Cardinality(Tokens) # 0
        BY <3>1, Finite, FS_EmptySet
      <4> QED BY <4>1, <4>2, Finite
    <3>3. \/ count' = count /\ spent' = spent + 1
          \/ count' = Refunded(count) /\ spent' = spent
      BY <2>3 DEF TokenDelivered, TokenRefunded
    <3>4. count > 0
      BY <3>2, Finite DEF Typed, CountConservation
    <3> QED BY <1>1, <1>4, <2>1, <3>2, <3>3, <3>4, Finite, BoundAssumption DEF Typed, CountConservation, Refunded
  <2> QED BY <2>2, <2>3
<1>6. Exclusive'
  <2>1. OwnersAttempt'
    BY <1>1, <1>2, <1>3 DEF Typed, CallerRecord, Exclusive, OwnersAttempt
  <2>2. MintersOwn'
    BY <1>1, <1>2 DEF Typed, CallerRecord, Exclusive, MintersOwn
  <2>3. WaitersNamed'
    BY <1>2 DEF Typed, CallerRecord, Exclusive, WaitersNamed
  <2> QED BY <2>1, <2>2, <2>3 DEF Exclusive
<1>7. Accounted'
  BY <1>1 DEF Accounted, Replayable, AtMostOne, DeliveredIsPaidFor
<1> QED BY <1>5, <1>6, <1>7

\* The authority's answer refunds an unsettled row nobody signs for; it finds
\* nothing else to do, since what is out is released already.
LEMMA ReconcileKeeps ==
    ASSUME IInv, NEW op \in Operations, Reconcile(op)
    PROVE  IInv'
<1>1. UNCHANGED <<owner, caller, signed, delivered, spent>>
  BY DEF Reconcile
<1>2. CASE ledger[op].state \in Unsettled
  <2>1. NotAccepted(op)
    BY <1>2 DEF Reconcile, IInv, Accounted, DeliveredIsPaidFor, Unsettled
  <2>2. \A d \in Callers : caller[d].at = "minting" => caller[d].op # op
    BY DEF Reconcile
  <2> QED BY <1>1, <1>2, <2>1, <2>2, RefundKeeps
<1>3. CASE ledger[op].state \notin Unsettled
  <2>1. ledger' = ledger /\ count' = count
    BY <1>3 DEF Reconcile, NotAccepted, IInv, Typed, Row
  <2>2. Counted' = Counted /\ Tokens' = Tokens
    BY <1>1, <2>1 DEF Counted, Tokens
  <2>3. CountConservation'
    BY <1>1, <2>1, <2>2, BooksKept DEF IInv
  <2> QED BY <1>1, <2>1, <2>3 DEF IInv, Typed, Exclusive, OwnersAttempt, MintersOwn, WaitersNamed,
                                Accounted, Replayable, AtMostOne, DeliveredIsPaidFor
<1> QED BY <1>2, <1>3

\* Age moves no state of a row.
LEMMA AgeKeeps ==
    ASSUME IInv, NEW op \in Operations, Age(op)
    PROVE  IInv'
<1> USE DEF IInv
<1>1. ledger' = [ledger EXCEPT ![op].aged = TRUE]
  BY DEF Age
<1>2. UNCHANGED <<count, owner, caller, signed, delivered, spent>>
  BY DEF Age
<1>3. \A o \in Operations : /\ ledger'[o].state = ledger[o].state
                            /\ ledger'[o].completion = ledger[o].completion
  BY <1>1 DEF Typed, Row
<1>4. Typed'
  BY <1>1, <1>2 DEF Typed, Row
<1>5. CountConservation'
  <2>1. Counted' = Counted /\ Tokens' = Tokens
    BY <1>2, <1>3 DEF Counted, Tokens
  <2> QED BY <1>2, <2>1, BooksKept
<1>6. Exclusive'
  <2>1. \A d \in Callers : caller[d].op \in Operations
    BY DEF Typed, CallerRecord
  <2> QED BY <1>2, <1>3, <2>1 DEF Exclusive, OwnersAttempt, MintersOwn, WaitersNamed
<1>7. Accounted'
  BY <1>2, <1>3 DEF Accounted, Replayable, AtMostOne, DeliveredIsPaidFor
<1> QED BY <1>4, <1>5, <1>6, <1>7

\* What the lost requests had counted stays counted.
LEMMA CrashKeeps ==
    ASSUME IInv, CrashAndBoot
    PROVE  IInv'
<1> USE DEF IInv
<1>1. /\ caller' = [c \in Callers |-> Idle(caller[c].op)]
      /\ owner' = [op \in Operations |-> NoCaller]
      /\ UNCHANGED <<count, signed, delivered>>
      /\ spent' = spent + Cardinality(Tokens)
  BY DEF CrashAndBoot
<1>2. \A o \in Operations :
         /\ ledger'[o].state = IF ledger[o].state = "reserved" THEN "unacknowledged" ELSE ledger[o].state
         /\ ledger'[o].completion = ledger[o].completion
  BY DEF CrashAndBoot, Typed, Row
<1>3. \A c \in Callers : caller'[c].at = "idle"
  BY <1>1 DEF Idle
<1>4. Typed'
  <2>1. ledger' \in [Operations -> Row]
    BY DEF CrashAndBoot, Typed, Row, RowState
  <2>2. caller' \in [Callers -> CallerRecord]
    BY <1>1 DEF Typed, CallerRecord, Idle, At
  <2>3. spent' \in Nat
    BY <1>1, Finite DEF Typed
  <2> QED BY <1>1, <2>1, <2>2, <2>3 DEF Typed
<1>5. CountConservation'
  <2>1. Counted' = Counted
    BY <1>2 DEF Counted
  <2>2. Tokens' = {}
    BY <1>3 DEF Tokens
  <2>3. Cardinality(Tokens') = 0
    BY <2>2, FS_EmptySet
  <2> QED BY <1>1, <2>1, <2>3, Finite DEF Typed, CountConservation
<1>6. Exclusive'
  BY <1>1, <1>3 DEF Exclusive, OwnersAttempt, MintersOwn, WaitersNamed
<1>7. Accounted'
  BY <1>1, <1>2 DEF Accounted, Replayable, AtMostOne, DeliveredIsPaidFor
<1> QED BY <1>4, <1>5, <1>6, <1>7

-----------------------------------------------------------------------------
(* The invariant and the theorems                                           *)

\* Nothing is counted and nobody is at work at first.
LEMMA InitGood == Init => IInv
<1> SUFFICES ASSUME Init PROVE IInv
  OBVIOUS
<1>1. \A op \in Operations : NoRow \in Row /\ Idle(op) \in CallerRecord
  BY DEF NoRow, Row, RowState, Idle, CallerRecord, At
<1>2. \A c \in Callers : caller[c].at = "idle" /\ caller[c] \in CallerRecord
  BY <1>1 DEF Init, Idle
<1>3. Typed
  BY <1>1, <1>2, BoundAssumption DEF Init, Typed
<1>4. CountConservation
  <2>1. Counted = {} /\ Tokens = {}
    BY <1>2 DEF Init, NoRow, Counted, Tokens
  <2> QED BY <2>1, FS_EmptySet DEF Init, CountConservation
<1>5. Exclusive
  BY <1>2 DEF Init, Exclusive, OwnersAttempt, MintersOwn, WaitersNamed
<1>6. Accounted
  BY DEF Init, NoRow, Accounted, Replayable, AtMostOne, DeliveredIsPaidFor
<1> QED BY <1>3, <1>4, <1>5, <1>6 DEF IInv

\* The invariant reads no variable that these leave alone.
LEMMA StutterKeeps ==
    ASSUME IInv, UNCHANGED <<count, ledger, owner, caller, signed, delivered, spent>>
    PROVE  IInv'
<1>1. CountConservation'
  <2>1. Counted' = Counted /\ Tokens' = Tokens
    BY DEF Counted, Tokens
  <2> QED BY <2>1, BooksKept DEF IInv
<1> QED BY <1>1 DEF IInv, Typed, Exclusive, OwnersAttempt, MintersOwn, WaitersNamed,
                    Accounted, Replayable, AtMostOne, DeliveredIsPaidFor

\* Every step keeps the invariant.
LEMMA Inductive == IInv /\ [Next]_vars => IInv'
<1> SUFFICES ASSUME IInv, [Next]_vars PROVE IInv'
  OBVIOUS
<1>1. ASSUME NEW c \in Callers, NEW op \in Operations, Call(c, op)
      PROVE  IInv'
  BY <1>1, JoinKeeps DEF Call
<1>2. ASSUME NEW c \in Callers, Sign(c) \/ MintFails(c) \/ Wake(c) \/ Return(c)
      PROVE  IInv'
  BY <1>2, SignKeeps, MintFailsKeeps, WakeKeeps, ReturnKeeps
<1>3. ASSUME NEW c \in Callers, CountToken(c) \/ TokenDelivered(c) \/ TokenRefunded(c)
      PROVE  IInv'
  BY <1>3, TokenKeeps
<1>4. ASSUME NEW op \in Operations, Reconcile(op) \/ Age(op)
      PROVE  IInv'
  BY <1>4, ReconcileKeeps, AgeKeeps
<1>5. CASE Derivability \/ UNCHANGED vars
  BY <1>5, StutterKeeps DEF Derivability, vars
<1>6. CASE CrashAndBoot
  BY <1>6, CrashKeeps
<1> QED BY <1>1, <1>2, <1>3, <1>4, <1>5, <1>6 DEF Next

\* The invariant holds in every behaviour.
LEMMA Always == Spec => []IInv
<1> QED BY InitGood, Inductive, PTL DEF Spec

\* The derivation count is exactly what was admitted and not returned, through
\* retries, replays, failures, settlements and crashes.
THEOREM CountIsConserved == Spec => []CountConservation
<1>1. IInv => CountConservation
  BY DEF IInv
<1> QED BY <1>1, Always, PTL

\* No operation identity ever gets two artifacts, however many requests present
\* it, however often and however late.
THEOREM OneArtifact == Spec => []OneArtifactPerOperation
<1>1. IInv => OneArtifactPerOperation
  <2> SUFFICES ASSUME IInv, NEW op \in Operations
               PROVE  Cardinality(delivered[op]) <= 1
    BY DEF OneArtifactPerOperation
  <2>1. CASE delivered[op] = {}
    BY <2>1, FS_EmptySet
  <2>2. CASE \E a \in Nat : delivered[op] = {a}
    <3>1. PICK a \in Nat : delivered[op] = {} \cup {a}
      BY <2>2
    <3>2. IsFiniteSet({}) /\ Cardinality({}) = 0
      BY FS_EmptySet
    <3>3. Cardinality({} \cup {a}) = 1
      <4> DEFINE none == {}
      <4>1. IsFiniteSet(none) /\ Cardinality(none) = 0 /\ a \notin none
        BY <3>2
      <4> HIDE DEF none
      <4>2. Cardinality(none \cup {a}) = Cardinality(none) + 1
        BY <4>1, FS_AddElement
      <4> QED BY <4>1, <4>2 DEF none
    <3> QED BY <3>1, <3>3
  <2> QED BY <2>1, <2>2 DEF IInv, Accounted, AtMostOne
<1> QED BY <1>1, Always, PTL

\* An artifact that is out is on a count no settlement returns.
THEOREM PaidFor == Spec => []DeliveredIsPaidFor
<1>1. IInv => DeliveredIsPaidFor
  BY DEF IInv, Accounted
<1> QED BY <1>1, Always, PTL

-----------------------------------------------------------------------------
(* The queues                                                               *)

\* Who awaits an attempt, in an operation's queue.
InQueue(c, op) == \E i \in 1..Len(awaiting[op]) : awaiting[op][i] = c

\* A waiting caller is in the queue of its operation, so that there is a head.
Queues ==
    /\ awaiting \in [Operations -> Seq(Callers)]
    /\ \A c \in Callers : caller[c].at = "waiting" => InQueue(c, caller[c].op)
    /\ derivable \in BOOLEAN /\ crashes \in Nat

\* What is queued stays queued behind the head, and before what is appended.
LEMMA QueueMoves ==
    ASSUME NEW s \in Seq(Callers), NEW c \in Callers
    PROVE  /\ Append(s, c) \in Seq(Callers)
           /\ \E i \in 1..Len(Append(s, c)) : Append(s, c)[i] = c
           /\ \A d : (\E i \in 1..Len(s) : s[i] = d) => \E i \in 1..Len(Append(s, c)) : Append(s, c)[i] = d
           /\ (\E i \in 1..Len(s) : s[i] = c) =>
                /\ Tail(s) \in Seq(Callers)
                /\ \A d : d # Head(s) /\ (\E i \in 1..Len(s) : s[i] = d)
                        => \E i \in 1..Len(Tail(s)) : Tail(s)[i] = d
<1>1. /\ Append(s, c) \in Seq(Callers)
      /\ Len(Append(s, c)) = Len(s) + 1 /\ Len(s) \in Nat /\ Append(s, c)[Len(s) + 1] = c
      /\ \A i \in 1..Len(s) : Append(s, c)[i] = s[i]
  OBVIOUS
<1>2. \E i \in 1..Len(Append(s, c)) : Append(s, c)[i] = c
  <2>1. Len(s) + 1 \in 1..Len(Append(s, c))
    BY <1>1
  <2> QED BY <1>1, <2>1
<1>3. \A d : (\E i \in 1..Len(s) : s[i] = d) => \E i \in 1..Len(Append(s, c)) : Append(s, c)[i] = d
  <2> SUFFICES ASSUME NEW d, NEW i \in 1..Len(s), s[i] = d
               PROVE  \E j \in 1..Len(Append(s, c)) : Append(s, c)[j] = d
    OBVIOUS
  <2>1. i \in 1..Len(Append(s, c))
    BY <1>1
  <2> QED BY <1>1, <2>1
<1>4. ASSUME \E i \in 1..Len(s) : s[i] = c
      PROVE  /\ Tail(s) \in Seq(Callers)
             /\ \A d : d # Head(s) /\ (\E i \in 1..Len(s) : s[i] = d)
                     => \E i \in 1..Len(Tail(s)) : Tail(s)[i] = d
  <2>1. s # <<>> /\ Len(s) > 0
    BY <1>4
  <2>2. /\ Tail(s) \in Seq(Callers) /\ Len(Tail(s)) = Len(s) - 1 /\ Head(s) = s[1]
        /\ \A i \in 1..Len(Tail(s)) : Tail(s)[i] = s[i + 1]
    BY <2>1
  <2> SUFFICES ASSUME NEW d, d # Head(s), NEW i \in 1..Len(s), s[i] = d
               PROVE  \E j \in 1..Len(Tail(s)) : Tail(s)[j] = d
    BY <2>2
  <2>3. i # 1 /\ i - 1 \in 1..Len(Tail(s)) /\ (i - 1) + 1 = i
    BY <2>2
  <2> QED BY <2>2, <2>3
<1> QED BY <1>1, <1>2, <1>3, <1>4

\* Joining keeps the queues, whoever else of the operation is in others.
LEMMA JoinQueues ==
    ASSUME IInv, Queues, NEW c \in Callers, NEW op \in Operations, NEW others \in Seq(Callers),
           \A d \in Callers \ {c} : caller[d].at = "waiting" /\ caller[d].op = op
                => \E i \in 1..Len(others) : others[i] = d,
           Join(c, op, others), UNCHANGED <<derivable, crashes>>
    PROVE  Queues'
<1>1. caller \in [Callers -> CallerRecord] /\ awaiting \in [Operations -> Seq(Callers)]
  BY DEF IInv, Typed, Queues
<1>2. CASE /\ caller' = [caller EXCEPT ![c] = [at |-> "waiting", op |-> op, on |-> owner[op], fresh |-> FALSE]]
           /\ awaiting' = [awaiting EXCEPT ![op] = Append(others, c)]
  <2>1. awaiting'[op] = Append(others, c) /\ \A o \in Operations \ {op} : awaiting'[o] = awaiting[o]
    BY <1>1, <1>2
  <2>2. /\ caller'[c].at = "waiting" /\ caller'[c].op = op
        /\ \A d \in Callers \ {c} : caller'[d] = caller[d]
    BY <1>1, <1>2
  <2>3. awaiting' \in [Operations -> Seq(Callers)]
    BY <1>1, <1>2, QueueMoves
  <2>4. InQueue(c, op)'
    BY <2>1, QueueMoves DEF InQueue
  <2>5. ASSUME NEW d \in Callers \ {c}, caller[d].at = "waiting"
        PROVE  InQueue(d, caller[d].op)'
    <3>1. CASE caller[d].op = op
      <4>1. \E i \in 1..Len(others) : others[i] = d
        BY <2>5, <3>1
      <4>2. \E i \in 1..Len(Append(others, c)) : Append(others, c)[i] = d
        BY <4>1, QueueMoves
      <4>3. caller'[d].op = op
        BY <2>2, <3>1
      <4> QED BY <2>1, <4>2, <4>3 DEF InQueue
    <3>2. CASE caller[d].op # op
      <4>1. caller[d].op \in Operations \ {op} /\ caller'[d].op = caller[d].op
        BY <1>1, <2>2, <3>2 DEF CallerRecord
      <4> QED BY <2>1, <2>5, <4>1 DEF Queues, InQueue
    <3> QED BY <3>1, <3>2
  <2> QED BY <2>2, <2>3, <2>4, <2>5 DEF Queues
<1>3. CASE Reserve(c, op) /\ awaiting' = [awaiting EXCEPT ![op] = others]
  <2>1. awaiting'[op] = others /\ \A o \in Operations \ {op} : awaiting'[o] = awaiting[o]
    BY <1>1, <1>3
  <2>2. PICK r : r.at # "waiting" /\ caller' = [caller EXCEPT ![c] = r]
    BY <1>3 DEF Reserve, Attempt
  <2>3. caller'[c].at # "waiting" /\ \A d \in Callers \ {c} : caller'[d] = caller[d]
    BY <1>1, <2>2
  <2>4. ASSUME NEW d \in Callers \ {c}, caller[d].at = "waiting"
        PROVE  InQueue(d, caller[d].op)'
    <3>1. CASE caller[d].op = op
      BY <2>1, <2>3, <2>4, <3>1 DEF InQueue
    <3>2. CASE caller[d].op # op
      <4>1. caller[d].op \in Operations \ {op} /\ caller'[d].op = caller[d].op
        BY <1>1, <2>3, <3>2 DEF CallerRecord
      <4> QED BY <2>1, <2>4, <4>1 DEF Queues, InQueue
    <3> QED BY <3>1, <3>2
  <2>5. awaiting' \in [Operations -> Seq(Callers)]
    BY <1>1, <1>3
  <2> QED BY <2>3, <2>4, <2>5 DEF Queues
<1> QED BY <1>2, <1>3 DEF Join

\* A step that leaves the queues alone and starts no wait.
LEMMA QueuesStand ==
    ASSUME Queues, awaiting' = awaiting, derivable' \in BOOLEAN, crashes' \in Nat,
           \A d \in Callers : caller'[d].at = "waiting" => caller'[d] = caller[d]
    PROVE  Queues'
  BY DEF Queues, InQueue

\* One caller's phase changes, to none that waits.
LEMMA OneCallerMoves ==
    ASSUME IInv, Queues, NEW c \in Callers, NEW r, r.at # "waiting",
           caller' = [caller EXCEPT ![c] = r], UNCHANGED <<awaiting, derivable, crashes>>
    PROVE  Queues'
<1>1. caller'[c] = r /\ \A d \in Callers \ {c} : caller'[d] = caller[d]
  BY DEF IInv, Typed
<1> QED BY <1>1, QueuesStand DEF Queues

\* A waiter leaves the head of its queue, or joins it again at the end.
LEMMA WakeQueues ==
    ASSUME IInv, Queues, NEW c \in Callers, Wake(c)
    PROVE  Queues'
<1> DEFINE op == caller[c].op
<1>1. /\ op \in Operations /\ caller[c].at = "waiting" /\ c = Head(awaiting[op])
      /\ caller \in [Callers -> CallerRecord] /\ awaiting[op] \in Seq(Callers)
  BY DEF IInv, Typed, CallerRecord, Wake, Queues
<1>2. \E i \in 1..Len(awaiting[op]) : awaiting[op][i] = c
  BY <1>1 DEF Queues, InQueue
<1>3. /\ Tail(awaiting[op]) \in Seq(Callers)
      /\ \A d : d # c /\ (\E i \in 1..Len(awaiting[op]) : awaiting[op][i] = d)
              => \E i \in 1..Len(Tail(awaiting[op])) : Tail(awaiting[op])[i] = d
  BY <1>1, <1>2, QueueMoves
<1>4. UNCHANGED <<derivable, crashes>>
  BY DEF Wake
<1>5. CASE /\ caller' = [caller EXCEPT ![c] = Attempt(op, "done", FALSE)]
           /\ awaiting' = [awaiting EXCEPT ![op] = Tail(@)]
  <2>1. /\ awaiting'[op] = Tail(awaiting[op])
        /\ \A o \in Operations \ {op} : awaiting'[o] = awaiting[o]
    BY <1>1, <1>5 DEF Queues
  <2>2. caller'[c].at # "waiting" /\ \A d \in Callers \ {c} : caller'[d] = caller[d]
    BY <1>1, <1>5 DEF Attempt
  <2>3. awaiting' \in [Operations -> Seq(Callers)]
    BY <1>3, <1>5 DEF Queues
  <2>4. ASSUME NEW d \in Callers \ {c}, caller[d].at = "waiting"
        PROVE  InQueue(d, caller[d].op)'
    <3>1. InQueue(d, caller[d].op) /\ caller[d].op \in Operations
      BY <1>1, <2>4 DEF Queues, CallerRecord
    <3>2. caller'[d].op = caller[d].op
      BY <2>2
    <3>3. CASE caller[d].op = op
      <4>1. \E i \in 1..Len(awaiting[op]) : awaiting[op][i] = d
        BY <3>1, <3>3 DEF InQueue
      <4>2. \E i \in 1..Len(Tail(awaiting[op])) : Tail(awaiting[op])[i] = d
        BY <1>3, <4>1
      <4>3. caller'[d].op = op
        BY <3>2, <3>3
      <4> QED BY ONLY <2>1, <4>2, <4>3 DEF InQueue
    <3>4. CASE caller[d].op # op
      BY <2>1, <3>1, <3>2, <3>4 DEF InQueue
    <3> QED BY <3>3, <3>4
  <2> QED BY <1>4, <2>2, <2>3, <2>4 DEF Queues
<1>6. CASE Join(c, op, Tail(awaiting[op]))
  <2>1. \A d \in Callers \ {c} : caller[d].at = "waiting" /\ caller[d].op = op
            => \E i \in 1..Len(Tail(awaiting[op])) : Tail(awaiting[op])[i] = d
    BY <1>3 DEF Queues, InQueue
  <2> HIDE DEF op
  <2> QED BY <1>1, <1>3, <1>4, <1>6, <2>1, JoinQueues
<1> QED BY <1>5, <1>6 DEF Wake

\* Every step keeps the queues.
LEMMA QueuesInductive == IInv /\ Queues /\ [Next]_vars => Queues'
<1> SUFFICES ASSUME IInv, Queues, [Next]_vars PROVE Queues'
  OBVIOUS
<1>1. caller \in [Callers -> CallerRecord]
  BY DEF IInv, Typed
<1>2. ASSUME NEW c \in Callers, NEW op \in Operations, Call(c, op)
      PROVE  Queues'
  <2>1. awaiting[op] \in Seq(Callers)
    BY DEF Queues
  <2>2. \A d \in Callers \ {c} : caller[d].at = "waiting" /\ caller[d].op = op
            => \E i \in 1..Len(awaiting[op]) : awaiting[op][i] = d
    BY DEF Queues, InQueue
  <2> QED BY <1>2, <2>1, <2>2, JoinQueues DEF Call
<1>3. ASSUME NEW c \in Callers, Sign(c) \/ MintFails(c) \/ CountToken(c) \/ TokenDelivered(c) \/ TokenRefunded(c)
      PROVE  Queues'
  <2>1. /\ UNCHANGED <<awaiting, derivable, crashes>>
        /\ \E at \in {"done", "failed", "token", "idle"} : caller' = [caller EXCEPT ![c].at = at]
    BY <1>3 DEF Sign, MintFails, CountToken, TokenDelivered, TokenRefunded
  <2>2. \A at \in {"done", "failed", "token", "idle"} : [caller[c] EXCEPT !.at = at].at # "waiting"
    BY <1>1 DEF CallerRecord
  <2> QED BY <2>1, <2>2, OneCallerMoves
<1>4. ASSUME NEW c \in Callers, Return(c)
      PROVE  Queues'
  <2>1. Idle(caller[c].op).at # "waiting"
    BY DEF Idle
  <2> QED BY <1>4, <2>1, OneCallerMoves DEF Return
<1>5. ASSUME NEW c \in Callers, Wake(c)
      PROVE  Queues'
  BY <1>5, WakeQueues
<1>6. CASE (\E op \in Operations : Reconcile(op) \/ Age(op)) \/ Derivability \/ UNCHANGED vars
  <2>1. awaiting' = awaiting /\ caller' = caller /\ crashes' = crashes /\ derivable' \in BOOLEAN
    BY <1>6 DEF Reconcile, Age, Derivability, vars, Queues
  <2> QED BY <2>1, QueuesStand DEF Queues
<1>7. CASE CrashAndBoot
  <2>1. awaiting' = [op \in Operations |-> <<>>] /\ crashes' \in Nat /\ derivable' = derivable
    BY <1>7 DEF CrashAndBoot, Queues
  <2>2. \A c \in Callers : caller'[c].at # "waiting"
    BY <1>7 DEF CrashAndBoot, Idle
  <2> QED BY <2>1, <2>2 DEF Queues
<1> QED BY <1>2, <1>3, <1>4, <1>5, <1>6, <1>7 DEF Next

\* Every variable keeps its type and the count its limit: the queues hold the
\* callers that wait, so that a waiter's turn is that of a queue that has a head.
THEOREM ReservationTypes == Spec => []TypeOK
<1>1. Init => Queues
  BY DEF Init, Idle, Queues, InQueue
<1>2. IInv /\ Queues => TypeOK
  BY DEF IInv, Typed, CallerRecord, Queues, TypeOK
<1> QED BY <1>1, <1>2, Always, QueuesInductive, PTL DEF Spec

-----------------------------------------------------------------------------
(* What a step is of the budget                                             *)

\* What the budget has charged is the count. (The instance has a Cardinality
\* of its own, of the same definition.)
LEMMA ChargedIsCount ==
    ASSUME IInv
    PROVE  Budget!Charged = count
<1> DEFINE charge == [o \in Operations |-> ChargeOf(ledger[o])]
           charged == {op \in Operations : charge[op] = "charged"}
<1>1. Budget!Charged = Cardinality(charged) + (Cardinality(Tokens) + spent)
  BY DEF Budget!Charged, Budget!Cardinality, Cardinality
<1>2. charged = Counted
  BY DEF IInv, Typed, Row, RowState, ChargeOf, Counted
<1> HIDE DEF charged
<1> QED BY <1>1, <1>2, Finite DEF IInv, Typed, CountConservation

\* A step that charges, issues and returns nothing.
LEMMA NoBudgetStep ==
    ASSUME \A op \in Operations : ChargeOf(ledger'[op]) = ChargeOf(ledger[op]),
           delivered' = delivered,
           Cardinality(Tokens') + spent' = Cardinality(Tokens) + spent
    PROVE  UNCHANGED Budget!vars
  BY DEF Budget!vars

\* A reservation admitted.
LEMMA ChargeStep ==
    ASSUME IInv, NEW op \in Operations, ~Kept(op), count < Limit,
           ledger' = [ledger EXCEPT ![op] = [NoRow EXCEPT !.state = "reserved"]],
           delivered' = delivered, Tokens' = Tokens, spent' = spent
    PROVE  Budget!Next
<1>1. ChargeOf(ledger[op]) = "none" /\ ChargeOf(ledger'[op]) = "charged"
  BY DEF IInv, Typed, Kept, NoRow, ChargeOf
<1>2. \A o \in Operations \ {op} : ChargeOf(ledger'[o]) = ChargeOf(ledger[o])
  BY DEF IInv, Typed
<1>3. Budget!Charge(op)
  BY <1>1, <1>2, ChargedIsCount DEF Budget!Charge
<1> QED BY <1>3 DEF Budget!Next

\* A refund of a row whose artifact is not out.
LEMMA GiveBackStep ==
    ASSUME IInv, NEW op \in Operations, ledger[op].state \in Unsettled,
           ledger' = [ledger EXCEPT ![op].state = "refunded"],
           delivered' = delivered, Tokens' = Tokens, spent' = spent
    PROVE  Budget!Next
<1>1. ChargeOf(ledger[op]) = "charged" /\ ChargeOf(ledger'[op]) = "returned"
  BY DEF IInv, Typed, Row, Unsettled, ChargeOf
<1>2. \A o \in Operations \ {op} : ChargeOf(ledger'[o]) = ChargeOf(ledger[o])
  BY DEF IInv, Typed
<1>3. Cardinality(delivered[op]) = 0
  BY FS_EmptySet DEF IInv, Accounted, DeliveredIsPaidFor, Unsettled
<1>4. Budget!GiveBack(op)
  BY <1>1, <1>2, <1>3 DEF Budget!GiveBack
<1> QED BY <1>4 DEF Budget!Next

\* A caller whose record changes, and neither of them a token.
LEMMA CallerStep ==
    ASSUME IInv, NEW c \in Callers, NEW r, caller[c].at # "token", r.at # "token",
           caller' = [caller EXCEPT ![c] = r],
           ledger' = ledger, delivered' = delivered, spent' = spent
    PROVE  UNCHANGED Budget!vars
<1>1. Tokens' = Tokens
  BY TokensKept DEF IInv
<1> QED BY <1>1, NoBudgetStep

-----------------------------------------------------------------------------
(* The actions                                                              *)

\* Joining waits, or reserves.
LEMMA JoinStep ==
    ASSUME IInv, NEW c \in Callers, NEW op \in Operations, NEW others,
           caller[c].at \in {"idle", "waiting"}, op \in Anonymous => ~Kept(op),
           Join(c, op, others), UNCHANGED <<delivered, spent>>
    PROVE  [Budget!Next]_Budget!vars
<1>1. CASE Reserve(c, op)
  <2>1. ASSUME NEW at \in {"minting", "done", "failed"}, Held(c, op, at, FALSE)
        PROVE  UNCHANGED Budget!vars
    BY <2>1, CallerStep DEF Held, Attempt
  <2>2. ASSUME Admitted(c, op)
        PROVE  Budget!Next
    <3>1. Tokens' = Tokens
      BY <2>2, TokensKept DEF IInv, Admitted, Attempt
    <3> QED BY <2>2, <3>1, ChargeStep DEF Admitted
  <2> QED BY <1>1, <2>1, <2>2, ReserveOutcomes DEF IInv, Accounted
<1>2. CASE /\ caller' = [caller EXCEPT ![c] = [at |-> "waiting", op |-> op, on |-> owner[op], fresh |-> FALSE]]
           /\ UNCHANGED <<count, ledger, owner>>
  BY <1>2, CallerStep
<1> QED BY <1>1, <1>2 DEF Join

\* A signature issues the one artifact.
LEMMA SignStep ==
    ASSUME IInv, NEW c \in Callers, Sign(c)
    PROVE  Budget!Next
<1> DEFINE op == caller[c].op
<1>1. op \in Operations
  BY DEF IInv, Typed, CallerRecord
<1>2. ledger[op].state \in Unsettled /\ delivered[op] = {}
  BY <1>1 DEF Sign, IInv, Exclusive, MintersOwn, Accounted, DeliveredIsPaidFor, Unsettled
<1>3. Tokens' = Tokens
  BY DEF Sign, IInv, Typed, CallerRecord, Tokens
<1>4. \A o \in Operations : ChargeOf(ledger'[o]) = ChargeOf(ledger[o])
  BY <1>1, <1>2 DEF Sign, IInv, Typed, Row, Unsettled, ChargeOf
<1>5. ChargeOf(ledger[op]) = "charged"
  BY <1>2 DEF Unsettled, ChargeOf
<1>6. Cardinality(delivered[op]) = 0 /\ Cardinality(delivered'[op]) = 1
  <2>1. delivered'[op] = {signed[op] + 1}
    BY <1>1, <1>2 DEF Sign, IInv, Typed
  <2>2. Cardinality(delivered'[op]) = 1
    BY <2>1, FS_Singleton
  <2>3. Cardinality({}) = 0
    BY FS_EmptySet
  <2> QED BY <1>2, <2>2, <2>3
<1>7. \A o \in Operations \ {op} : delivered'[o] = delivered[o]
  BY <1>1 DEF Sign, IInv, Typed
<1>8. spent' = spent
  BY DEF Sign
<1> HIDE DEF op
<1>9. Budget!Issue(op)
  BY <1>1, <1>3, <1>4, <1>5, <1>6, <1>7, <1>8 DEF Budget!Issue
<1> QED BY <1>1, <1>9 DEF Budget!Next

\* A failed mint gives back its own fresh charge, or nothing.
LEMMA MintFailsStep ==
    ASSUME IInv, NEW c \in Callers, MintFails(c)
    PROVE  [Budget!Next]_Budget!vars
<1> DEFINE op == caller[c].op
           r  == [caller[c] EXCEPT !.at = "failed"]
<1>1. op \in Operations /\ r.at = "failed"
  BY DEF IInv, Typed, CallerRecord
<1>2. caller' = [caller EXCEPT ![c] = r] /\ caller[c].at = "minting"
  BY DEF MintFails
<1>3. delivered' = delivered /\ spent' = spent
  BY DEF MintFails
<1>4. CASE caller[c].fresh /\ op \in Refunding
  <2>1. ledger[op].state \in Unsettled
    BY <1>2 DEF IInv, Exclusive, MintersOwn
  <2>2. ledger' = [ledger EXCEPT ![op].state = "refunded"]
    BY <1>4, <2>1 DEF MintFails, NotAccepted
  <2>3. Tokens' = Tokens
    BY <1>1, <1>2, TokensKept DEF IInv
  <2> QED BY <1>1, <1>3, <2>1, <2>2, <2>3, GiveBackStep
<1>5. CASE ~(caller[c].fresh /\ op \in Refunding)
  <2>1. ledger' = ledger
    BY <1>5 DEF MintFails
  <2> HIDE DEF r
  <2> QED BY <1>1, <1>2, <1>3, <2>1, CallerStep
<1> QED BY <1>4, <1>5

\* A waiter returns what is out, or joins again.
LEMMA WakeStep ==
    ASSUME IInv, NEW c \in Callers, Wake(c)
    PROVE  [Budget!Next]_Budget!vars
<1> DEFINE op == caller[c].op
<1>1. op \in Operations /\ caller[c].at = "waiting" /\ op \notin Anonymous
  BY DEF IInv, Typed, CallerRecord, Wake, Exclusive, WaitersNamed
<1>2. delivered' = delivered /\ spent' = spent
  BY DEF Wake
<1>3. CASE /\ caller' = [caller EXCEPT ![c] = Attempt(op, "done", FALSE)]
           /\ UNCHANGED <<count, ledger, owner>>
  <2>1. Attempt(op, "done", FALSE).at # "token"
    BY DEF Attempt
  <2> QED BY <1>1, <1>2, <1>3, <2>1, CallerStep
<1>4. CASE Join(c, op, Tail(awaiting[op]))
  BY <1>1, <1>2, <1>4, JoinStep
<1> QED BY <1>3, <1>4 DEF Wake

\* A return moves nothing.
LEMMA ReturnStep ==
    ASSUME IInv, NEW c \in Callers, Return(c)
    PROVE  UNCHANGED Budget!vars
<1>1. Idle(caller[c].op).at # "token" /\ caller[c].at # "token"
  BY DEF Return, Idle
<1>2. caller' = [caller EXCEPT ![c] = Idle(caller[c].op)]
  BY DEF Return
<1>3. ledger' = ledger /\ delivered' = delivered /\ spent' = spent
  BY DEF Return
<1> QED BY <1>1, <1>2, <1>3, CallerStep

\* A token request charges one, keeps it or gives it back.
LEMMA TokenStep ==
    ASSUME IInv, NEW c \in Callers,
           CountToken(c) \/ TokenDelivered(c) \/ TokenRefunded(c)
    PROVE  [Budget!Next]_Budget!vars
<1>1. ledger' = ledger /\ delivered' = delivered
  BY DEF CountToken, TokenDelivered, TokenRefunded
<1>2. CASE CountToken(c)
  <2>1. c \notin Tokens /\ Tokens' = Tokens \cup {c}
    BY <1>2 DEF CountToken, IInv, Typed, CallerRecord, Tokens
  <2>2. Cardinality(Tokens') = Cardinality(Tokens) + 1
    BY <2>1, Finite, FS_AddElement
  <2>3. count < Limit /\ spent' = spent
    BY <1>2 DEF CountToken
  <2>4. Cardinality(Tokens') + spent' = (Cardinality(Tokens) + spent) + 1
    BY <2>2, <2>3, Finite DEF IInv, Typed
  <2>5. Budget!ChargeToken
    BY <1>1, <2>3, <2>4, ChargedIsCount DEF Budget!ChargeToken
  <2> QED BY <2>5 DEF Budget!Next
<1>3. CASE TokenDelivered(c) \/ TokenRefunded(c)
  <2>1. c \in Tokens /\ Tokens' = Tokens \ {c}
    BY <1>3 DEF TokenDelivered, TokenRefunded, IInv, Typed, CallerRecord, Tokens
  <2>2. Cardinality(Tokens') = Cardinality(Tokens) - 1
    BY <2>1, Finite, FS_RemoveElement
  <2>3. CASE spent' = spent + 1
    <3>1. Cardinality(Tokens') + spent' = Cardinality(Tokens) + spent
      BY <2>2, <2>3, Finite DEF IInv, Typed
    <3> QED BY <1>1, <3>1, NoBudgetStep
  <2>4. CASE spent' = spent
    <3>1. Cardinality(Tokens) > 0
      BY <2>1, Finite, FS_EmptySet
    <3>2. /\ Cardinality(Tokens') + spent' = (Cardinality(Tokens) + spent) - 1
          /\ Cardinality(Tokens) + spent > 0
      BY <2>2, <2>4, <3>1, Finite DEF IInv, Typed
    <3>3. Budget!GiveBackToken
      BY <1>1, <3>2 DEF Budget!GiveBackToken
    <3> QED BY <3>3 DEF Budget!Next
  <2> QED BY <1>3, <2>3, <2>4 DEF TokenDelivered, TokenRefunded
<1> QED BY <1>2, <1>3

\* A settlement gives back an unsettled row's charge, or moves none.
LEMMA ReconcileStep ==
    ASSUME IInv, NEW op \in Operations, Reconcile(op)
    PROVE  [Budget!Next]_Budget!vars
<1>1. Tokens' = Tokens /\ delivered' = delivered /\ spent' = spent
  BY DEF Reconcile, Tokens
<1>2. CASE ledger[op].state \in Unsettled
  <2>1. ledger' = [ledger EXCEPT ![op].state = "refunded"]
    BY <1>2 DEF Reconcile, NotAccepted, IInv, Accounted, DeliveredIsPaidFor, Unsettled
  <2> QED BY <1>1, <1>2, <2>1, GiveBackStep
<1>3. CASE ledger[op].state \notin Unsettled
  <2>1. ledger' = ledger
    BY <1>3 DEF Reconcile, NotAccepted, IInv, Typed, Row
  <2> QED BY <1>1, <2>1, NoBudgetStep
<1> QED BY <1>2, <1>3

\* A row's age moves no charge.
LEMMA AgeStep ==
    ASSUME IInv, NEW op \in Operations, Age(op)
    PROVE  UNCHANGED Budget!vars
<1>1. \A o \in Operations : ledger'[o].state = ledger[o].state
  BY DEF Age, IInv, Typed, Row
<1>2. Tokens' = Tokens /\ delivered' = delivered /\ spent' = spent
  BY DEF Age, Tokens
<1> QED BY <1>1, <1>2, NoBudgetStep DEF ChargeOf

\* A boot moves no charge: what the lost requests counted stays charged.
LEMMA CrashStep ==
    ASSUME IInv, CrashAndBoot
    PROVE  UNCHANGED Budget!vars
<1>1. \A o \in Operations : ChargeOf(ledger'[o]) = ChargeOf(ledger[o])
  BY DEF CrashAndBoot, IInv, Typed, Row, RowState, ChargeOf
<1>2. Tokens' = {}
  BY DEF CrashAndBoot, Idle, Tokens
<1>3. Cardinality(Tokens') = 0
  BY <1>2, FS_EmptySet
<1>4. Cardinality(Tokens') + spent' = Cardinality(Tokens) + spent
  BY <1>3, Finite DEF CrashAndBoot, IInv, Typed
<1>5. delivered' = delivered
  BY DEF CrashAndBoot
<1> QED BY <1>1, <1>4, <1>5, NoBudgetStep

-----------------------------------------------------------------------------
(* The refinement                                                           *)

\* At first nothing is charged.
LEMMA BudgetInit == Init => Budget!Init
<1> SUFFICES ASSUME Init PROVE Budget!Init
  OBVIOUS
<1>1. Tokens = {}
  BY DEF Init, Idle, Tokens
<1>2. Cardinality(Tokens) + spent = 0
  BY <1>1, FS_EmptySet DEF Init
<1>3. \A op \in Operations : ChargeOf(ledger[op]) = "none" /\ Cardinality(delivered[op]) = 0
  BY FS_EmptySet DEF Init, NoRow, ChargeOf
<1> QED BY <1>2, <1>3 DEF Budget!Init

\* Every step is a step of the budget, or none.
LEMMA BudgetStep == IInv /\ [Next]_vars => [Budget!Next]_Budget!vars
<1> SUFFICES ASSUME IInv, [Next]_vars PROVE [Budget!Next]_Budget!vars
  OBVIOUS
<1>1. ASSUME NEW c \in Callers, NEW op \in Operations, Call(c, op)
      PROVE  [Budget!Next]_Budget!vars
  BY <1>1, JoinStep DEF Call
<1>2. ASSUME NEW c \in Callers, Sign(c) \/ MintFails(c) \/ Wake(c) \/ Return(c)
      PROVE  [Budget!Next]_Budget!vars
  BY <1>2, SignStep, MintFailsStep, WakeStep, ReturnStep
<1>3. ASSUME NEW c \in Callers, CountToken(c) \/ TokenDelivered(c) \/ TokenRefunded(c)
      PROVE  [Budget!Next]_Budget!vars
  BY <1>3, TokenStep
<1>4. ASSUME NEW op \in Operations, Reconcile(op) \/ Age(op)
      PROVE  [Budget!Next]_Budget!vars
  BY <1>4, ReconcileStep, AgeStep
<1>5. CASE Derivability \/ UNCHANGED vars
  <2>1. Tokens' = Tokens /\ ledger' = ledger /\ delivered' = delivered /\ spent' = spent
    BY <1>5 DEF Derivability, vars, Tokens
  <2> QED BY <2>1, NoBudgetStep
<1>6. CASE CrashAndBoot
  BY <1>6, CrashStep
<1> QED BY <1>1, <1>2, <1>3, <1>4, <1>5, <1>6 DEF Next

\* The ledger implements the budget: an operation is charged at most once, has
\* at most one artifact, gives its charge back only while it has none, and
\* what is charged never exceeds the limit.
THEOREM BudgetIsImplemented == Spec => ImplementsBudget
<1> QED BY BudgetInit, BudgetStep, Always, PTL DEF Spec, ImplementsBudget, Budget!Spec

=============================================================================
