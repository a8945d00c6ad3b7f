----------------------- MODULE DerivationReservations -----------------------
(***************************************************************************)
(* The derivation counter of one Mission and its reservation ledger        *)
(* (kernel/derivation-reservations.ts and the derivation gate of           *)
(* kernel/kernel.ts), with the callers that spend it: the minters that     *)
(* reserve under an operation identity (attenuation roots and cross-domain *)
(* grants) and the token requests that count without one.                  *)
(*                                                                         *)
(* The count and the ledger are durable; the map of derivations in flight  *)
(* and the callers are lost with the process.                              *)
(***************************************************************************)
EXTENDS Integers, Sequences, FiniteSets

CONSTANTS
    Operations,   \* operation identities
    Anonymous,    \* those a minter makes up: one call each, nothing retained
    Refunding,    \* those whose minter settles its own failure as not accepted
    Callers,      \* concurrent requests
    NoCaller,     \* nobody
    Limit,        \* derivation_limit
    MaxSigned,    \* bound on the artifacts signed for one operation
    MaxSpent,     \* bound on the tokens counted for good
    MaxCrashes    \* bound on process losses

ASSUME FiniteAssumption ==
    IsFiniteSet(Operations) /\ IsFiniteSet(Callers)

ASSUME SubsetAssumption ==
    /\ Anonymous \subseteq Operations /\ Refunding \subseteq Operations
    /\ NoCaller \notin Callers

ASSUME BoundAssumption ==
    Limit \in Nat /\ MaxSigned \in Nat /\ MaxSpent \in Nat /\ MaxCrashes \in Nat

VARIABLES
    derivable,  \* whether gateDerivable admits the Mission
    count,      \* derivation_count
    ledger,     \* ledger[op]: the reservation row
    owner,      \* owner[op]: derivationsInFlight
    awaiting,   \* awaiting[op]: who awaits an attempt, in the order they began
    caller,     \* caller[c]: what the request is at
    signed,     \* history: how many artifacts were signed for each operation
    delivered,  \* history: the artifacts that reached callers
    spent,      \* history: the tokens counted that no request still answers for
    crashes

vars == <<derivable, count, ledger, owner, awaiting, caller, signed, delivered, spent, crashes>>

-----------------------------------------------------------------------------
RowState == {"none", "reserved", "released", "unacknowledged", "refunded"}

\* completion: the artifact a replay returns, 0 when none is retained.
\* aged: the row is past its retention, and find() no longer returns it.
Row == [state : RowState, completion : Nat, aged : BOOLEAN]
NoRow == [state |-> "none", completion |-> 0, aged |-> FALSE]

Kept(op) == ledger[op].state # "none"
Found(op) == Kept(op) /\ ~ledger[op].aged
Unsettled == {"reserved", "unacknowledged"}

\* minting: the caller's attempt is being signed; waiting: it awaits the
\* attempt of caller `on`; done and failed: its attempt is settled; token: a
\* token request that has counted.
At == {"idle", "minting", "waiting", "done", "failed", "token"}
Idle(op) == [at |-> "idle", op |-> op, on |-> NoCaller, fresh |-> FALSE]
Attempt(op, at, fresh) == [at |-> at, op |-> op, on |-> NoCaller, fresh |-> fresh]

Counted == {op \in Operations : ledger[op].state \in {"reserved", "released", "unacknowledged"}}
Tokens == {c \in Callers : caller[c].at = "token"}

\* The decrement's own condition.
Refunded(n) == IF n > 0 THEN n - 1 ELSE n

-----------------------------------------------------------------------------
(* Reserved derivations                                                    *)

\* Mutant: an identity found in the ledger is minted against, refunded or not.
ReserveIgnoringRefund(c, op) ==
    \/ /\ Found(op) /\ ledger[op].completion # 0
       /\ caller' = [caller EXCEPT ![c] = Attempt(op, "done", FALSE)]
       /\ UNCHANGED <<count, ledger>>
    \/ /\ Found(op) /\ ledger[op].completion = 0
       /\ caller' = [caller EXCEPT ![c] = Attempt(op, IF derivable THEN "minting" ELSE "failed", FALSE)]
       /\ UNCHANGED <<count, ledger>>
    \/ /\ ~Found(op)
       /\ IF derivable /\ count < Limit /\ ~Kept(op)
          THEN /\ count' = count + 1
               /\ ledger' = [ledger EXCEPT ![op] = [NoRow EXCEPT !.state = "reserved"]]
               /\ caller' = [caller EXCEPT ![c] = Attempt(op, "minting", TRUE)]
          ELSE /\ caller' = [caller EXCEPT ![c] = Attempt(op, "failed", FALSE)]
               /\ UNCHANGED <<count, ledger>>

\* reserveDerivation, called by the attempt synchronously. A refunded identity
\* is refused; a retained artifact is returned ungated; then the gate; then a
\* held reservation is minted against; then the count and the row together,
\* which an aged row of the identity refuses (the UNIQUE constraint).
Reserve(c, op) ==
    \/ /\ Found(op) /\ ledger[op].state = "refunded"
       /\ caller' = [caller EXCEPT ![c] = Attempt(op, "failed", FALSE)]
       /\ UNCHANGED <<count, ledger>>
    \/ /\ Found(op) /\ ledger[op].state # "refunded" /\ ledger[op].completion # 0
       /\ caller' = [caller EXCEPT ![c] = Attempt(op, "done", FALSE)]
       /\ UNCHANGED <<count, ledger>>
    \/ /\ Found(op) /\ ledger[op].state # "refunded" /\ ledger[op].completion = 0
       /\ caller' = [caller EXCEPT ![c] = Attempt(op, IF derivable THEN "minting" ELSE "failed", FALSE)]
       /\ UNCHANGED <<count, ledger>>
    \/ /\ ~Kept(op) /\ derivable /\ count < Limit
       /\ count' = count + 1
       /\ ledger' = [ledger EXCEPT ![op] = [NoRow EXCEPT !.state = "reserved"]]
       /\ caller' = [caller EXCEPT ![c] = Attempt(op, "minting", TRUE)]
    \/ /\ ~Found(op) /\ (Kept(op) \/ ~derivable \/ count >= Limit)
       /\ caller' = [caller EXCEPT ![c] = Attempt(op, "failed", FALSE)]
       /\ UNCHANGED <<count, ledger>>

\* Mutant: nobody looks at the map of derivations in flight.
JoinIgnoringOwner(c, op, others) ==
    /\ Reserve(c, op)
    /\ owner' = [owner EXCEPT ![op] = c]
    /\ awaiting' = [awaiting EXCEPT ![op] = others]

\* exclusiveDerivation: await the attempt in flight, behind the others, or own
\* a new one. The attempt whose failure brought the caller here is none.
Join(c, op, others) ==
    LET none == {NoCaller} \cup IF caller[c].at = "waiting" THEN {caller[c].on} ELSE {} IN
    \/ /\ owner[op] \notin none
       /\ caller' = [caller EXCEPT ![c] = [at |-> "waiting", op |-> op, on |-> owner[op], fresh |-> FALSE]]
       /\ awaiting' = [awaiting EXCEPT ![op] = Append(others, c)]
       /\ UNCHANGED <<count, ledger, owner>>
    \/ /\ owner[op] \in none
       /\ Reserve(c, op)
       /\ owner' = [owner EXCEPT ![op] = c]
       /\ awaiting' = [awaiting EXCEPT ![op] = others]

\* The event loop takes up a request, or the end of a signature, once what
\* awaits the attempts settled before has resumed.
Drained == \A c \in Callers : caller[c].at \notin {"done", "failed"}

Call(c, op) ==
    /\ Drained
    /\ caller[c].at = "idle"
    /\ op \in Anonymous => ~Kept(op) /\ \A d \in Callers : caller[d].at # "idle" => caller[d].op # op
    /\ Join(c, op, awaiting[op])
    /\ UNCHANGED <<derivable, signed, delivered, spent, crashes>>

\* The artifact is signed, its reservation released and it is returned. What
\* released it before is not moved, and neither is a refund.
Sign(c) ==
    LET op == caller[c].op IN
    /\ Drained
    /\ caller[c].at = "minting"
    /\ signed[op] < MaxSigned
    /\ signed' = [signed EXCEPT ![op] = @ + 1]
    /\ ledger' = IF ledger[op].state \in Unsettled
                 THEN [ledger EXCEPT
                         ![op].state = "released",
                         ![op].completion = IF op \in Anonymous THEN 0 ELSE signed[op] + 1]
                 ELSE ledger
    /\ delivered' = [delivered EXCEPT ![op] = @ \cup {signed[op] + 1}]
    /\ caller' = [caller EXCEPT ![c].at = "done"]
    /\ UNCHANGED <<derivable, count, owner, awaiting, spent, crashes>>

\* Mutant: a settlement does not ask whether the row is settled.
NotAcceptedAgain(op) ==
    /\ ledger' = [ledger EXCEPT ![op].state = "refunded"]
    /\ count' = Refunded(count)

\* reconcile with accepted = false.
NotAccepted(op) ==
    IF ledger[op].state \in Unsettled
    THEN /\ ledger' = [ledger EXCEPT ![op].state = "refunded"]
         /\ count' = Refunded(count)
    ELSE UNCHANGED <<ledger, count>>

\* The mint fails in process. A cross-domain grant's own fresh reservation is
\* settled as not accepted; a root's, and a replayed one, stay as they are.
MintFails(c) ==
    /\ Drained
    /\ caller[c].at = "minting"
    /\ caller' = [caller EXCEPT ![c].at = "failed"]
    /\ IF caller[c].fresh /\ caller[c].op \in Refunding
       THEN NotAccepted(caller[c].op)
       ELSE UNCHANGED <<ledger, count>>
    /\ UNCHANGED <<derivable, owner, awaiting, signed, delivered, spent, crashes>>

\* A waiting caller resumes, in its turn: it returns the owner's artifact, or,
\* the owner having failed, tries to own the operation itself.
Wake(c) ==
    LET op == caller[c].op IN
    /\ caller[c].at = "waiting"
    /\ c = Head(awaiting[op])
    /\ \/ /\ caller[caller[c].on].at = "done"
          /\ caller' = [caller EXCEPT ![c] = Attempt(op, "done", FALSE)]
          /\ awaiting' = [awaiting EXCEPT ![op] = Tail(@)]
          /\ UNCHANGED <<count, ledger, owner>>
       \/ /\ caller[caller[c].on].at = "failed"
          /\ Join(c, op, Tail(awaiting[op]))
    /\ UNCHANGED <<derivable, signed, delivered, spent, crashes>>

\* Mutant: a caller returns without giving up the operation it owns.
ReturnKeepsOwner(c) ==
    /\ caller[c].at \in {"done", "failed"}
    /\ caller' = [caller EXCEPT ![c] = Idle(@.op)]
    /\ UNCHANGED <<derivable, count, ledger, owner, awaiting, signed, delivered, spent, crashes>>

\* The caller returns or throws, giving up the operation if it owns it. Those
\* that awaited its attempt resume before its client can call again.
Return(c) ==
    LET op == caller[c].op IN
    /\ caller[c].at \in {"done", "failed"}
    /\ \A d \in Callers : caller[d].at = "waiting" => caller[d].on # c
    /\ caller' = [caller EXCEPT ![c] = Idle(op)]
    /\ owner' = [owner EXCEPT ![op] = IF @ = c THEN NoCaller ELSE @]
    /\ UNCHANGED <<derivable, count, ledger, awaiting, signed, delivered, spent, crashes>>

-----------------------------------------------------------------------------
(* Token requests                                                          *)

\* Mutant: the limit is checked on a count read before.
CountTokenUnchecked(c) ==
    /\ caller[c].at = "idle" /\ derivable
    /\ count' = count + 1
    /\ caller' = [caller EXCEPT ![c].at = "token"]
    /\ UNCHANGED <<derivable, ledger, owner, awaiting, signed, delivered, spent, crashes>>

\* gateDerivation in the provider's token hook, and the note that the request
\* counted.
CountToken(c) ==
    /\ Drained
    /\ caller[c].at = "idle" /\ derivable
    /\ count < Limit
    /\ count' = count + 1
    /\ caller' = [caller EXCEPT ![c].at = "token"]
    /\ UNCHANGED <<derivable, ledger, owner, awaiting, signed, delivered, spent, crashes>>

\* settleCountedDerivations after a 200.
TokenDelivered(c) ==
    /\ caller[c].at = "token"
    /\ spent < MaxSpent
    /\ spent' = spent + 1
    /\ caller' = [caller EXCEPT ![c].at = "idle"]
    /\ UNCHANGED <<derivable, count, ledger, owner, awaiting, signed, delivered, crashes>>

\* settleCountedDerivations after any other response.
TokenRefunded(c) ==
    /\ caller[c].at = "token"
    /\ count' = Refunded(count)
    /\ caller' = [caller EXCEPT ![c].at = "idle"]
    /\ UNCHANGED <<derivable, ledger, owner, awaiting, signed, delivered, spent, crashes>>

-----------------------------------------------------------------------------
(* The rest of the system                                                  *)

\* The authority that knows an operation's outcome settles its row. It answers
\* with the final outcome: no attempt of the operation is in flight. It may
\* answer again; a settled row is left as it is.
Reconcile(op) ==
    /\ Kept(op)
    /\ \A c \in Callers : caller[c].at \in {"minting", "waiting"} => caller[c].op # op
    /\ \/ delivered[op] = {} /\ NotAccepted(op)
       \/ /\ delivered[op] # {}
          /\ ledger' = [ledger EXCEPT ![op].state = IF @ \in Unsettled THEN "released" ELSE @]
          /\ UNCHANGED count
    /\ UNCHANGED <<derivable, owner, awaiting, caller, signed, delivered, spent, crashes>>

\* The lifecycle, the lineage and the effective authority of the Mission.
Derivability ==
    /\ derivable' = ~derivable
    /\ UNCHANGED <<count, ledger, owner, awaiting, caller, signed, delivered, spent, crashes>>

\* A row passes its retention; nothing deletes it.
Age(op) ==
    /\ Kept(op) /\ ~ledger[op].aged
    /\ ledger' = [ledger EXCEPT ![op].aged = TRUE]
    /\ UNCHANGED <<derivable, count, owner, awaiting, caller, signed, delivered, spent, crashes>>

\* The process is lost and starts again: recoverAtBoot. What its requests
\* counted stays counted.
CrashAndBoot ==
    /\ crashes < MaxCrashes
    /\ crashes' = crashes + 1
    /\ spent' = spent + Cardinality(Tokens)
    /\ caller' = [c \in Callers |-> Idle(caller[c].op)]
    /\ owner' = [op \in Operations |-> NoCaller]
    /\ awaiting' = [op \in Operations |-> <<>>]
    /\ ledger' = [op \in Operations |->
                    [ledger[op] EXCEPT !.state = IF @ = "reserved" THEN "unacknowledged" ELSE @]]
    /\ UNCHANGED <<derivable, count, signed, delivered>>

-----------------------------------------------------------------------------
Init ==
    /\ derivable = TRUE
    /\ count = 0
    /\ ledger = [op \in Operations |-> NoRow]
    /\ owner = [op \in Operations |-> NoCaller]
    /\ awaiting = [op \in Operations |-> <<>>]
    /\ caller \in [Callers -> {Idle(op) : op \in Operations}]
    /\ signed = [op \in Operations |-> 0]
    /\ delivered = [op \in Operations |-> {}]
    /\ spent = 0
    /\ crashes = 0

Next ==
    \/ \E c \in Callers, op \in Operations : Call(c, op)
    \/ \E c \in Callers :
          \/ Sign(c) \/ MintFails(c) \/ Wake(c) \/ Return(c)
          \/ CountToken(c) \/ TokenDelivered(c) \/ TokenRefunded(c)
    \/ \E op \in Operations : Reconcile(op) \/ Age(op)
    \/ Derivability
    \/ CrashAndBoot

Spec == Init /\ [][Next]_vars

\* Signing ends, one way or the other, and the event loop gets to it however
\* many requests it also takes up; what is ready to resume resumes.
Fairness ==
    \A c \in Callers : SF_vars(Sign(c) \/ MintFails(c)) /\ WF_vars(Wake(c)) /\ WF_vars(Return(c))

FairSpec == Spec /\ Fairness

-----------------------------------------------------------------------------
(* Properties                                                              *)

\* Every variable has its type; the count is within the limit.
TypeOK ==
    /\ derivable \in BOOLEAN
    /\ count \in 0..Limit
    /\ ledger \in [Operations -> Row]
    /\ owner \in [Operations -> Callers \cup {NoCaller}]
    /\ awaiting \in [Operations -> Seq(Callers)]
    /\ caller \in [Callers -> [at : At, op : Operations, on : Callers \cup {NoCaller}, fresh : BOOLEAN]]
    /\ signed \in [Operations -> Nat]
    /\ delivered \in [Operations -> SUBSET Nat]
    /\ spent \in Nat /\ crashes \in Nat

\* The count is what was admitted and not returned: one for each reservation
\* that is not refunded, one for each token request still at work, one for each
\* that ended with its token out or its process lost. A retry, a replay, a
\* late settlement, a crash or a boot neither adds nor returns one twice.
CountConservation ==
    count = Cardinality(Counted) + Cardinality(Tokens) + spent

\* One identity, one artifact: concurrent callers, retries, retries after a
\* crash and retries after the retention never get a second one.
OneArtifactPerOperation ==
    \A op \in Operations : Cardinality(delivered[op]) <= 1

\* No artifact is out on a count that was returned, or on a row that a boot or
\* a settlement may still return.
DeliveredIsPaidFor ==
    \A op \in Operations : delivered[op] # {} => ledger[op].state = "released"

\* Every caller of exclusiveDerivation gets an outcome, also when the attempt
\* it awaits fails.
CallersAnswered ==
    \A c \in Callers : caller[c].at \in {"minting", "waiting"} ~> caller[c].at \in {"done", "failed", "idle"}

-----------------------------------------------------------------------------
(* What the limit promises, and this module implements                     *)

ChargeOf(row) ==
    CASE row.state = "none"     -> "none"
      [] row.state = "refunded" -> "returned"
      [] OTHER                  -> "charged"

Budget == INSTANCE DerivationBudget WITH
    charge    <- [op \in Operations |-> ChargeOf(ledger[op])],
    artifacts <- [op \in Operations |-> Cardinality(delivered[op])],
    tokens    <- Cardinality(Tokens) + spent

\* The counter, the ledger and the map of derivations in flight implement the
\* budget: every step, of a retry, a replay, a late settlement or a boot
\* included, is one step of it or none.
ImplementsBudget == Budget!Spec

=============================================================================
