--------------------------- MODULE DerivationBudget ---------------------------
(***************************************************************************)
(* What the derivation limit of a Mission promises, with no counter, no    *)
(* ledger, no retry and no crash in it: an operation is charged at most    *)
(* once, has at most one artifact, and gives its charge back only while it *)
(* has none; what is charged never exceeds the limit.                      *)
(***************************************************************************)
EXTENDS Integers, FiniteSets

CONSTANTS
    Operations,   \* operation identities
    Limit         \* derivation_limit

VARIABLES
    charge,      \* charge[op]: none, charged or returned
    artifacts,   \* artifacts[op]: how many artifacts of op are out
    tokens       \* the token requests charged, at work or for good

vars == <<charge, artifacts, tokens>>

Charged == Cardinality({op \in Operations : charge[op] = "charged"}) + tokens

Charge(op) ==
    /\ charge[op] = "none"
    /\ Charged < Limit
    /\ charge' = [charge EXCEPT ![op] = "charged"]
    /\ UNCHANGED <<artifacts, tokens>>

Issue(op) ==
    /\ charge[op] = "charged"
    /\ artifacts[op] = 0
    /\ artifacts' = [artifacts EXCEPT ![op] = 1]
    /\ UNCHANGED <<charge, tokens>>

GiveBack(op) ==
    /\ charge[op] = "charged"
    /\ artifacts[op] = 0
    /\ charge' = [charge EXCEPT ![op] = "returned"]
    /\ UNCHANGED <<artifacts, tokens>>

ChargeToken ==
    /\ Charged < Limit
    /\ tokens' = tokens + 1
    /\ UNCHANGED <<charge, artifacts>>

GiveBackToken ==
    /\ tokens > 0
    /\ tokens' = tokens - 1
    /\ UNCHANGED <<charge, artifacts>>

Init ==
    /\ charge = [op \in Operations |-> "none"]
    /\ artifacts = [op \in Operations |-> 0]
    /\ tokens = 0

Next ==
    \/ \E op \in Operations : Charge(op) \/ Issue(op) \/ GiveBack(op)
    \/ ChargeToken
    \/ GiveBackToken

Spec == Init /\ [][Next]_vars

=============================================================================
