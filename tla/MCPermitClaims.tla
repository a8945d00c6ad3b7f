---------------------------- MODULE MCPermitClaims -----------------------------
(* Instances of PermitClaims: requests under two keys of one operation.       *)
EXTENDS PermitClaims, TLC

CONSTANTS r1, r2, r3, k1, k2, op, c1

\* r1 and r2 carry one key, r3 another, for one operation.
MCRequests == {r1, r2, r3}
MCKeyOf == (r1 :> k1) @@ (r2 :> k1) @@ (r3 :> k2)
MCOpOf == [r \in MCRequests |-> op]
MCAmount == [r \in MCRequests |-> 1]
MCLimit == [c \in {c1} |-> 1]

\* Metered: both keys charge one counter that has room for one request.
MCMetered == [k \in {k1, k2} |-> {c1}]

\* A pair of requests under one key, unmetered: their permit may be sent again
\* and their claim purged.
MCPair == {r1, r2}
MCPairKeyOf == [r \in MCPair |-> k1]
MCPairOpOf == [r \in MCPair |-> op]
MCPairAmount == [r \in MCPair |-> 1]
MCPairFree == [k \in {k1} |-> {}]
=============================================================================
