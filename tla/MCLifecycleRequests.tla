------------------------- MODULE MCLifecycleRequests -------------------------
(* An original, its retransmissions and divergent retries, under one nonce. *)
EXTENDS LifecycleRequests, TLC

CONSTANTS suspend, resume, revoke, contain

MCOperation == (suspend :> "suspend") @@ (resume :> "resume")
                  @@ (revoke :> "revoke") @@ (contain :> "contain")
MCExpected == (suspend :> 1) @@ (resume :> 0) @@ (revoke :> 0) @@ (contain :> 0)

Interchangeable == Permutations(Exchanges)

=============================================================================
