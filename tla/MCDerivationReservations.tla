---------------------- MODULE MCDerivationReservations ----------------------
(* Small ledgers for TLC.                                                  *)
EXTENDS DerivationReservations, TLC

CONSTANTS root, grant, requestA, requestB, requestC

=============================================================================
