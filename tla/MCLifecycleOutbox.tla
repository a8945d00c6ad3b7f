------------------------- MODULE MCLifecycleOutbox -------------------------
(* Small outboxes for TLC.                                                 *)
EXTENDS LifecycleOutbox, TLC

CONSTANTS grants, families, requestA, requestB

TwoEvents == 1..2

=============================================================================
