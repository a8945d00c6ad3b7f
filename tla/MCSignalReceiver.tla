--------------------------- MODULE MCSignalReceiver ----------------------------
(* Instance of SignalReceiver: two agreements, one read at a time.           *)
EXTENDS SignalReceiver, TLC
CONSTANT q1
=============================================================================
