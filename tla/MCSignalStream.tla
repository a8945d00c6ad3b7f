---------------------------- MODULE MCSignalStream -----------------------------
(* Instances of SignalStream: one read at a time, one agreement, and a Mission *)
(* activated and then narrowed, by events delivered or withheld.              *)
EXTENDS SignalStream, TLC
CONSTANT q1
NarrowedNext == \A v \in 2 .. Len(log) : log[v].narrows
\* Every narrowing is withheld, and the stream attests nothing meanwhile.
Withholding == probe = NoProbe /\ \A v \in 2 .. Len(log) : job[v] = "withheld"
\* A second narrowing follows the first only if both are withheld.
Pausing == NarrowedNext /\ (Len(log) <= 2 \/ Withholding)
=============================================================================
