---------------------------- MODULE MCCircuitHealth ----------------------------
(* One failure group, thresholds of one task. *)
EXTENDS CircuitHealth, TLC

CONSTANTS t1, t2, f1, f2

MCGroups == {"availability"}
MCMinimumFailures == [g \in MCGroups |-> 1]
MCOpenPercent == [g \in MCGroups |-> 50]
MCSymmetry == Permutations(Tasks) \cup Permutations(Refreshers)
=============================================================================
