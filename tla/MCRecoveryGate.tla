---------------------------- MODULE MCRecoveryGate ----------------------------
(* RecoveryGate on small instances. *)
EXTENDS RecoveryGate, TLC

\* Orders and callers are interchangeable.
Symmetry == Permutations(Order) \cup Permutations(Caller)
=============================================================================
