------------------------- MODULE MCFaultInjection --------------------------
(* Small instances of FaultInjection for TLC.                              *)
EXTENDS FaultInjection, TLC

Symmetry == Permutations(Operators)
=============================================================================
