----------------------------- MODULE MCRunbooks -----------------------------
(* Small instances of RunbookSearch for TLC.                               *)
EXTENDS RunbookSearch, TLC

Symmetry == Permutations(Runbooks) \cup Permutations(Services) \cup Permutations(Texts)
=============================================================================
