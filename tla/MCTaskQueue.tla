---------------------------- MODULE MCTaskQueue ----------------------------
(* Small instances of TaskQueue for TLC.                                   *)
EXTENDS TaskQueue, TLC

\* Tasks are interchangeable, and so are workers: sound for the invariants.
Symmetry == Permutations(Tasks) \cup Permutations(Workers)
=============================================================================
