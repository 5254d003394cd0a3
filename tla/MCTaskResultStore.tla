------------------------- MODULE MCTaskResultStore -------------------------
(* Model checking instance of TaskResultStore. *)
EXTENDS TaskResultStore, TLC

Symmetry == Permutations(Tasks) \cup Permutations(Threads)
=============================================================================
