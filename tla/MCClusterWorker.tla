-------------------------- MODULE MCClusterWorker --------------------------
(* Model checking instance of ClusterWorker. *)
EXTENDS ClusterWorker, TLC

Symmetry == Permutations(Children)
=============================================================================
