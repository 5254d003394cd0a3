----------------------------- MODULE MCArchive -----------------------------
(* Model checking instance of Archive: one task, nothing to permute.        *)
EXTENDS Archive
=============================================================================
