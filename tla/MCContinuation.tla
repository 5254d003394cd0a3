--------------------------- MODULE MCContinuation ---------------------------
(* Model checking instance of Continuation.  Wakes are not permuted: the run
   checks a liveness property. *)
EXTENDS Continuation
=============================================================================
