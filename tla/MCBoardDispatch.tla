-------------------------- MODULE MCBoardDispatch --------------------------
(* Model checking instance of BoardDispatch.  Task ids are issued in order, so
   there is nothing to permute.                                             *)
EXTENDS BoardDispatch
=============================================================================
