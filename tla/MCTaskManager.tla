--------------------------- MODULE MCTaskManager ---------------------------
(* Model checking instance of TaskManager.  Callers could be permuted, but the
   run that has two of them also checks a liveness property.                *)
EXTENDS TaskManager
=============================================================================
