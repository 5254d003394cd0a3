--------------------------- MODULE MCTaskDelivery ---------------------------
(* Model checking instance of TaskDelivery: one conversation, so that there is
   nothing to permute.                                                      *)
EXTENDS TaskDelivery
=============================================================================
