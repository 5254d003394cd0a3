------------------------------- MODULE MCCron -------------------------------
(* Model checking instance of Cron.                                        *)
EXTENDS Cron
=============================================================================
