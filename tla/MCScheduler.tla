---------------------------- MODULE MCScheduler ----------------------------
(* TLC instance of Scheduler.  No symmetry, because liveness is checked.   *)
EXTENDS Scheduler
=============================================================================
