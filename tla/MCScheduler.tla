----------------------------- MODULE MCScheduler -----------------------------
(***************************************************************************)
(* Model checking of Scheduler: tasks of one id, stoppable or not, and     *)
(* deletes in any order.                                                   *)
(***************************************************************************)
EXTENDS Scheduler
=============================================================================
