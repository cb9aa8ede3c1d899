-------------------------- MODULE MCServiceManager --------------------------
(* Model checking of ServiceManager.                                       *)
EXTENDS ServiceManager

=============================================================================
