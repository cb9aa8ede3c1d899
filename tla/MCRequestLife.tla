---------------------------- MODULE MCRequestLife ----------------------------
(***************************************************************************)
(* Model checking of RequestLife: one request, paused up to MaxPauses      *)
(* times and with up to MaxItems results.                                  *)
(***************************************************************************)
EXTENDS RequestLife
=============================================================================
