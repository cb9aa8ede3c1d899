---------------------------- MODULE MCSequenceValues ----------------------------
(***************************************************************************)
(* Model checking of SequenceValues: two nodes, four-bit integers, so that a    *)
(* few blocks reach the limit and overflow.                                *)
(***************************************************************************)
EXTENDS SequenceValues
=============================================================================
