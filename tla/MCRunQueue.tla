----------------------------- MODULE MCRunQueue -----------------------------
(* Model checking of RunQueue.                                             *)
EXTENDS RunQueue, TLC

RequestSymmetry == Permutations(Requests)

=============================================================================
