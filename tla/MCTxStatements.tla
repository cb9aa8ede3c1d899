--------------------------- MODULE MCTxStatements ---------------------------
(* Model checking of TxStatements.                                         *)
EXTENDS TxStatements

=============================================================================
