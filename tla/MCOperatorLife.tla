--------------------------- MODULE MCOperatorLife ---------------------------
(* OperatorLife with a few runs and senders.                               *)
EXTENDS OperatorLife

=============================================================================
