-------------------------- MODULE MCValueExchange --------------------------
(* ValueExchange with two operators on each side.                          *)
EXTENDS ValueExchange

=============================================================================
