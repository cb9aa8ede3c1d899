--------------------------- MODULE MCSubqueryRun ---------------------------
EXTENDS SubqueryRun, TLC

\* A tree is like any other until it is built.
TreeSymmetry == Permutations(Trees)
=============================================================================
