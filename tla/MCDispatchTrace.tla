--------------------------- MODULE MCDispatchTrace ---------------------------
EXTENDS DispatchTrace, TLC
Symmetry == Permutations(Requests)
=============================================================================
