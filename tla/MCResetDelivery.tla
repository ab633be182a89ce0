-------------------------- MODULE MCResetDelivery --------------------------
EXTENDS ResetDelivery, TLC

CONSTANTS k1, k2, a1, a2, a3

Symmetry == Permutations(Tasks) \cup Permutations(Attempts)
=============================================================================
