------------------------- MODULE MCSessionBoundary -------------------------
EXTENDS SessionBoundary, TLC
CONSTANTS k1, k2, l1, l2
Symmetry == Permutations({k1, k2}) \cup Permutations({l1, l2})
=============================================================================
