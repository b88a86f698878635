---------------------------- MODULE MCReflection ----------------------------
EXTENDS Reflection, TLC
CONSTANTS k1, k2, p1, t1
Symmetry == Permutations(Chats)
=============================================================================
