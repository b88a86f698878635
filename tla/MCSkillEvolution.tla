-------------------------- MODULE MCSkillEvolution --------------------------
EXTENDS SkillEvolution, TLC
CONSTANTS a, b, c
Symmetry == Permutations(Skills)
=============================================================================
