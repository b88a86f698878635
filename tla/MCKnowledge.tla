----------------------------- MODULE MCKnowledge -----------------------------
EXTENDS Knowledge, TLC
CONSTANTS t, s1, s2, w1, w2, r1, r2, m1, m2, n1, c1, c2
\* One text, beyond the budget.
DraftForms == {<<<<n1>>, <<m1>>, <<n1>>, <<m1>>>>}
Symmetry == Permutations(Sessions) \cup Permutations(Workers)
=============================================================================
