------------------------- MODULE MCSessionArchiver -------------------------
EXTENDS SessionArchiver
CONSTANTS k1, k2
ReplyForms == {[role |-> "assistant", body |-> "ok"], [role |-> "tool", body |-> "img"]}
Symmetry == Permutations({k1, k2})
=============================================================================
