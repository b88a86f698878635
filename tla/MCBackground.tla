---------------------------- MODULE MCBackground ----------------------------
EXTENDS Background
CONSTANTS p1, c1, c2
=============================================================================
