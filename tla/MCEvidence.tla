------------------------------ MODULE MCEvidence ------------------------------
EXTENDS Evidence, TLC

CONSTANTS r1, r2, a1, a2

\* Runs are alike, and so are ids that nobody has used.
Symmetric == Permutations(Runs) \cup Permutations(Ids)
=============================================================================
